SPECIFICATION MCSpec
CONSTANTS
  m1 = m1
  m2 = m2
  w1 = w1
  w2 = w2
  k1 = k1
  k2 = k2
  KeineMail = KeineMail
  Mails <- ZweiMails
  MitAnhang <- ErsteMitAnhang
  Worker <- ZweiWorker
  Plan <- PlanKurz
  Timeout = 1
  MaxAnzahl = 2
  MaxAlter = 2
  MaxWiederholen = 1
  Konten <- ZweiKonten
  Laeufe <- ZweiWorker
  ProLauf = 1
  MaxUid = 2
  MaxGueltig = 2
  MaxPannen = 1
INVARIANTS
  PostTyp
  VersandKonto
  AnzeigeStimmt
  AbrufVollstaendig
PROPERTIES
  ErlaubnisSpec
  PostKommtAn
