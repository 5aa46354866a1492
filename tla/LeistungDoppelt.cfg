SPECIFICATION Spec
CONSTANTS
  z1 = z1
  z2 = z2
  m1 = m1
  r1 = r1
  r2 = r2
  p1 = p1
  p2 = p2
  p3 = p3
  Nichts = Nichts
  Zeilen <- ZweiZeilen
  Material <- EinMaterial
  MitKm <- EineFahrt
  Rechnungen <- ZweiRechnungen
  Positionen <- DreiPositionen
  Stunden <- ZweiQuellen
SYMMETRY Symmetrie
INVARIANTS
  KeineDoppelabrechnung
CHECK_DEADLOCK FALSE
