SPECIFICATION MCSpec
CONSTANTS
    x1 = x1
    x2 = x2
    y1 = y1
    y2 = y2
    t1 = t1
    t2 = t2
    t3 = t3
    zeit = zeit
    mat = mat
    lager1 = lager1
    lager2 = lager2
    eine = eine
    Nichts = Nichts
    Niemand = Niemand
    Kein = Kein
    Ohne = Ohne
    Zeilen <- MCZeilen
    Material <- MCMaterial
    MitKm <- MCMitKm
    Rechnungen <- Paar
    Positionen <- Tripel
    Stunden <- MCStunden
    Belege <- Tripel
    AbAnfragen <- Paar
    Voll = 2
    Anteile <- MCAnteile
    MaxZurueck = 1
    Angebote <- ZweitesPaar
    Maengel <- MCMaengel
    AnAnfragen <- Paar
    Inhalte <- MCInhalte
    MaxHeute = 1
    MaxLast = 3
    Orte <- MCOrte
    ZentralLager = lager1
    Bestellungen <- Paar
    Bedarfe <- ZweitesPaar
    BedarfMenge <- MCBedarfMenge
    LaAnfragen <- EineAnfrage
    MaxBestand = 2
    MaxBuchungen = 2
    Nutzer <- Paar
    Typen <- ZweitesPaar
    Geschaeftsleitung = Geschaeftsleitung
    MaxOverrides = 1
SYMMETRY Symmetrie
INVARIANTS
    VertriebTyp
    SperreGilt
    
    AngebotStimmt
    LagerStimmt
PROPERTIES
    VersandteSperreBleibt
    GeschwisterHaltenSperre
    VerwaltungBleibt
CHECK_DEADLOCK FALSE
