SPECIFICATION MCSpec
CONSTANTS
    w1 = w1
    w2 = w2
    z1 = z1
    z2 = z2
    e1 = e1
    e2 = e2
    b1 = b1
    b2 = b2
    s1 = s1
    s2 = s2
    r1 = r1
    r2 = r2
    None = None
    KeinExport = KeinExport
    i1 = i1
    i2 = i2
    a1 = a1
    a2 = a2
    f1 = f1
    f2 = f2
    KeinBericht = KeinBericht
    ImZeilen <- MCImZeilen
    ImAnfragen <- MCImAnfragen
    Berichte <- MCBerichte
    UngueltigeMengen <- MCUngueltigeMengen
    MaxFremd = 2
    MaxPannen = 1
    Worker <- MCWorker
    Zeilen <- MCZeilen
    Plan <- MCPlan
    Stunden <- MCStunden
    Gesperrt <- MCGesperrt
    Anfaellig <- MCAnfaellig
    MaxVersatz = 1
    MaxStoerungen = 1
    MaxDefekte = 1
    Exporte <- MCExporte
    Betrieb <- MCBetrieb
    Bearbeiter <- MCBearbeiter
    MaxAbstuerze = 1
    Saetze <- MCSaetze
    Raumpfleger <- MCRaumpfleger
    MaxVersuche = 2
    MaxAusfaelle = 1
INVARIANTS
    HintergrundTyp
    EinmalProFaelligkeit
    AuftraegeSicher
    
PROPERTIES
    ArbeitWirdGetan
    
CHECK_DEADLOCK FALSE
