SPECIFICATION MCSpec
CONSTANTS
    el1 = el1
    el2 = el2
    ms = ms
    q1 = q1
    q2 = q2
    t1 = t1
    t2 = t2
    s1 = s1
    s2 = s2
    Ohne = Ohne
    Leerlauf = Leerlauf
    Elemente <- MCElemente
    Meilensteine <- MCMeilensteine
    Kante <- MCKante
    Umzug <- MCUmzug
    MaxTag = 2
    MaxKanten = 2
    MaxFremd = 1
    MaxPlaner = 1
    Antraege <- MCAntraege
    Techniker <- MCTechniker
    Sitzungen <- MCSitzungen
    LetzterTag = 1
    Felder <- MCFelder
    Gruppenfelder <- MCGruppenfelder
    Gruppe = "G"
    Pflicht = {"menge", "teil"}
    Antworten <- MCAntworten
    Regeln <- MCRegeln
    MaxRegeln = 3
    MaxZeilen = 1
    MaxRedakteure = 1
    Literal = "L"
    OhneWert = OhneWert
    Wurzel = Wurzel
    Positionen <- MCPositionen
    Einheiten <- MCSitzungen
    Besetzer <- MCBesetzer
    OgAnfragen <- MCAntraege
    MaxSitze = 1
    MaxKnoten = 4
SYMMETRY Symmetrie
INVARIANTS
    PlanungTyp
    PlanStimmt
    AntragGilt
    
    OrganigrammGilt
PROPERTIES
    VerbindungenHalten
    
CHECK_DEADLOCK FALSE
