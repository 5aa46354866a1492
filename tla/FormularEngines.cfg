SPECIFICATION FoSpec
CONSTANTS
    Felder <- MCFelder
    Gruppenfelder <- MCGruppenfelder
    Gruppe = "G"
    Pflicht = {"art"}
    Antworten <- MCAntworten
    Regeln <- MCRegeln
    MaxRegeln = 1
    MaxZeilen = 1
    MaxRedakteure = 1
    Literal = "L"
INVARIANT
    EnginesGleich
CHECK_DEADLOCK FALSE
