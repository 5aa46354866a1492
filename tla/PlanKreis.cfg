SPECIFICATION ZpSpec
CONSTANTS
    a = a
    b = b
    c = c
    Ohne = Ohne
    Elemente <- Schritte
    Meilensteine <- Keine
    Kante <- Dreieck
    Umzug <- Keine
    MaxTag = 1
    MaxKanten = 3
    MaxFremd = 2
    MaxPlaner = 1
INVARIANT
    KeinKreis
CHECK_DEADLOCK FALSE
