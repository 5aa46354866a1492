SPECIFICATION MCSpec
CONSTANTS
    e1 = e1
    e2 = e2
    t1 = t1
    t2 = t2
    n1 = n1
    z1 = z1
    z2 = z2
    v1 = v1
    v2 = v2
    p1 = p1
    k1 = k1
    k2 = k2
    None = None
    KeinVerweis = KeinVerweis
    Eintraege <- MCEintraege
    Art <- MCArt
    Tabs <- MCTabs
    Nutzer <- MCNutzer
    MaxAusfaelle = 1
    Ziele <- MCZiele
    Pruefzyklen <- MCPruefzyklen
    Vorgaenge <- MCVorgaenge
    Scheduler <- MCScheduler
    Patcher <- MCPatcher
    Modus = "fest"
    Intervall = 2
    Frueh = 1
    MaxTag = 3
INVARIANTS
    FeldTyp
    OfflineSicher
    ZyklenSicher
PROPERTIES
    ReihenfolgeBleibt
    
    NichtsBleibtLiegen
CHECK_DEADLOCK FALSE
