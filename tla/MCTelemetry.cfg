SPECIFICATION Spec
CONSTANTS
    w1 = w1
    w2 = w2
    w3 = w3
    p1 = p1
    MaxCalls = 4
    Worker <- MCWorker
    Scraper <- MCScraper
SYMMETRY WorkerSymmetry
INVARIANTS
    TelemetryTypeOK
    ScrapeWithinBounds
    LatencyAccounted
