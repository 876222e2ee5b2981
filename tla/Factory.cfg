CONSTANTS
    Threads = {t1, t2}
    Types = {y1, y2}
    Stops = {c1}
    None = None
SPECIFICATION FairSpec
INVARIANTS TypeOK SharedOnce NothingAfterShutdown NoAddDuringWait
PROPERTIES ShutdownTerminates CallsReturn ActsAtomically
