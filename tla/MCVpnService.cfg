SPECIFICATION FairSpec
CONSTANTS
    w1 = w1
    w2 = w2
    Main = Main
    Workers <- MCWorkers
INVARIANTS
    ConnectedHasTunnel
PROPERTIES
    NotStuckStarting
CHECK_DEADLOCK FALSE
