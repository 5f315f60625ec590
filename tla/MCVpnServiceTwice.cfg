SPECIFICATION Spec
CONSTANTS
    w1 = w1
    w2 = w2
    Main = Main
    Workers <- MCOneWorker
INVARIANTS
    NeverStoppedTwice
CHECK_DEADLOCK FALSE
