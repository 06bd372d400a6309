SPECIFICATION FairSpec
CONSTANTS
    Pipe = {1, 2}
    Scenario <- MCScenario
    Nil = Nil
INVARIANTS
    BuffersOwned
PROPERTIES
    HandlersEnd
CHECK_DEADLOCK FALSE
