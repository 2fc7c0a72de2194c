SPECIFICATION Spec
CONSTANTS
    Chain <- MCChain
    Protected = {"GetProfile", "UpdateProfile", "Logout", "ChangePassword"}
    Scenario <- MCScenario
    NoSpec = NoSpec
    Nothing = Nothing
INVARIANTS
    TypeOK
    Agree
    IdentityFirst
    SpecSound
PROPERTIES
    Implements
CHECK_DEADLOCK FALSE
