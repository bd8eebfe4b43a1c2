\* Two users, two phones, three causes; two requests, every kind of interference in turn.
SPECIFICATION Spec
CONSTANTS
    ann = ann
    bob = bob
    phone = phone
    tablet = tablet
    Users = {ann, bob}
    Nobody = Nobody
    Tokens = {phone, tablet}
    Home <- MCHome
    Default = "sandbox"
    Causes <- MCCauses
    Choices <- MCChoices
    Requests = {r1, r2}
    Settings <- MCSettings
SYMMETRY Symmetry
INVARIANTS
    FanOutIsWhole
    ReachesRecipient
    StampedOnce
PROPERTY
    OnlyLostGoSilent
