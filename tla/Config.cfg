\* Two requests, each any of fifteen edits or a raw save, and one change from outside.
CONSTANTS
    Reserved = {"exclude", "keep"}
    Requests = {r1, r2}
    Operations <- MCOps
    RawTexts <- MCTexts
    Files = {"keyfile"}
    MaxHands = 1
SPECIFICATION Spec
CHECK_DEADLOCK FALSE
INVARIANTS
    FileStaysLoadable
    ViewsAgree
    PagesRoundTrip
PROPERTIES
    EditsDoNotInterfere
    EditsAreAnswered
