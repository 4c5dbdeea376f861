SPECIFICATION InputSpec
CONSTANTS
    Keys = {"a"}
    ModOrder <- ShiftCtrl
    Loose = {"ctrl"}
    MaxActions = 2
    MaxStuck = 1
    CharOrder <- TwoChars
    Stable <- OneStable
    NamedOrder <- Enter
    KeyboardMods <- JustCtrl
    Words <- OneWord
    DynSlots = 2
    MaxSends = 2
    Symbols = {"a", "A", "E", "x", "X", "y", "Y"}
    ModifierNames <- ShiftCtrl
    Layouts <- AllLayouts
    TypedBatches <- XTestBatches
    MaxRefusals = 1
    NoSymbol = NoSymbol
    Nil = Nil
    None = None
    Callers = {"c1", "c2"}
    Inputs = {"a", "b", "ctrl"}
    ModifierOrder <- JustCtrl
    Scenes <- PortalScenes
    Nothing = Nothing
    Openers = {1, 2, 3}
    MaxTokens = 3
    Devices = {"d", "e"}
    Objects = {"d", "o", "p", "q"}
    Interfaces = {"keyboard", "pointer"}
    Pointer = "pointer"
INVARIANTS
    DownIsHeld
    HeldKeepTheirMeaning
    RemoteHoldsAreExact
    OnlyUsableDevices
    TokensAreSingleUse
    XTestIsExact
PROPERTIES
    HoldsSurvive
CHECK_DEADLOCK FALSE
