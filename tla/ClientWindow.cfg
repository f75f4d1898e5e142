SPECIFICATION WindowSpec
CONSTANTS
    Foci = {"tracker", "list", "buttons"}
    Buttons = {"play", "stop"}
    Elsewhere = "elsewhere"
    Full = 3
    Steps = 4
    StartBuffered = 2
    StartPlayed = 1
    MaxSongs = 2
    ItemHeight = 3
    ButtonTop = 0
    ButtonBottom = 2
    PlayRight = 5
    SaveRight = 3
    Side = 2
    WindowWidth = 8
    WindowHeights = {10, 11}
    TopHeight = 1
    TrackerHeight = 1
    SeekHeight = 2
    SpacerHeight = 1
    BarWidth = 2
    TitleWidth = 3
    TargetWidth = 2
    ButtonWidth = 2
    MouseYs = {0, 2}
    StrayHeights = {2}
    Far = 99
INVARIANTS ClicksAreOnWhatIsSeen EverySongCanBeShown PanelsFit
PROPERTIES HeldTrackerIsTheUsers TrackerIsShown
