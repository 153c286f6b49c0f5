SPECIFICATION ConsoleSpec
CONSTANTS
    MaxNavs = 4  MaxRefreshes = 2
    EditNodes = {a, b}  Nobody = Nobody  MaxEdits = 2
    Kilo = 1024  Top = 2  Totals = {0, 1500, 400001}  Entries <- MCEntries  MaxSafe = 500000
    MaxPins = 2  MaxReads = 2
    Slots = {1, 2}  MaxBody = 1
    Items = {i1, i2}  MaxWrites = 2  MaxInFlight = 2
    Themes = {t1, t2}  NoTheme = NoTheme  Values <- MCValues  Defaults <- MCDefaults  Typed <- MCTyped
    MaxPolls = 3  MaxImports = 2
INVARIANTS SignedOutStaysOut OwnConfigWritten DriftBounded PlainOwned SettingsKept ListMatchesStore  RestartKeepsBusy
PROPERTIES NavigationSettles PinConverges ImportSettles
CHECK_DEADLOCK FALSE
