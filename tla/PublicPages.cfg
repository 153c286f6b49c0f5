SPECIFICATION SiteSpec
CONSTANTS
    Nodes = {n1}  Thresholds = {1, 2}  DefaultThreshold = 2  MaxAge = 2  MaxSockets = 3  NoSample = NoSample
    Probes = {"a", "b"}  Targets = {"x"}  Overviews <- MCOverviews  Windows = {24, 168}  DefaultWindow = 24
    MaxRequests = 4  MaxLoads = 1  None = None
    Hours = {24, 168}  FirstHours = 24  MaxDue = 2  MaxFailures = 1
    Tabs = {t1, t2}  LanguageLists <- MCLanguageLists
    Latencies <- MCLatencies  Losses = {0, 40, 100}  Carriers = {c1, c2}  Times = {30, 70}  Minute = 60
    MaxSamples = 3  MaxResults = 3  ReportAges = {0, 9, 10, 59, 60, 3599, 3600, 86399, 86400, 200000}  Bytes <- MCBytes
INVARIANTS LatencyCoherent ConnectionSound  LocaleIsRight FiguresRight
PROPERTIES Reconnects StaleTurnsOffline WindowCatchesUp
CHECK_DEADLOCK FALSE
