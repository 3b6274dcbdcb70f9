SPECIFICATION ResearchSpec
CONSTANTS
    here = here  there = there  r1 = r1  r2 = r2  old = old
    Texts <- Bodies
    Configs <- AllConfigs
    Origins = {here, there}
    Home = here
    MaxRetries = 2
    MaxRedirects = 2
    MaxEmits = 4
    MaxNested = 3
    Runs = {r1, r2}
    Files = {1, 2}
    Old = old
    MaxEdits = 1
    Segments = {"dir", "file", "", ".", "..", "C:", ".env", "node_modules", "vite.config.ts", "run.sh"}
    MaxSegments = 3
    MaxEntries = 2
    Roots <- Allowed
INVARIANTS CallsCleanUp CallsAreTrue TargetsAreApart
PROPERTIES AbortEndsCall FlowIsSound InstallsWhole
CHECK_DEADLOCK FALSE
