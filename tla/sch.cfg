SPECIFICATION JobsFairSpec
CONSTANTS
    MTLS = MTLS
    Telemetry = Telemetry
    Handler = Handler
    Main = Main
    NoRunner = NoRunner
    TelemetryRunner = r3
    r1 = r1
    r2 = r2
    r3 = r3
    Callers = {Handler, Main}
    JobIds = {MTLS, Telemetry}
    JobOf <- OwnJob
    Runners = {r1, r2, r3}
    MaxCalls = 3
    MaxChanges = 2
    MaxGen = 2
    MaxFaults = 1
INVARIANTS EntriesAreKnown
PROPERTIES JobFollowsSetting CredentialsAreRenewed
