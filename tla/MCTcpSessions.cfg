SPECIFICATION Spec
CONSTANTS
    SessionMax = 2
    MaxConns = 3
    MaxFds = 3
    Targets = {t1}
    MaxRuns = 2
INVARIANTS StackIsFree ThreadsOwnTheirSockets NothingOutlivesLp
PROPERTY TeardownCompletes
