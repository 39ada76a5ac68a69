SPECIFICATION FairSpec
CONSTANTS
    f = f
    b1 = b1
    b2 = b2
    primary = primary
    secondary = secondary
    Foreground = {f}
    Background = {b1, b2}
    Routes = {primary, secondary}
    Conversations = {v1, v2}
    Setups <- MCSetups
    FailureThreshold = 2
    RejectionThreshold = 2
    Cooldown = 2
    MaxCalls = 2
    Window = 2
    Backoff = 2
    HoldSeconds = 2
    Attempts = 2
    NoStrike = NoStrike
INVARIANTS TypeOK OneReleasePerStrike SpendBounded
PROPERTIES RouteReturns SummaryGetsThrough
