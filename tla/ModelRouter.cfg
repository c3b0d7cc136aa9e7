\* Two concurrent requests over the three providers, a breaker that opens at the
\* second failure and closes after a tick.
SPECIFICATION Spec
CONSTANTS
    Requests = {r1, r2}
    Configured = {"openai", "anthropic", "gemini"}
    Rank <- InOrder
    Threshold = 2
    Cooldown = 1
    None = None
INVARIANTS
    ResultsAreEarned
    SkippedHadFailed
PROPERTIES
    RequestsEnd
