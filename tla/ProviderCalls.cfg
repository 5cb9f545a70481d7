\* Checks and the probes of a snapshot share a provider's token.
SPECIFICATION Spec
CONSTANTS
    checks = checks
    chat = chat
    embedding = embedding
    Callers <- TheCallers
    TaskOf <- TheTasks
    KindsOf <- TheKinds
    MaxTime = 4
    MaxChunks = 3
    TaskTimeout = 2
    AuthTimeout = 1
    ProviderTimeout = 1
    RefreshSkew = 1
    Lifetimes = {2}
    DefaultLifetime = 3
    Usages = {0, 2}
INVARIANTS TokensCoverRequests CallsEndInTime FiguresAddUp
