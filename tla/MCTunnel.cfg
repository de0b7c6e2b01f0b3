\* Two activations, attested or not, at half-second ticks, a client clock behind the PEP's,
\* answers changed on their way, a restart of the PEP.
CONSTANTS
    Activations = {a1, a2}
    Modes = {TRUE, FALSE}
    Second = 2
    SALifetime = 2
    MaxSALifetime = 3
    TokenTTL = 3
    Margin = 1
    ClientOffset <- Behind
    Services = {"svc-http", "svc-other"}
    Scope = {"svc-http"}
    Relays <- Changes
    NoOwner = NoOwner
    MaxTime = 7
    MaxRestarts = 1
SPECIFICATION Spec
CHECK_DEADLOCK FALSE
SYMMETRY Symmetry
INVARIANTS TypeOK HonestAnswerAccepted ClientOutlivesPEP RouteToLatest
