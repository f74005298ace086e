SPECIFICATION Spec
CONSTANTS
    p = p
    here = here
    Points = {p, here}
    Here = here
    NoPoint = NoPoint
    NoRoute = NoRoute
    Modes = {"auto", "bicycle"}
    Car = "auto"
    AvoidSets = {{}}
    Links <- RouteLink
    MaxRequests = 2
    MaxRoutes = 2
    MaxLocating = 1
INVARIANTS RouteAnswersInputs 
CHECK_DEADLOCK FALSE
