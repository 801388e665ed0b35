\* Response round trip over the providers whose result lists keep the
\* order the provider wrote them in, across failures, crashes and reruns.
CONSTANTS
    MainOrder <- MCOrderOrdered
    MaxRuns = 2
SPECIFICATION Spec
INVARIANT ResponseRoundTrip
CHECK_DEADLOCK FALSE
