CONSTANTS
    a1 = a1
    a2 = a2
    g = g
    r = r
    l1 = l1
    l2 = l2
    Request = {l1, l2}
    Provider = {a1, a2, g, r}
    AddressProviders <- MCAddressProviders
    GeoProviders <- MCGeoProviders
    RoutingProviders <- MCRoutingProviders
    MaxRetries <- MCMaxRetries
    Fields <- MCFields
    RawProvider <- MCRawProvider
    Text <- MCText
    Point <- MCPoint
    lowerTrim <- MCLowerTrim
    rounded <- MCRounded
    exactDistance <- MCExact
    indexDistance <- MCIndex
    KnnMinCandidates = 1
    KnnCandidateMultiplier = 1
    MaxTrips = 1
    MaxFailOpen = 3
SPECIFICATION Spec
INVARIANTS TypeOK LongNegativesAreUnanimous AbortedMeansShortBudget EveryBypassIsToldOnce
PROPERTIES TheUnheardAskNobody LookupsAreAnswered
CHECK_DEADLOCK FALSE
