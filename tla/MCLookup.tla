------------------------------ MODULE MCLookup ------------------------------
(* Instances of Lookup for TLC, and of the registry of churches it reads. *)
EXTENDS Lookup, InMemoryChurches

CONSTANTS a1, a2, g, r, l1, l2

MCAddressProviders == <<a1, a2>>
MCGeoProviders == <<g>>
MCRoutingProviders == <<r>>
MCMaxRetries == [p \in Provider |-> IF p = a1 THEN 2 ELSE 1]

MCFields == {{}, {"street", "city"}}
MCRawProvider ==
    [p \in Provider |-> CASE p = a1 -> AwesomeApi [] p = a2 -> BrasilApi [] p = g -> LocationIq [] p = r -> Geoapify]

\* The providers left out of the chains answer as those in them do.
ASSUME OneStandsForBoth ==
    /\ Nominatim = LocationIq
    /\ OpenRouteService = Geoapify
    /\ \A reply \in Reply : ViaCep[reply] \subseteq withinCepRange(AwesomeApi[reply])

-----------------------------------------------------------------------------
(* Two spellings of one name and two readings of one place, and another of each. *)

MCText == {"Sede", " sede", "Norte"}
MCPoint == {"p", "p+1e-7", "q"}
MCLowerTrim == [t \in MCText |-> IF t = "Norte" THEN "norte" ELSE "sede"]
MCRounded == [p \in MCPoint |-> IF p = "q" THEN "q" ELSE "p"]

\* The index mistakes a place a digit off for a farther one.
MCExact == [p \in MCPoint |-> [q \in MCPoint |-> IF MCRounded[p] = MCRounded[q] THEN 0 ELSE 9]]
MCIndex == [p \in MCPoint |-> [q \in MCPoint |-> IF p = q THEN 0 ELSE IF MCRounded[p] = "p" THEN 1 ELSE 9]]

One(c) == <<[publicId |-> 1, name |-> c[1], at |-> c[2]]>>
Two(c, d) == One(c) \o <<[publicId |-> 2, name |-> d[1], at |-> d[2]]>>
Kind == MCText \X MCPoint
Registries == {list \in {<<>>} \cup {One(c) : c \in Kind} \cup {Two(c, d) : c, d \in Kind} : NoTwins(Rows(list))}
Tables == {Rows(list) : list \in Registries}
Seen == [Statement -> {table \in Tables : Cardinality(table) <= 1}]

\* Creations that overlap others of any kind, each statement failing or not.
ASSUME RegistryKeepsApart ==
    \A seen \in Seen, d \in Data, fails \in {{}} \cup {{s} : s \in Statement} :
        /\ NoTwins(Left(seen, d, 3, fails))
        /\ ConflictIsTrue(seen, d, fails)
        /\ LostRaceIsAFailure(seen, d)

\* A candidate set as large as the registry makes the search exact, a smaller need not.
ASSUME RegistrySearch ==
    /\ \A table \in Tables, user \in MCPoint, limit \in 1..2 : SearchIsExact(table, user, limit)
    /\ \A left \in -1..3 : toStatementTimeout(left, 2) >= 1

\* One request at a time, the double answers as the database does.
ASSUME DoubleAnswersAsTheRegistry ==
    \A items \in Registries, d \in Data :
        LET table == Rows(items) IN
        /\ firstByName(items, d.name) \subseteq findByName(table, d.name)
        /\ CreateOnDouble(items, d) = CreateChurch([s \in Statement |-> table], d, {})
        /\ CreateOnDouble(items, d) = "created"
              => Rows(pushChurch(items, d, 3)) = insertChurch(table, d, 3)
        /\ FindChurchPublicIdByName(table, d.name) =
              IF firstByName(items, d.name) = {} THEN {"ChurchNotFoundError"}
              ELSE {c.publicId : c \in firstByName(items, d.name)}
        /\ \A id \in 1..3 :
              LET spliced == spliceChurch(items, id) IN
              DeleteChurch(table, id) = [said |-> spliced.said, table |-> Rows(spliced.items)]
        /\ \A user \in MCPoint, limit \in 1..2 :
              Cardinality(table) <= knnCandidates(limit)
                 => Rows(sortedByDistance(items, user, limit)) \in findNearest(table, user, limit)
=============================================================================
