-------------------------- MODULE UpstreamProviders --------------------------
(***************************************************************************)
(* What the answer of each upstream API is taken for: an address, a pair   *)
(* of coordinates, a matrix of routes, or null, which denies that there    *)
(* is such a thing.  A failure of the call is not a reply; a 404 is.       *)
(***************************************************************************)

CONSTANT Fields   \* the sets of fields an address may come with

Reply == {"body", "empty", "404"}   \* empty: no body, a body of another shape, an empty list

Null == [kind |-> "null"]
Address(coordinates, fields) == [kind: {"address"}, coordinates: coordinates, fields: fields]
Coordinates == [kind |-> "coordinates"]
Matrix(reachable) == [kind |-> "matrix", reachable |-> reachable]

Result ==
    {Null, Coordinates, Matrix(TRUE), Matrix(FALSE)} \cup Address(BOOLEAN, Fields)

\* Only AwesomeAPI may know the coordinates.
AwesomeApi ==
    [reply \in Reply |-> IF reply = "body" THEN Address(BOOLEAN, Fields) ELSE {Null}]

\* An answer counts only with its city.
BrasilApi ==
    [reply \in Reply |->
        IF reply = "body" THEN Address({FALSE}, {f \in Fields : "city" \in f}) \cup {Null} ELSE {Null}]

\* A CEP it does not know is a body, with erro set.
ViaCep ==
    [reply \in Reply |-> IF reply = "body" THEN Address({FALSE}, Fields) \cup {Null} ELSE {Null}]

LocationIq == [reply \in Reply |-> IF reply = "body" THEN {Coordinates} ELSE {Null}]
Nominatim == [reply \in Reply |-> IF reply = "body" THEN {Coordinates} ELSE {Null}]

\* Of a matrix a 404, or no row, is an answer: nothing is reachable.
allUnreachable == {Matrix(FALSE)}
readDistanceRow == {Matrix(TRUE), Matrix(FALSE)}
Geoapify == [reply \in Reply |-> IF reply = "body" THEN readDistanceRow ELSE allUnreachable]
OpenRouteService == [reply \in Reply |-> IF reply = "body" THEN readDistanceRow ELSE allUnreachable]

\* An address in another state than the CEP's range is discarded.
withinCepRange(results) ==
    results \cup (IF \E x \in results : x.kind = "address" THEN {Null} ELSE {})
=============================================================================
