---------------------------- MODULE ChurchRegistry ----------------------------
(***************************************************************************)
(* The registry of churches: creating one, deleting one, finding one by     *)
(* name, and the two-phase search for the nearest.  No two churches may     *)
(* share a name or a place; the use case looks for a twin in two queries    *)
(* and inserts in a third statement, under two unique indexes.              *)
(*                                                                         *)
(* Other requests write between the statements of one: a request is given   *)
(* the table each of its statements sees (`seen'), and which of them fail.  *)
(***************************************************************************)
EXTENDS Integers, Sequences, FiniteSets

CONSTANTS
    Text, Point,       \* names as they are typed, coordinates as they are given
    lowerTrim,         \* [Text -> normal form]: lower(trim(name))
    rounded,           \* [Point -> normal form]: lat and lon to six decimals
    indexDistance,     \* [Point -> [Point -> Nat]]: what the candidates are ordered by
    exactDistance,     \* [Point -> [Point -> Nat]]: ST_Distance
    KnnMinCandidates, KnnCandidateMultiplier

ASSUME RegistryAssumption ==
    /\ indexDistance \in [Point -> [Point -> Nat]]
    /\ exactDistance \in [Point -> [Point -> Nat]]
    /\ KnnMinCandidates \in Nat /\ KnnCandidateMultiplier \in Nat

Data == [name: Text, at: Point, address: {"given", "blank"}]
Church == [publicId: Nat, name: Text, at: Point]

SameName(c, name) == lowerTrim[c.name] = lowerTrim[name]
SamePlace(c, at) == rounded[c.at] = rounded[at]
Twin(c, d) == SameName(c, d.name) \/ SamePlace(c, d.at)

-----------------------------------------------------------------------------
(* PrismaChurchesRepository *)

Mapped == [P2002 |-> "ChurchAlreadyExistsError", P2025 |-> "ChurchNotFoundError"]

\* PrismaErrorMapper.map
mapError(code) == IF code \in DOMAIN Mapped THEN Mapped[code] ELSE "DatabaseQueryError"

findByName(table, name) == {c \in table : SameName(c, name)}

findByParams(table, d) == {c \in table : Twin(c, d)}

insertChurch(table, d, id) == table \cup {[publicId |-> id, name |-> d.name, at |-> d.at]}

\* What the unique indexes on the name and on the place let in; a raw query they refuse
\* is told by a code of its own.
createChurch(table, d) == IF findByParams(table, d) = {} THEN "created" ELSE mapError("P2010")

deleteChurchByPublicId(table, id) ==
    LET hit == {c \in table : c.publicId = id}
    IN  [said |-> IF hit = {} THEN "ChurchNotFoundError" ELSE "deleted", table |-> table \ hit]

-----------------------------------------------------------------------------
(* The use cases *)

Statement == {"findByName", "findByParams", "createChurch"}

findDuplicate(seen, d, fails) ==
    IF "findByName" \in fails THEN mapError("failed")
    ELSE IF findByName(seen.findByName, d.name) # {} THEN "ChurchAlreadyExistsError"
    ELSE IF "findByParams" \in fails THEN mapError("failed")
    ELSE IF findByParams(seen.findByParams, d) # {} THEN "ChurchAlreadyExistsError"
    ELSE "none"

\* CreateChurchUseCase.execute
CreateChurch(seen, d, fails) ==
    IF d.address = "blank" THEN "NoAddressError"
    ELSE IF findDuplicate(seen, d, fails) # "none" THEN findDuplicate(seen, d, fails)
    ELSE IF "createChurch" \in fails THEN mapError("failed")
    ELSE createChurch(seen.createChurch, d)

\* What the request leaves of the table its last statement sees.
Left(seen, d, id, fails) ==
    IF CreateChurch(seen, d, fails) = "created"
      THEN insertChurch(seen.createChurch, d, id) ELSE seen.createChurch

\* DeleteChurchUseCase.execute: what the one statement says.
DeleteChurch(table, id) == deleteChurchByPublicId(table, id)

FindChurchPublicIdByName(table, name) ==
    LET found == findByName(table, name)
    IN  IF found = {} THEN {"ChurchNotFoundError"} ELSE {c.publicId : c \in found}

-----------------------------------------------------------------------------
(* The nearest churches *)

\* The sets of n rows ORDER BY distance LIMIT n may keep.
Nearest(table, distance, n) ==
    {kept \in SUBSET table :
        /\ Cardinality(kept) = IF Cardinality(table) < n THEN Cardinality(table) ELSE n
        /\ \A c \in kept, other \in table \ kept : distance[c.at] <= distance[other.at]}

knnCandidates(limit) ==
    IF KnnMinCandidates > limit * KnnCandidateMultiplier
      THEN KnnMinCandidates ELSE limit * KnnCandidateMultiplier

\* KNN_SQL: pre-filtered by the index's order, ranked by the exact one.
findNearest(table, user, limit) ==
    UNION {Nearest(candidates, exactDistance[user], limit) :
              candidates \in Nearest(table, indexDistance[user], knnCandidates(limit))}

\* SET LOCAL statement_timeout, for a budget in units of 1/scale ms: 0 would be no limit.
toStatementTimeout(budget, scale) == IF budget \div scale > 1 THEN budget \div scale ELSE 1

-----------------------------------------------------------------------------
(* What the registry promises *)

\* No two churches share a name or a place (the unique indexes of the migration).
NoTwins(table) == \A c, d \in table : Twin(c, d) => c = d

\* A church that stood all along is never duplicated, whatever else changed; and who is
\* told that the church exists could have seen it (create-church.service.ts).
ConflictIsTrue(seen, d, fails) ==
    LET said == CreateChurch(seen, d, fails) IN
    /\ (\E c \in seen.findByName \cap seen.findByParams \cap seen.createChurch : Twin(c, d))
          => said # "created"
    /\ said = "ChurchAlreadyExistsError"
          => \E c \in seen.findByName \cup seen.findByParams : Twin(c, d)

\* A twin inserted after the checks is refused by its index, as a failure of the
\* database and not as a conflict.
LostRaceIsAFailure(seen, d) ==
    (/\ d.address = "given"
     /\ findByParams(seen.findByName \cup seen.findByParams, d) = {}
     /\ findByParams(seen.createChurch, d) # {}) =>
        CreateChurch(seen, d, {}) = "DatabaseQueryError"

\* As long as every church is a candidate the search is exact.
SearchIsExact(table, user, limit) ==
    Cardinality(table) <= knnCandidates(limit) =>
        findNearest(table, user, limit) = Nearest(table, exactDistance[user], limit)
================================================================================
