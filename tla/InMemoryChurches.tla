---------------------------- MODULE InMemoryChurches ----------------------------
(***************************************************************************)
(* InMemoryChurchesRepository, the double of the use cases' unit tests: an  *)
(* array without the database's indexes.  Its distance is taken for the     *)
(* exact one.                                                               *)
(***************************************************************************)
EXTENDS ChurchRegistry, RowLists

\* items.find: the first match.
first(items, wanted) ==
    LET hits == SelectSeq(items, LAMBDA c : c \in wanted) IN IF hits = <<>> THEN {} ELSE {hits[1]}

firstByParams(items, d) == first(items, {c \in Rows(items) : Twin(c, d)})
firstByName(items, name) == first(items, {c \in Rows(items) : SameName(c, name)})

\* No index refuses the row.
pushChurch(items, d, id) == Append(items, [publicId |-> id, name |-> d.name, at |-> d.at])

\* splice: the first of that publicId, or ChurchNotFoundError.
spliceChurch(items, id) ==
    LET at == {i \in DOMAIN items : items[i].publicId = id}
        left == SelectSeq(items, LAMBDA c : c.publicId # id)
    IN  [said |-> IF at = {} THEN "ChurchNotFoundError" ELSE "deleted", items |-> left]

sortedByDistance(items, user, limit) ==
    LET distanceMeters == [c \in Rows(items) |-> exactDistance[user][c.at]]
    IN  SortBy(items, Rows(items), distanceMeters, limit)

\* CreateChurchUseCase over the double, alone.
CreateOnDouble(items, d) ==
    IF d.address = "blank" THEN "NoAddressError"
    ELSE IF firstByName(items, d.name) \cup firstByParams(items, d) # {}
      THEN "ChurchAlreadyExistsError"
    ELSE "created"
================================================================================
