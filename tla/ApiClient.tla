----------------------------- MODULE ApiClient -----------------------------
(***************************************************************************)
(* The client of the RomM API (core/api_client.cpp): how the body of an    *)
(* answer becomes platforms or ROMs and the number of the next page.       *)
(*                                                                         *)
(* There is no JSON parser.  An object is its text, and a field is the     *)
(* first match of a regular expression in it: an object is a sequence of   *)
(* fields in textual order here, with those of the objects nested in it    *)
(* among them.  A body is [array, objects, next, cut]: the list stands     *)
(* under "items" or at the "root" or there is "none"; next is the value of *)
(* next_page, -1 without one; the connection broke off nowhere ("no"),     *)
(* within the list ("list") or in what follows it ("tail").                *)
(***************************************************************************)
EXTENDS Integers, Sequences, SequencesExt, Positions

NoNextPage == -1

\* kind is "string" or "number": what stands behind the colon.
Field(key, kind, value) == [key |-> key, kind |-> kind, value |-> value]

-----------------------------------------------------------------------------
(* Fields: extractStringField, extractIntField, extractStringOrNumberField. *)

FieldAt(object, key, kind) ==
  SelectInSeq(object, LAMBDA f : f.key = key /\ f.kind = kind)

Has(object, key, kind) == FieldAt(object, key, kind) # 0

ValueOf(object, key, kind) == object[FieldAt(object, key, kind)].value

\* The first string under a key, the other value if there is none.
StringOr(object, key, other) ==
  IF Has(object, key, "string") THEN ValueOf(object, key, "string") ELSE other

HasId(object) == Has(object, "id", "string") \/ Has(object, "id", "number")

\* A string goes before a number, wherever the two stand.
IdOf(object) ==
  IF Has(object, "id", "string") THEN ValueOf(object, "id", "string")
                                 ELSE ValueOf(object, "id", "number")

-----------------------------------------------------------------------------
(* Bodies: parseItemObjects, parseRootArrayObjects.                        *)

\* The list has an end.
ListIsClosed(body) == body.cut # "list"

NextPageOf(body) == IF body.cut = "tail" THEN NoNextPage ELSE body.next

\* What both requests return: success, the entries, the number of the next page.
Page(ok, items, next) == [ok |-> ok, items |-> items, next |-> next]

NoPage == Page(FALSE, <<>>, 0)

\* An object without an id is left out.
WithId(objects) == KeepPositions(objects, {i \in DOMAIN objects : HasId(objects[i])})

PlatformEntry(object) ==
  LET slug == StringOr(object, "slug", IdOf(object))
  IN  [id         |-> IdOf(object),
       slug       |-> slug,
       name       |-> StringOr(object, "display_name", StringOr(object, "name",
                         IF slug = "" THEN IdOf(object) ELSE slug)),
       familyName |-> StringOr(object, "family_name", ""),
       familySlug |-> StringOr(object, "family_slug", "")]

\* fetchPlatformsPage, from the body on: a list at the root is accepted too, and
\* without next_page there is no further page.
PlatformsPage(body) ==
  IF body.array = "none" \/ ~ListIsClosed(body) THEN NoPage
  ELSE LET objects == WithId(body.objects)
       IN  Page(TRUE, [i \in DOMAIN objects |-> PlatformEntry(objects[i])],
                IF NextPageOf(body) = NoNextPage THEN 0 ELSE NextPageOf(body))

\* fetchRomsPage: the first ROM asked for, and from the body on.  Without
\* next_page a full page is taken to have a successor; objects without an id count.
RomsOffset(page, limit) == IF page > 1 THEN (page - 1) * limit ELSE 0

RomsPage(body, page, limit) ==
  IF body.array # "items" \/ ~ListIsClosed(body) THEN NoPage
  ELSE LET objects == WithId(body.objects)
       IN  Page(TRUE, [i \in DOMAIN objects |-> IdOf(objects[i])],
                IF NextPageOf(body) # NoNextPage THEN NextPageOf(body)
                ELSE IF Len(body.objects) = limit THEN page + 1 ELSE 0)
=============================================================================
