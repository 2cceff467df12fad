----------------------------- MODULE TableView -----------------------------
(***************************************************************************)
(* What ProfilePage.tsx and JobStatusPage.tsx share: the view of a table,  *)
(* the URL's query string it is kept in, and the sort cycle.               *)
(*                                                                         *)
(* A view is a record with one field for each query parameter; a query     *)
(* string is a function from the parameters it has to their values.        *)
(***************************************************************************)
EXTENDS Integers, Sequences, Functions

Directions == <<"asc", "desc", "none">>

NextDirection(dir) ==
  LET i == CHOOSE n \in DOMAIN Directions : Directions[n] = dir
  IN  Directions[(i % 3) + 1]

(* A click on a column's header.                                           *)
SortedBy(view, column) ==
  [view EXCEPT !.sort = column,
               !.dir = IF view.sort = column THEN NextDirection(@) ELSE "asc"]

-----------------------------------------------------------------------------
(* The two parameters of the sort are written, and read, together.         *)

SortParams == {"sort", "dir"}

(* Mutant: a parameter is written when its own value is not the default. *)
BuildEach(view, default) ==
  Restrict(view, {p \in DOMAIN view : view[p] # default[p]})

Build(view, default) ==
  LET changed == {p \in DOMAIN view : view[p] # default[p]}
  IN  Restrict(view, IF changed \cap SortParams = {}
                     THEN changed ELSE changed \cup SortParams)

(* valid is the set of the parameters whose value the page accepts.        *)
Parse(url, default, valid) ==
  LET read == IF SortParams \subseteq valid THEN valid ELSE valid \ SortParams
  IN  [p \in DOMAIN default |-> IF p \in read THEN url[p] ELSE default[p]]

-----------------------------------------------------------------------------
CeilingOf(a, b) == (a + b - 1) \div b

PagesOf(items, size) == IF items = 0 THEN 1 ELSE CeilingOf(items, size)

(* The page that is shown: clamped, and not reset.                         *)
Effective(page, items, size) ==
  IF page > PagesOf(items, size) THEN PagesOf(items, size) ELSE page

Slice(seq, page, size) ==
  LET last == page * size
  IN  SubSeq(seq, (page - 1) * size + 1,
             IF last > Len(seq) THEN Len(seq) ELSE last)
=============================================================================
