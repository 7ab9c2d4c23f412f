---------------------------- MODULE MCPagination ----------------------------
(***************************************************************************)
(* Pagination for TLC, and what the comments and documents say of it where *)
(* the code disagrees.                                                     *)
(***************************************************************************)
EXTENDS Pagination

(* pagination.go:146, "After Next returns false, Value returns the last    *)
(* successfully yielded item".                                             *)
ValueKeptAtTheEnd == done /\ ~closed => Value = delivered

(* pagination.go:83, Next returns false "when iteration is complete        *)
(* (either all items exhausted, maxItems reached, or an error occurred)".  *)
EndsForAReason ==
  done /\ ~closed => \/ itemsYielded = ends[Len(ends)]
                     \/ Capped
                     \/ err

(* Pagination.md:44, "the iterator holds at most one page of items plus    *)
(* the next-page token in memory at any time".                             *)
OnePageHeld == first = <<>> \/ items = <<>> \/ items = first
=============================================================================
