-------------------------- MODULE PaginationProofs --------------------------
(***************************************************************************)
(* Theorems about Pagination for any catalogue: any number of pages of any *)
(* sizes, empty pages included, and any cap.                               *)
(***************************************************************************)
EXTENDS Pagination, TLAPS, WellFoundedInduction

-----------------------------------------------------------------------------
(* The inductive invariant.  Cursor: what the iterator knows of the page   *)
(* it is on.  Placed: while it runs, its position in the buffer says how   *)
(* many items it has delivered, and no page so far was empty.  Requested:  *)
(* which pages were asked for.                                             *)
Live == ~done /\ ~closed

Cursor ==
  /\ started => /\ pagesFetched \in Pages
                /\ nextToken = TokenAfter(pagesFetched)
                /\ hasNextPage <=> nextToken # 0
  /\ ~started => /\ pagesFetched = 0 /\ items = <<>> /\ pos = 0
                 /\ itemsYielded = 0
  /\ source = "eager" /\ ~firstErr => first = PageItems(1)
  /\ closed => done
  /\ err => done
  /\ Live => (consumed <=> started)
  /\ source = "none" => ~done /\ ~started

Placed ==
  /\ Live /\ started => /\ items = PageItems(pagesFetched)
                        /\ pos < Len(items)
                        /\ itemsYielded = Before(pagesFetched) + pos + 1
                        /\ \A q \in 1..pagesFetched : ~Gap(q)
  /\ itemsYielded <= Limit
  /\ delivered = itemsYielded

Untouched(p) == IF p = 1 THEN source # "eager" ELSE TRUE
Requested ==
  /\ \A p \in Pages : asked[p] <= 1
  /\ Live => \A p \in Pages : p > pagesFetched /\ Untouched(p) => asked[p] = 0
  /\ \A p \in Pages : asked[p] = 1 /\ p > 1 =>
       itemsYielded >= Before(p) /\ (maxItems > 0 => Before(p) < maxItems)

IInv == Cursor /\ Placed /\ Requested

-----------------------------------------------------------------------------
(* A nonempty set of natural numbers has a least element. *)
LEMMA LeastElement ==
  ASSUME NEW S \in SUBSET Nat, S # {}
  PROVE  \E m \in S : \A k \in S : m <= k
<1> DEFINE R == OpToRel(<, Nat)
<1>1. IsWellFoundedOn(R, Nat)
  BY NatLessThanWellFounded
<1>2. \A x, y \in Nat : ~ (<<y, x>> \in R) => x <= y
  BY DEF OpToRel
<1> HIDE DEF R
<1>3. \E x \in S : \A y \in S : ~ (<<y, x>> \in R)
  BY <1>1, WFMin, Zenon
<1>4. QED BY <1>2, <1>3, Zenon

(* A catalogue: its pages are 1..n, and the ends of the pages ascend. *)
LEMMA CatalogueFacts ==
  ASSUME ends \in Catalogues
  PROVE  \E n \in 1..MaxPages :
           /\ Pages = 1..n /\ Len(ends) = n
           /\ \A p \in 1..n : ends[p] \in 0..MaxItem
           /\ \A p, q \in 1..n : p <= q => ends[p] <= ends[q]
           /\ \A p \in 1..n : Before(p) \in 0..MaxItem /\ Before(p) <= ends[p]
<1>1. PICK n \in 1..MaxPages :
        ends \in {e \in [1..n -> 0..MaxItem] : \A p, q \in 1..n : p <= q => e[p] <= e[q]}
  BY DEF Catalogues
<1>2. Pages = 1..n /\ Len(ends) = n
  BY <1>1, BoundAssumption DEF Pages
<1>3. \A p \in 1..n : Before(p) \in 0..MaxItem /\ Before(p) <= ends[p]
  BY <1>1, BoundAssumption DEF Before
<1>4. QED BY <1>1, <1>2, <1>3, BoundAssumption

(* The items of a page: how many, and which. *)
LEMMA PageFacts ==
  ASSUME ends \in Catalogues, NEW p \in Pages
  PROVE  /\ Len(PageItems(p)) = ends[p] - Before(p)
         /\ \A i \in 1..Len(PageItems(p)) : PageItems(p)[i] = Before(p) + i
         /\ PageItems(p) = <<>> <=> Gap(p)
<1>1. ends[p] \in Nat /\ Before(p) \in Nat /\ Before(p) <= ends[p]
  BY CatalogueFacts, BoundAssumption
<1>2. Len(PageItems(p)) = ends[p] - Before(p)
  BY <1>1 DEF PageItems
<1>3. \A i \in 1..Len(PageItems(p)) : PageItems(p)[i] = Before(p) + i
  BY <1>2 DEF PageItems
<1>4. PageItems(p) = <<>> <=> Len(PageItems(p)) = 0
  BY <1>1 DEF PageItems
<1>5. QED BY <1>1, <1>2, <1>3, <1>4 DEF Gap

(* What can be delivered: up to the first empty page, when there is one. *)
LEMMA ReachableFacts ==
  ASSUME ends \in Catalogues
  PROVE  /\ Reachable \in 0..MaxItem
         /\ \A p \in Pages : (\A q \in 1..p : ~Gap(q)) => ends[p] <= Reachable
         /\ (\A q \in Pages : ~Gap(q)) => Reachable = ends[Len(ends)]
         /\ \A p \in Pages : Gap(p) /\ (\A q \in 1..(p - 1) : ~Gap(q)) =>
              Reachable = ends[p]
<1>0. PICK n \in 1..MaxPages :
           /\ Pages = 1..n /\ Len(ends) = n
           /\ \A p \in 1..n : ends[p] \in 0..MaxItem
           /\ \A p, q \in 1..n : p <= q => ends[p] <= ends[q]
  BY CatalogueFacts
<1> DEFINE First(p) == p \in Pages /\ Gap(p) /\ \A q \in Pages : Gap(q) => p <= q
<1> DEFINE m == CHOOSE p \in Pages : Gap(p) /\ \A q \in Pages : Gap(q) => p <= q
<1>1. CASE \A q \in Pages : ~Gap(q)
  <2>1. Reachable = ends[n]
    BY <1>0, <1>1 DEF Reachable
  <2>2. QED BY <1>0, <1>1, <2>1
<1>2. CASE \E q \in Pages : Gap(q)
  <2>1. \E p \in {q \in Pages : Gap(q)} : \A k \in {q \in Pages : Gap(q)} : p <= k
    <3>1. {q \in Pages : Gap(q)} \in SUBSET Nat /\ {q \in Pages : Gap(q)} # {}
      BY <1>0, <1>2
    <3>2. QED BY <3>1, LeastElement, Zenon
  <2>2. \E p \in Pages : Gap(p) /\ \A q \in Pages : Gap(q) => p <= q
    BY <2>1
  <2>3. First(m)
    BY <2>2
  <2>4. Reachable = ends[m]
    BY <1>2 DEF Reachable
  <2> HIDE DEF m
  <2>5. QED BY <1>0, <1>2, <2>3, <2>4
<1>3. QED BY <1>1, <1>2

(* The cap and what is reachable bound what is delivered. *)
LEMMA LimitFacts ==
  ASSUME TypeOK
  PROVE  /\ Limit \in 0..MaxItem /\ Limit <= Reachable
         /\ maxItems > 0 => Limit <= maxItems
         /\ Limit = Reachable \/ (maxItems > 0 /\ Limit = maxItems)
BY ReachableFacts, BoundAssumption DEF TypeOK, Limit

(* No step changes the catalogue or the cap. *)
LEMMA FixedCatalogue ==
  ASSUME UNCHANGED config
  PROVE  /\ Limit' = Limit /\ Pages' = Pages
         /\ Catalogues' = Catalogues
         /\ \A p : Before(p)' = Before(p) /\ PageItems(p)' = PageItems(p)
         /\ \A p : (Gap(p)' <=> Gap(p)) /\ TokenAfter(p)' = TokenAfter(p)
<1>1. ends' = ends /\ maxItems' = maxItems
  BY DEF config
<1>2. QED BY <1>1 DEF Limit, Reachable, Gap, Before, PageItems, TokenAfter, Pages, Catalogues

(* The page that Next asks for is the one after those it has seen, and all *)
(* items ahead of it were delivered.                                       *)
LEMMA FetchFacts ==
  ASSUME TypeOK, IInv, NeedsPage, NEW p \in Pages, p = Token
  PROVE  /\ p = pagesFetched + 1 /\ pagesFetched \in Nat
         /\ p > 1 <=> started
         /\ itemsYielded = Before(p)
         /\ \A q \in 1..pagesFetched : ~Gap(q)
         /\ maxItems > 0 => itemsYielded < maxItems
<1>0. PICK n \in 1..MaxPages : Pages = 1..n /\ \A q \in 1..n : ends[q] \in 0..MaxItem
  BY CatalogueFacts DEF TypeOK
<1>1. Live /\ ~Capped /\ (started => hasNextPage)
  BY DEF NeedsPage, Running, Live
<1>2. maxItems > 0 => itemsYielded < maxItems
  BY <1>1, BoundAssumption DEF Capped, TypeOK
<1>3. CASE ~started
  BY <1>0, <1>2, <1>3, BoundAssumption DEF Token, IInv, Cursor, Before, TypeOK
<1>4. CASE started
  <2>1. pagesFetched \in Pages /\ nextToken # 0 /\ p = pagesFetched + 1
    BY <1>0, <1>1, <1>4 DEF IInv, Cursor, TokenAfter, Token
  <2>2. /\ items = PageItems(pagesFetched) /\ pos < Len(items)
        /\ itemsYielded = Before(pagesFetched) + pos + 1
        /\ \A q \in 1..pagesFetched : ~Gap(q)
    BY <1>1, <1>4 DEF IInv, Placed
  <2>3. pos + 1 >= Len(items)
    BY <1>4 DEF NeedsPage, PageSpent
  <2>4. Len(items) = ends[pagesFetched] - Before(pagesFetched)
    BY <2>1, <2>2, PageFacts DEF TypeOK
  <2>5. Before(pagesFetched) \in Nat /\ ends[pagesFetched] \in Nat /\ pos \in Nat
    BY <2>1, CatalogueFacts, BoundAssumption DEF TypeOK
  <2>6. itemsYielded = ends[pagesFetched]
    BY <2>2, <2>3, <2>4, <2>5
  <2>7. Before(p) = ends[pagesFetched] /\ p > 1
    BY <1>0, <2>1 DEF Before
  <2>8. pagesFetched \in Nat
    BY <1>0, <2>1
  <2>9. QED BY <1>2, <1>4, <2>1, <2>2, <2>6, <2>7, <2>8
<1>5. QED BY <1>3, <1>4

(* One case per action. *)
LEMMA NextCases ==
  ASSUME Next
  PROVE  \/ List \/ ListByCompany \/ Close
         \/ NextRefused \/ NextCapped \/ NextBuffered \/ NextExhausted
         \/ \E p \in Pages : PageArrives(p) \/ PageFails(p)
BY DEF Next, NextCall

(* The iterator before its first step. *)
LEMMA InitHolds == Init => TypeOK /\ IInv
<1> SUFFICES ASSUME Init PROVE TypeOK /\ IInv
  OBVIOUS
<1>1. PICK n \in 1..MaxPages : Pages = 1..n
  BY CatalogueFacts DEF Init
<1>2. TypeOK
  <2>1. asked \in [Pages -> Nat]
    BY DEF Init
  <2>2. items \in {<<>>} \cup {PageItems(p) : p \in Pages} /\ first \in {<<>>, PageItems(1)}
    BY DEF Init
  <2>3. /\ hasNextPage \in BOOLEAN /\ err \in BOOLEAN /\ returned \in BOOLEAN
        /\ done \in BOOLEAN /\ closed \in BOOLEAN /\ started \in BOOLEAN
        /\ firstErr \in BOOLEAN /\ consumed \in BOOLEAN
    BY DEF Init
  <2>4. /\ ends \in Catalogues /\ maxItems \in 0..MaxItem /\ source = "none"
        /\ pos = 0 /\ nextToken = 0 /\ pagesFetched = 0 /\ itemsYielded = 0 /\ delivered = 0
    BY DEF Init
  <2>5. QED BY <2>1, <2>2, <2>3, <2>4, BoundAssumption DEF TypeOK
<1>3. Limit >= 0
  BY <1>2, LimitFacts, BoundAssumption
<1>4. QED BY <1>1, <1>2, <1>3 DEF Init, IInv, Cursor, Placed, Requested, Live

(* A page arrives: the buffer and the count move on together. *)
LEMMA ArrivalKeeps ==
  ASSUME TypeOK, IInv, NEW p \in Pages, PageArrives(p)
  PROVE  TypeOK' /\ IInv'
<1>0. PICK n \in 1..MaxPages :
           /\ Pages = 1..n /\ Len(ends) = n
           /\ \A q \in 1..n : ends[q] \in 0..MaxItem
           /\ \A q \in 1..n : Before(q) \in 0..MaxItem /\ Before(q) <= ends[q]
  BY CatalogueFacts DEF TypeOK
<1>1. UNCHANGED config /\ UNCHANGED eager /\ closed' = closed /\ err' = err
  BY DEF PageArrives
<1>2. /\ Limit' = Limit /\ Pages' = Pages /\ Catalogues' = Catalogues
      /\ \A q : Before(q)' = Before(q) /\ PageItems(q)' = PageItems(q)
      /\ \A q : (Gap(q)' <=> Gap(q)) /\ TokenAfter(q)' = TokenAfter(q)
  BY <1>1, FixedCatalogue
<1>3. /\ p = pagesFetched + 1 /\ pagesFetched \in Nat /\ (p > 1 <=> started)
      /\ itemsYielded = Before(p)
      /\ \A q \in 1..pagesFetched : ~Gap(q)
      /\ maxItems > 0 => itemsYielded < maxItems
  BY FetchFacts DEF PageArrives
<1>4. Live /\ (consumed <=> started)
  BY DEF PageArrives, NeedsPage, Running, Live, IInv, Cursor
<1>5. FromFirst => p = 1 /\ first = PageItems(1)
  BY <1>0, <1>3, <1>4 DEF FromFirst, PageArrives, IInv, Cursor
<1>6. items' = PageItems(p)
  BY <1>5 DEF PageArrives
<1>7. /\ pos' = 0 /\ nextToken' = TokenAfter(p) /\ (hasNextPage' <=> nextToken' # 0)
      /\ hasNextPage' \in BOOLEAN
      /\ pagesFetched' = p /\ started' = TRUE /\ consumed' = TRUE
  BY <1>3 DEF PageArrives, Fetches
<1>8. nextToken' \in 0..MaxPages
  BY <1>0, <1>7, BoundAssumption DEF TokenAfter
<1>9. \/ /\ items' = <<>> /\ done' = TRUE /\ returned' = FALSE
         /\ itemsYielded' = itemsYielded /\ delivered' = delivered
      \/ /\ items' # <<>> /\ done' = done /\ returned' = TRUE
         /\ itemsYielded' = itemsYielded + 1 /\ delivered' = Value'
  BY DEF PageArrives, Ends, Yields
<1>10. asked' = IF FromFirst THEN asked ELSE [asked EXCEPT ![p] = @ + 1]
  BY DEF PageArrives, Fetches, Asks
<1>11. Len(items') = ends[p] - Before(p) /\ (items' = <<>> <=> Gap(p))
       /\ \A i \in 1..Len(items') : items'[i] = Before(p) + i
  BY <1>6, PageFacts DEF TypeOK
<1>12. /\ Limit \in 0..MaxItem /\ Limit <= Reachable
       /\ maxItems > 0 => Limit <= maxItems
       /\ Limit = Reachable \/ (maxItems > 0 /\ Limit = maxItems)
  BY LimitFacts
<1>13. /\ itemsYielded' <= Limit /\ delivered' = itemsYielded' /\ itemsYielded' \in 0..MaxItem
       /\ done' \in BOOLEAN /\ returned' \in BOOLEAN
       /\ itemsYielded' >= itemsYielded
       /\ ~done' => /\ items' # <<>>
                    /\ itemsYielded' = Before(p) + 1
  <2>1. itemsYielded \in Nat /\ itemsYielded <= Limit /\ delivered = itemsYielded
    BY BoundAssumption DEF TypeOK, IInv, Placed
  <2>2. CASE items' = <<>>
    <3>1. done' = TRUE /\ returned' = FALSE
      BY <1>9, <2>2
    <3>2. itemsYielded' = itemsYielded /\ delivered' = delivered
      BY <1>9, <2>2
    <3>3. itemsYielded' \in 0..MaxItem /\ itemsYielded' >= itemsYielded
      BY <1>12, <2>1, <3>2, BoundAssumption
    <3>4. QED BY <2>1, <3>1, <3>2, <3>3
  <2>3. CASE items' # <<>>
    <3>1. ~Gap(p) /\ ends[p] \in Nat /\ Before(p) \in Nat /\ Before(p) < ends[p]
      BY <1>0, <1>11, <2>3, BoundAssumption DEF Gap
    <3>2. ends[p] <= Reachable
      <4>1. \A q \in 1..p : ~Gap(q)
        BY <1>0, <1>3, <3>1
      <4>2. QED BY <4>1, ReachableFacts DEF TypeOK
    <3>3. itemsYielded' = Before(p) + 1 /\ itemsYielded' = itemsYielded + 1
      BY <1>3, <1>9, <2>3
    <3>4. Reachable \in Nat
      BY ReachableFacts, BoundAssumption DEF TypeOK
    <3>5. itemsYielded' <= Limit
      BY <1>3, <1>12, <2>1, <3>1, <3>2, <3>3, <3>4, BoundAssumption DEF TypeOK
    <3>6. Value' = Before(p) + 1
      BY <1>7, <1>11, <2>3, <3>1 DEF Value
    <3>7. delivered' = Before(p) + 1 /\ done' = done /\ returned' = TRUE
      BY <1>9, <2>3, <3>6
    <3>8. done \in BOOLEAN
      BY DEF TypeOK
    <3>9. QED BY <1>12, <2>1, <2>3, <3>1, <3>3, <3>5, <3>7, <3>8, BoundAssumption
  <2>4. QED BY <2>2, <2>3
<1>14. TypeOK'
  <2>1. pagesFetched' \in 0..MaxPages /\ pos' \in Nat
    BY <1>0, <1>7, BoundAssumption
  <2>2. asked' \in [Pages' -> Nat]
    BY <1>2, <1>10 DEF TypeOK
  <2>3. items' \in {<<>>} \cup {PageItems(q)' : q \in Pages'}
    BY <1>2, <1>6
  <2>4. first' \in {<<>>, PageItems(1)'}
    BY <1>1, <1>2 DEF TypeOK, eager
  <2>5. /\ ends' \in Catalogues' /\ maxItems' \in 0..MaxItem
        /\ source' \in {"none", "lazy", "eager"} /\ firstErr' \in BOOLEAN
        /\ err' \in BOOLEAN /\ closed' \in BOOLEAN
    BY <1>1, <1>2 DEF TypeOK, config, eager
  <2>6. QED BY <1>7, <1>8, <1>13, <2>1, <2>2, <2>3, <2>4, <2>5 DEF TypeOK
<1>15. Cursor'
  BY <1>1, <1>2, <1>4, <1>7 DEF Cursor, IInv, eager, Live, PageArrives, NeedsPage, Running
<1>16. Placed'
  <2>1. ~done' => \A q \in 1..pagesFetched' : ~Gap(q)'
    BY <1>0, <1>2, <1>3, <1>7, <1>11, <1>13
  <2>2. ~done' => pos' < Len(items')
    BY <1>0, <1>7, <1>11, <1>13, BoundAssumption DEF Gap
  <2>3. Before(pagesFetched)' = Before(p) /\ PageItems(pagesFetched)' = PageItems(p)
    BY <1>1, <1>7 DEF config, Before, PageItems
  <2>4. ~done' => itemsYielded' = Before(pagesFetched)' + pos' + 1
    BY <1>0, <1>7, <1>13, <2>3, BoundAssumption
  <2>5. QED BY <1>2, <1>6, <1>13, <2>1, <2>2, <2>3, <2>4 DEF Placed, Live
<1>17. Requested'
  <2>0. asked \in [Pages -> Nat]
    BY DEF TypeOK
  <2>1. CASE FromFirst
    BY <1>1, <1>2, <1>0, <1>3, <1>4, <1>5, <1>7, <1>10, <1>13, <2>0, <2>1
       DEF Requested, IInv, Untouched, config, eager, TypeOK, Live
  <2>2. CASE ~FromFirst
    <3>1. Untouched(p) /\ asked[p] = 0
      BY <1>0, <1>3, <1>4, <2>2 DEF Untouched, FromFirst, Requested, IInv
    <3>2. asked' = [asked EXCEPT ![p] = 1]
      BY <1>10, <2>0, <2>2, <3>1
    <3>3. source' = source /\ maxItems' = maxItems
      BY <1>1 DEF config, eager
    <3>4. \A q \in Pages : asked[q] <= 1 /\ asked[q] \in Nat
      BY <2>0 DEF IInv, Requested
    <3>5. \A q \in Pages : asked'[q] = IF q = p THEN 1 ELSE asked[q]
      BY <2>0, <3>2
    <3>6. \A q \in Pages : q > pagesFetched' /\ Untouched(q)' => asked'[q] = 0
      BY <1>0, <1>3, <1>4, <1>7, <3>3, <3>5 DEF Requested, IInv, Untouched
    <3>7. \A q \in Pages : asked[q] = 1 /\ q > 1 =>
            itemsYielded' >= Before(q) /\ (maxItems > 0 => Before(q) < maxItems)
      <4>1. itemsYielded \in Nat /\ itemsYielded' \in Nat
        BY <1>13, BoundAssumption DEF TypeOK
      <4>2. \A q \in Pages : Before(q) \in Nat
        BY <1>0, BoundAssumption
      <4>3. QED BY <1>13, <4>1, <4>2 DEF Requested, IInv
    <3>8. Before(p) \in Nat /\ itemsYielded' \in Nat
      BY <1>0, <1>13, BoundAssumption
    <3>9. \A q \in Pages : asked'[q] = 1 /\ q > 1 =>
            itemsYielded' >= Before(q) /\ (maxItems > 0 => Before(q) < maxItems)
      BY <1>3, <1>13, <3>5, <3>7, <3>8
    <3>10. QED BY <1>2, <3>3, <3>4, <3>5, <3>6, <3>9 DEF Requested
  <2>3. QED BY <2>1, <2>2
<1>18. QED BY <1>14, <1>15, <1>16, <1>17 DEF IInv

(* Every other step keeps the invariant. *)
LEMMA OtherStepsKeep ==
  ASSUME TypeOK, IInv,
         \/ List \/ ListByCompany \/ Close
         \/ NextRefused \/ NextCapped \/ NextBuffered \/ NextExhausted
         \/ \E p \in Pages : PageFails(p)
  PROVE  TypeOK' /\ IInv'
<1>0. PICK n \in 1..MaxPages :
           /\ Pages = 1..n /\ Len(ends) = n
           /\ \A q \in 1..n : ends[q] \in 0..MaxItem
           /\ \A q \in 1..n : Before(q) \in 0..MaxItem /\ Before(q) <= ends[q]
  BY CatalogueFacts DEF TypeOK
<1>1. UNCHANGED config
  BY DEF List, ListByCompany, Close, NextRefused, NextCapped, NextBuffered,
         NextExhausted, PageFails
<1>2. /\ Limit' = Limit /\ Pages' = Pages /\ Catalogues' = Catalogues
      /\ \A q : Before(q)' = Before(q) /\ PageItems(q)' = PageItems(q)
      /\ \A q : (Gap(q)' <=> Gap(q)) /\ TokenAfter(q)' = TokenAfter(q)
      /\ ends' = ends /\ maxItems' = maxItems
  BY <1>1, FixedCatalogue DEF config
<1>3. itemsYielded <= Limit /\ Limit \in 0..MaxItem /\ itemsYielded \in Nat
  BY LimitFacts, BoundAssumption DEF TypeOK, IInv, Placed
<1>a. PageItems(1)' = PageItems(1) /\ Before(pagesFetched)' = Before(pagesFetched')
      /\ PageItems(pagesFetched)' = PageItems(pagesFetched')
      /\ TokenAfter(pagesFetched)' = TokenAfter(pagesFetched')
  BY <1>2 DEF PageItems, Before, TokenAfter, Pages
<1>4. CASE List
  <2>1. TypeOK'
    BY <1>2, <1>4 DEF List, TypeOK
  <2>2. Cursor' /\ Placed' /\ Requested'
    BY <1>2, <1>a, <1>4 DEF List, IInv, Cursor, Placed, Requested, Live, Untouched
  <2>3. QED BY <2>1, <2>2 DEF IInv
<1>5. CASE ListByCompany
  <2>0. 1 \in Pages /\ asked \in [Pages -> Nat] /\ ~started /\ Live /\ pagesFetched = 0 /\ asked[1] = 0
    <3>1. 1 \in Pages /\ asked \in [Pages -> Nat]
      BY <1>0 DEF TypeOK
    <3>2. ~started /\ ~done /\ pagesFetched = 0
      BY <1>5 DEF ListByCompany, IInv, Cursor
    <3>3. Live
      BY <3>2 DEF IInv, Cursor, Live
    <3>4. Untouched(1)
      BY <1>5 DEF Untouched, ListByCompany
    <3>5. QED BY <3>1, <3>2, <3>3, <3>4 DEF IInv, Requested
  <2>1. asked' = [asked EXCEPT ![1] = 1]
    BY <1>5, <2>0 DEF ListByCompany, Asks
  <2>2. TypeOK'
    <3>1. first' \in {<<>>, PageItems(1)'} /\ firstErr' \in BOOLEAN
      BY <1>2, <1>5 DEF ListByCompany, TypeOK
    <3>2. asked' \in [Pages' -> Nat] /\ source' = "eager"
      BY <1>2, <1>5, <2>0, <2>1 DEF ListByCompany
    <3>3. QED BY <1>2, <1>5, <3>1, <3>2 DEF ListByCompany, TypeOK
  <2>3. Cursor'
    BY <1>2, <1>a, <1>5 DEF ListByCompany, IInv, Cursor, Live
  <2>4. Placed'
    BY <1>2, <1>a, <1>5 DEF ListByCompany, IInv, Placed, Live
  <2>5. Requested'
    <3>1. \A q \in Pages : asked'[q] = IF q = 1 THEN 1 ELSE asked[q]
      BY <2>0, <2>1
    <3>2. itemsYielded' = itemsYielded /\ pagesFetched' = pagesFetched /\ source' = "eager"
      BY <1>5 DEF ListByCompany
    <3>3. QED BY <1>0, <1>2, <2>0, <3>1, <3>2 DEF IInv, Requested, Untouched
  <2>6. QED BY <2>2, <2>3, <2>4, <2>5 DEF IInv
<1>6. CASE Close
  <2>1. TypeOK'
    BY <1>2, <1>6 DEF Close, TypeOK, eager
  <2>2. Cursor'
    BY <1>2, <1>a, <1>6 DEF Close, IInv, Cursor, Live, eager
  <2>3. Placed' /\ Requested'
    BY <1>2, <1>a, <1>6 DEF Close, IInv, Placed, Requested, Live, eager
  <2>4. QED BY <2>1, <2>2, <2>3 DEF IInv
<1>7. CASE NextRefused
  <2>1. TypeOK'
    BY <1>2, <1>7 DEF NextRefused, TypeOK, eager
  <2>2. Cursor' /\ Placed'
    BY <1>2, <1>a, <1>7 DEF NextRefused, IInv, Cursor, Placed, Live, eager
  <2>3. Requested'
    BY <1>2, <1>7 DEF NextRefused, IInv, Requested, Live, Untouched, eager
  <2>4. QED BY <2>1, <2>2, <2>3 DEF IInv
<1>8. CASE NextCapped
  <2>1. TypeOK'
    BY <1>2, <1>8 DEF NextCapped, Ends, TypeOK, eager
  <2>2. Cursor' /\ Placed' /\ Requested'
    BY <1>2, <1>a, <1>8 DEF NextCapped, Ends, Running, IInv, Cursor, Placed, Requested, Live, eager
  <2>3. QED BY <2>1, <2>2 DEF IInv
<1>9. CASE NextExhausted
  <2>1. pos' \in Nat
    BY <1>9 DEF NextExhausted, Advanced, TypeOK
  <2>2. TypeOK'
    BY <1>2, <1>9, <2>1 DEF NextExhausted, Ends, TypeOK, eager
  <2>3. Cursor' /\ Placed' /\ Requested'
    BY <1>2, <1>a, <1>9 DEF NextExhausted, Ends, Running, IInv, Cursor, Placed, Requested, Live, eager
  <2>4. QED BY <2>2, <2>3 DEF IInv
<1>10. CASE NextBuffered
  <2>1. /\ Live /\ started /\ pos + 1 < Len(items) /\ pos \in Nat
        /\ items = PageItems(pagesFetched) /\ pagesFetched \in Pages
        /\ itemsYielded = Before(pagesFetched) + pos + 1
        /\ \A q \in 1..pagesFetched : ~Gap(q)
        /\ delivered = itemsYielded
    <3>1. Live /\ started /\ ~(pos + 1 >= Len(items)) /\ pos \in Nat
      BY <1>10 DEF NextBuffered, Running, PageSpent, Live, TypeOK
    <3>2. pagesFetched \in Pages /\ items = PageItems(pagesFetched)
      BY <3>1 DEF IInv, Cursor, Placed
    <3>3. Len(items) \in Int
      BY <1>0, <3>2, PageFacts, BoundAssumption DEF TypeOK
    <3>4. QED BY <3>1, <3>2, <3>3 DEF IInv, Placed
  <2>2. /\ Len(items) = ends[pagesFetched] - Before(pagesFetched)
        /\ \A i \in 1..Len(items) : items[i] = Before(pagesFetched) + i
    BY <2>1, PageFacts DEF TypeOK
  <2>3. ends[pagesFetched] <= Reachable /\ Reachable \in Nat
    BY <2>1, ReachableFacts, BoundAssumption DEF TypeOK
  <2>4. Before(pagesFetched) \in Nat /\ ends[pagesFetched] \in Nat
    BY <1>0, <2>1, BoundAssumption
  <2>5. maxItems > 0 => itemsYielded < maxItems
    BY <1>3, <1>10, BoundAssumption DEF NextBuffered, Capped, TypeOK
  <2>6. itemsYielded' = itemsYielded + 1 /\ pos' = pos + 1 /\ items' = items
    BY <1>10 DEF NextBuffered, Yields
  <2>7. itemsYielded' <= Limit
    BY <1>3, <2>1, <2>2, <2>3, <2>4, <2>5, <2>6, LimitFacts, BoundAssumption DEF TypeOK
  <2>8. Value' = itemsYielded'
    <3>1. pos + 2 \in 1..Len(items) /\ Len(items) \in Nat
      BY <2>1, <2>2, <2>4
    <3>2. items # <<>>
      BY <3>1
    <3>3. Value' = items[pos + 2]
      BY <2>1, <2>6, <3>1, <3>2 DEF Value
    <3>4. items[pos + 2] = Before(pagesFetched) + (pos + 2)
      BY <2>2, <3>1
    <3>5. QED BY <2>1, <2>4, <2>6, <3>3, <3>4
  <2>9. delivered' = itemsYielded' /\ returned' = TRUE
    BY <1>10, <2>8 DEF NextBuffered, Yields
  <2>10. itemsYielded' \in 0..MaxItem
    BY <1>3, <2>6, <2>7, BoundAssumption
  <2>11. TypeOK'
    BY <1>2, <1>10, <2>1, <2>6, <2>9, <2>10 DEF NextBuffered, TypeOK, eager
  <2>12. Cursor'
    BY <1>2, <1>a, <1>10, <2>1 DEF NextBuffered, IInv, Cursor, Live, eager
  <2>13. Placed'
    BY <1>2, <1>a, <1>10, <2>1, <2>2, <2>6, <2>7, <2>9, <2>4 DEF NextBuffered, Placed, Live
  <2>14. Requested'
    <3>1. itemsYielded' >= itemsYielded /\ itemsYielded \in Nat /\ itemsYielded' \in Nat
      BY <1>3, <2>6
    <3>2. /\ asked' = asked /\ source' = source /\ pagesFetched' = pagesFetched
          /\ done' = done /\ closed' = closed
      BY <1>10 DEF NextBuffered, eager
    <3>3. \A q \in Pages : Before(q) \in Nat
      BY <1>0, BoundAssumption
    <3>4. QED BY <1>2, <3>1, <3>2, <3>3 DEF IInv, Requested, Live, Untouched
  <2>15. QED BY <2>11, <2>12, <2>13, <2>14 DEF IInv
<1>11. CASE \E p \in Pages : PageFails(p)
  <2>1. PICK p \in Pages : PageFails(p)
    BY <1>11
  <2>2. /\ p = pagesFetched + 1 /\ pagesFetched \in Nat /\ (p > 1 <=> started)
        /\ itemsYielded = Before(p)
        /\ maxItems > 0 => itemsYielded < maxItems
    BY <2>1, FetchFacts DEF PageFails
  <2>3. Live /\ (consumed <=> started)
    BY <2>1 DEF PageFails, NeedsPage, Running, Live, IInv, Cursor
  <2>4. asked' = IF FromFirst THEN asked ELSE [asked EXCEPT ![p] = @ + 1]
    BY <2>1 DEF PageFails, Fetches, Asks
  <2>5. asked \in [Pages -> Nat]
    BY DEF TypeOK
  <2>6. ~FromFirst => asked[p] = 0
    <3>1. ~FromFirst => Untouched(p)
      BY <2>2, <2>3, <1>0 DEF Untouched, FromFirst
    <3>2. QED BY <1>0, <2>2, <2>3, <3>1 DEF IInv, Requested
  <2>7. pos' \in Nat /\ asked' \in [Pages -> Nat] /\ consumed' = TRUE
    BY <2>1, <2>4, <2>5 DEF PageFails, Advanced, TypeOK, Fetches
  <2>8. TypeOK'
    BY <1>2, <2>1, <2>7 DEF PageFails, Ends, TypeOK, eager
  <2>9. Cursor' /\ Placed'
    <3>1. done' = TRUE /\ itemsYielded' = itemsYielded /\ delivered' = delivered
      BY <2>1 DEF PageFails, Ends
    <3>2. Placed'
      BY <1>2, <3>1 DEF IInv, Placed, Live
    <3>3. /\ started => p > 1 /\ pagesFetched' = pagesFetched /\ nextToken' = nextToken
      BY <2>1, <2>2 DEF PageFails
    <3>4. /\ started' = started /\ hasNextPage' = hasNextPage /\ items' = items
          /\ closed' = closed /\ nextToken' = nextToken /\ pagesFetched' = pagesFetched
          /\ source' = source /\ first' = first /\ firstErr' = firstErr
          /\ source # "none"
      BY <2>1 DEF PageFails, eager, NeedsPage, Running
    <3>5. ~started => pos' = 0
      BY <2>1 DEF PageFails, Advanced, IInv, Cursor
    <3>6. Cursor'
      BY <1>2, <1>a, <3>1, <3>4, <3>5 DEF IInv, Cursor, Live
    <3>7. QED BY <3>2, <3>6
  <2>10. Requested'
    <3>1. done' = TRUE /\ itemsYielded' = itemsYielded
      BY <2>1 DEF PageFails, Ends
    <3>2. \A q \in Pages : asked'[q] = IF q = p /\ ~FromFirst THEN 1 ELSE asked[q]
      BY <2>4, <2>5, <2>6
    <3>3. Before(p) \in Nat
      BY <1>0, BoundAssumption
    <3>4. QED BY <1>2, <2>2, <3>1, <3>2, <3>3 DEF IInv, Requested, Live
  <2>11. QED BY <2>8, <2>9, <2>10 DEF IInv
<1>12. QED BY <1>4, <1>5, <1>6, <1>7, <1>8, <1>9, <1>10, <1>11

-----------------------------------------------------------------------------
(* The invariant that the theorems rest on. *)
THEOREM Invariance == Spec => [](TypeOK /\ IInv)
<1>1. TypeOK /\ IInv /\ [Next]_vars => TypeOK' /\ IInv'
  <2> SUFFICES ASSUME TypeOK, IInv, [Next]_vars PROVE TypeOK' /\ IInv'
    OBVIOUS
  <2>1. CASE Next
    BY <2>1, NextCases, ArrivalKeeps, OtherStepsKeep
  <2>2. CASE UNCHANGED vars
    <3>1. /\ UNCHANGED config /\ ends' = ends /\ maxItems' = maxItems
      BY <2>2 DEF vars, config
    <3>2. /\ Limit' = Limit /\ Pages' = Pages /\ Catalogues' = Catalogues
          /\ \A q : Before(q)' = Before(q) /\ PageItems(q)' = PageItems(q)
          /\ \A q : (Gap(q)' <=> Gap(q)) /\ TokenAfter(q)' = TokenAfter(q)
      BY <3>1, FixedCatalogue
    <3>3. PageItems(1)' = PageItems(1) /\ Before(pagesFetched)' = Before(pagesFetched')
          /\ PageItems(pagesFetched)' = PageItems(pagesFetched')
          /\ TokenAfter(pagesFetched)' = TokenAfter(pagesFetched')
      BY <3>1 DEF PageItems, Before, TokenAfter, Pages
    <3>4. TypeOK'
      BY <2>2, <3>1, <3>2 DEF TypeOK, vars, eager
    <3>5. Cursor' /\ Placed' /\ Requested'
      BY <2>2, <3>1, <3>2, <3>3 DEF IInv, Cursor, Placed, Requested, Live, Untouched, vars, eager
    <3>6. QED BY <3>4, <3>5 DEF IInv
  <2>3. QED BY <2>1, <2>2
<1>2. QED BY InitHolds, <1>1, PTL DEF Spec

(* Type correctness: the buffer is always a page of the catalogue, and no  *)
(* more items are delivered than the catalogue has.                        *)
THEOREM TypeCorrect == Spec => []TypeOK
BY Invariance, PTL

(* The nth item that Next announces is the backend's nth. *)
THEOREM InOrder == Spec => []DeliversInOrder
<1>1. IInv => DeliversInOrder
  BY DEF IInv, Placed, DeliversInOrder
<1>2. QED BY Invariance, <1>1, PTL

(* No page is requested twice, or before the items ahead of it are out. *)
THEOREM PagesOnDemand == Spec => []OnDemand
<1>1. IInv => OnDemand
  BY DEF IInv, Requested, OnDemand
<1>2. QED BY Invariance, <1>1, PTL

(* HasNextPage says whether the backend has a page left. *)
THEOREM PageInfoIsTrue == Spec => []PageInfoTruthful
<1>1. TypeOK /\ IInv => PageInfoTruthful
  <2> SUFFICES ASSUME TypeOK, IInv, started PROVE PageInfoTruthful
    BY DEF PageInfoTruthful
  <2>1. PICK n \in 1..MaxPages : Pages = 1..n /\ Len(ends) = n
    BY CatalogueFacts DEF TypeOK
  <2>2. pagesFetched \in 1..n /\ nextToken = TokenAfter(pagesFetched) /\ (hasNextPage <=> nextToken # 0)
    BY <2>1 DEF IInv, Cursor
  <2>3. nextToken # 0 <=> pagesFetched < n
    BY <2>1, <2>2, BoundAssumption DEF TokenAfter
  <2>4. QED BY <2>1, <2>2, <2>3 DEF PageInfoTruthful
<1>2. QED BY Invariance, <1>1, PTL

-----------------------------------------------------------------------------
(* The refinement, one step of the iterator at a time: an iterator that    *)
(* stops of itself has delivered what there was.                           *)

(* What the abstract stream sees of a step. *)
LEMMA OverFacts ==
  /\ closed => Over = "closed"
  /\ Live /\ ~err => Over = "no"
  /\ ~closed /\ err => Over = "failed"
  /\ ~closed /\ ~err /\ done => Over = "complete"
BY DEF Over, Live

(* A call of Next, or a part of one, is a step of the stream or hidden     *)
(* from the reader of the iterator.                                        *)
LEMMA StreamStep == TypeOK /\ IInv /\ Next => Promise!StreamNext \/ UNCHANGED Promise!streamVars
<1> SUFFICES ASSUME TypeOK, IInv, Next PROVE Promise!StreamNext \/ UNCHANGED Promise!streamVars
  OBVIOUS
<1> USE DEF Promise!StreamNext, Promise!streamVars
<1>1. UNCHANGED config
  BY DEF Next, NextCall, List, ListByCompany, Close, NextRefused, NextCapped,
         NextBuffered, NextExhausted, PageArrives, PageFails
<1>2. /\ Limit' = Limit /\ itemsYielded \in Nat /\ Limit \in Nat /\ itemsYielded <= Limit
      /\ maxItems > 0 => Limit <= maxItems
      /\ Limit = Reachable \/ (maxItems > 0 /\ Limit = maxItems)
      /\ maxItems \in Nat /\ Limit <= Reachable /\ Reachable \in Nat
  BY <1>1, FixedCatalogue, LimitFacts, ReachableFacts, BoundAssumption DEF TypeOK, IInv, Placed
<1>3. PICK n \in 1..MaxPages :
           /\ Pages = 1..n /\ Len(ends) = n
           /\ \A q \in 1..n : ends[q] \in 0..MaxItem
  BY CatalogueFacts DEF TypeOK
<1>4. TypeOK' /\ IInv'
  BY NextCases, ArrivalKeeps, OtherStepsKeep
<1>5. ASSUME itemsYielded' = itemsYielded, closed' = closed, err' = err, done' = done
      PROVE  UNCHANGED Promise!streamVars
  BY <1>2, <1>5 DEF Over
<1>6. ASSUME Live, ~err, itemsYielded = Limit, done', closed' = closed, err' = err,
             itemsYielded' = itemsYielded
      PROVE  Promise!Finish
  <2>1. Over = "no" /\ Over' = "complete"
    BY <1>6 DEF Over, Live
  <2>2. QED BY <1>2, <1>6, <2>1 DEF Promise!Finish
<1>7. ASSUME Live, ~err, itemsYielded' = itemsYielded + 1, Live', err' = err
      PROVE  Promise!Give
  <2>1. Over = "no" /\ Over' = "no"
    BY <1>7 DEF Over, Live
  <2>2. itemsYielded' <= Limit
    BY <1>2, <1>4 DEF IInv, Placed
  <2>3. QED BY <1>2, <1>7, <2>1, <2>2 DEF Promise!Give
<1>8. Live => ~err
  BY DEF IInv, Cursor, Live
<1>9. CASE List \/ ListByCompany \/ NextRefused
  BY <1>5, <1>9 DEF List, ListByCompany, NextRefused
<1>10. CASE Close
  BY <1>2, <1>10 DEF Close, Over, Promise!Shut
<1>11. CASE NextCapped
  <2>1. Live /\ maxItems > 0 /\ itemsYielded >= maxItems
    BY <1>11 DEF NextCapped, Running, Capped, Live
  <2>2. itemsYielded = Limit
    BY <1>2, <2>1
  <2>3. QED BY <1>6, <1>8, <1>11, <2>1, <2>2 DEF NextCapped, Ends
<1>12. CASE NextBuffered
  BY <1>7, <1>8, <1>12 DEF NextBuffered, Running, Live, Yields
<1>13. CASE NextExhausted
  <2>1. Live /\ started /\ pos + 1 >= Len(items) /\ nextToken = 0
    BY <1>13 DEF NextExhausted, Running, Live, PageSpent, IInv, Cursor
  <2>2. /\ pagesFetched \in 1..n /\ pagesFetched = n
        /\ items = PageItems(pagesFetched) /\ pos < Len(items)
        /\ itemsYielded = Before(pagesFetched) + pos + 1
        /\ \A q \in 1..pagesFetched : ~Gap(q)
    <3>1. pagesFetched \in 1..n /\ TokenAfter(pagesFetched) = 0
      BY <1>3, <2>1 DEF IInv, Cursor
    <3>2. pagesFetched = n
      BY <1>3, <3>1 DEF TokenAfter
    <3>3. QED BY <2>1, <3>1, <3>2 DEF IInv, Placed
  <2>3. Len(items) = ends[n] - Before(n) /\ Before(n) \in Nat /\ ends[n] \in Nat /\ pos \in Nat
    BY <1>3, <2>2, PageFacts, CatalogueFacts, BoundAssumption DEF TypeOK
  <2>4. itemsYielded = ends[n]
    BY <2>1, <2>2, <2>3
  <2>5. Reachable = ends[n]
    BY <1>3, <2>2, ReachableFacts DEF TypeOK
  <2>6. itemsYielded = Limit
    BY <1>2, <2>4, <2>5
  <2>7. QED BY <1>6, <1>8, <1>13, <2>1, <2>6 DEF NextExhausted, Ends
<1>14. ASSUME NEW p \in Pages, PageFails(p) PROVE Promise!Break
  <2>1. Live
    BY <1>14 DEF PageFails, NeedsPage, Running, Live
  <2>2. Over = "no" /\ Over' = "failed" /\ itemsYielded' = itemsYielded
    BY <1>8, <1>14, <2>1 DEF PageFails, Ends, Over, Live
  <2>3. QED BY <1>2, <2>2 DEF Promise!Break
<1>15. ASSUME NEW p \in Pages, PageArrives(p)
       PROVE  Promise!StreamNext
  <2>1. Live /\ err' = err /\ closed' = closed
    BY <1>15 DEF PageArrives, NeedsPage, Running, Live
  <2>2. CASE items' # <<>>
    BY <1>7, <1>8, <1>15, <2>1, <2>2 DEF PageArrives, Yields, Live
  <2>3. CASE items' = <<>>
    <3>1. done' = TRUE /\ itemsYielded' = itemsYielded
      BY <1>15, <2>3 DEF PageArrives, Ends
    <3>2. p = pagesFetched + 1 /\ itemsYielded = Before(p)
          /\ \A q \in 1..pagesFetched : ~Gap(q)
      BY <1>15, FetchFacts DEF PageArrives
    <3>3. items' = PageItems(p)
      <4>1. Live /\ (consumed <=> started)
        BY <2>1 DEF IInv, Cursor
      <4>2. FromFirst => p = 1 /\ first = PageItems(1)
        BY <1>15, <4>1 DEF FromFirst, PageArrives, IInv, Cursor, Token
      <4>3. QED BY <1>15, <4>2 DEF PageArrives
    <3>4. Gap(p)
      BY <2>3, <3>3, PageFacts DEF TypeOK
    <3>5. Reachable = ends[p]
      BY <3>2, <3>4, ReachableFacts DEF TypeOK
    <3>6. itemsYielded = Reachable
      BY <3>2, <3>4, <3>5 DEF Gap
    <3>7. itemsYielded = Limit
      BY <1>2, <3>6
    <3>8. QED BY <1>6, <1>8, <2>1, <3>1, <3>7
  <2>4. QED BY <2>2, <2>3
<1>16. QED
  BY <1>9, <1>10, <1>11, <1>12, <1>13, <1>14, <1>15, NextCases

(* An Iterator keeps the promise of Stream.tla for every catalogue: when   *)
(* it ends by itself and without an error nothing deliverable is missing,  *)
(* and nothing is delivered after the end.                                 *)
THEOREM Implements == Spec => KeepsStream
<1>1. Init => Promise!StreamInit
  <2> SUFFICES ASSUME Init PROVE Promise!StreamInit
    OBVIOUS
  <2>1. TypeOK
    BY InitHolds
  <2>2. Limit \in Nat
    BY <2>1, LimitFacts, BoundAssumption
  <2>3. QED BY <2>2 DEF Init, Over, Promise!StreamInit
<1>2. TypeOK /\ IInv /\ [Next]_vars => [Promise!StreamNext]_(Promise!streamVars)
  <2> SUFFICES ASSUME TypeOK, IInv, [Next]_vars
               PROVE  [Promise!StreamNext]_(Promise!streamVars)
    OBVIOUS
  <2>1. CASE Next
    BY <2>1, StreamStep
  <2>2. CASE UNCHANGED vars
    <3>1. UNCHANGED config
      BY <2>2 DEF vars
    <3>2. Limit' = Limit
      BY <3>1, FixedCatalogue
    <3>3. QED BY <2>2, <3>2 DEF vars, Over, Promise!streamVars
  <2>3. QED BY <2>1, <2>2
<1>3. QED BY <1>1, <1>2, Invariance, PTL DEF Spec, KeepsStream, Promise!StreamSpec
=============================================================================
