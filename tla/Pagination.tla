----------------------------- MODULE Pagination -----------------------------
(***************************************************************************)
(* Iterator[T] (pagination.go) over the page fetchers that the List        *)
(* methods of services.go build.  One goroutine drains an iterator, so a   *)
(* call of Next is a step; the page request inside it may fail.            *)
(*                                                                         *)
(* Items are numbered in the backend's order and page p holds the items    *)
(* ends[p-1]+1 .. ends[p].  The page token of page p > 1 is p, that of the *)
(* first page is 1 (the empty string), and 0 stands for "no more pages".   *)
(***************************************************************************)
EXTENDS Integers, Sequences

CONSTANTS MaxPages, MaxItem      \* bounds of the catalogues considered

ASSUME BoundAssumption == MaxPages \in Nat /\ MaxItem \in Nat

VARIABLES
  ends,          \* the backend's catalogue
  maxItems,      \* WithMaxItems, 0 for no cap
  source,        \* which kind of List call was made: "none", "lazy" or "eager"
  items,         \* the page buffer
  pos,
  nextToken,
  hasNextPage,
  pagesFetched,
  itemsYielded,
  err,           \* TRUE when Err() is not nil
  done,
  closed,
  started,
  first,         \* the first page that ListByCompany's closure keeps
  firstErr,      \* its error
  consumed,      \* firstPageConsumed
  returned,      \* what Next returned last
  delivered,     \* history: the last item that Next announced
  asked          \* history: requests sent for each page

config == <<ends, maxItems>>
eager == <<source, first, firstErr>>
vars == <<config, eager, items, pos, nextToken, hasNextPage, pagesFetched,
          itemsYielded, err, done, closed, started, consumed, returned,
          delivered, asked>>

(* Catalogues of one to MaxPages pages; a page may be empty. *)
Catalogues ==
  UNION {{e \in [1..n -> 0..MaxItem] : \A p, q \in 1..n : p <= q => e[p] <= e[q]}
           : n \in 1..MaxPages}

Pages == DOMAIN ends
Before(p) == IF p = 1 THEN 0 ELSE ends[p - 1]
PageItems(p) == [i \in 1..(ends[p] - Before(p)) |-> Before(p) + i]

(* Mutant: the next cursor is used whatever has_more says. *)
TokenAlways(p) == p + 1

(* has_more /\ next_cursor: the token is dropped unless both are there. *)
TokenAfter(p) == IF p + 1 \in Pages THEN p + 1 ELSE 0

Init ==
  /\ ends \in Catalogues
  /\ maxItems \in 0..MaxItem
  /\ source = "none"
  /\ items = <<>> /\ pos = 0
  /\ nextToken = 0 /\ hasNextPage = FALSE
  /\ pagesFetched = 0 /\ itemsYielded = 0
  /\ err = FALSE /\ done = FALSE /\ closed = FALSE /\ started = FALSE
  /\ first = <<>> /\ firstErr = FALSE /\ consumed = FALSE
  /\ returned = FALSE
  /\ delivered = 0
  /\ asked = [p \in Pages |-> 0]

Asks(p) == asked' = [asked EXCEPT ![p] = @ + 1]

(* List, ListAuditLogs, ListForReseller, ListByLocation: nothing is sent.  *)
List ==
  /\ source = "none"
  /\ source' = "lazy"
  /\ UNCHANGED <<config, first, firstErr, items, pos, nextToken, hasNextPage,
                 pagesFetched, itemsYielded, err, done, closed, started,
                 consumed, returned, delivered, asked>>

(* ListByCompany requests the first page at once, under the context of the *)
(* List call, and keeps the page or the error for the first Next.          *)
ListByCompany ==
  /\ source = "none"
  /\ source' = "eager"
  /\ Asks(1)
  /\ \/ first' = PageItems(1) /\ UNCHANGED firstErr
     \/ firstErr' = TRUE /\ UNCHANGED first
  /\ UNCHANGED <<config, items, pos, nextToken, hasNextPage, pagesFetched,
                 itemsYielded, err, done, closed, started, consumed, returned,
                 delivered>>

Running == source # "none" /\ ~done /\ ~closed
CappedLate == maxItems > 0 /\ itemsYielded > maxItems  \* mutant: off by one
Capped == maxItems > 0 /\ itemsYielded >= maxItems
Advanced == IF started THEN pos + 1 ELSE pos
PageSpent == ~started \/ pos + 1 >= Len(items)

Value == IF items = <<>> \/ pos >= Len(items) THEN 0 ELSE items[pos + 1]

Ends ==
  /\ done' = TRUE
  /\ returned' = FALSE
  /\ UNCHANGED <<itemsYielded, delivered>>
Yields ==
  /\ itemsYielded' = itemsYielded + 1
  /\ returned' = TRUE
  /\ delivered' = Value'

NextRefused ==
  /\ source # "none"
  /\ done \/ closed
  /\ returned' = FALSE
  /\ UNCHANGED <<config, eager, items, pos, nextToken, hasNextPage, pagesFetched,
                 itemsYielded, err, done, closed, started, consumed, delivered, asked>>

(* Mutant: reaching the cap is not terminal. *)
CappedOpen ==
  /\ Running
  /\ Capped
  /\ returned' = FALSE
  /\ UNCHANGED <<config, eager, items, pos, nextToken, hasNextPage, pagesFetched,
                 itemsYielded, err, done, closed, started, consumed, delivered, asked>>

NextCapped ==
  /\ Running
  /\ Capped
  /\ Ends
  /\ UNCHANGED <<config, eager, items, pos, nextToken, hasNextPage, pagesFetched,
                 err, closed, started, consumed, asked>>

NextBuffered ==
  /\ Running
  /\ ~Capped
  /\ ~PageSpent
  /\ pos' = pos + 1
  /\ items' = items
  /\ Yields
  /\ UNCHANGED <<config, eager, nextToken, hasNextPage, pagesFetched, err, done,
                 closed, started, consumed, asked>>

NextExhausted ==
  /\ Running
  /\ ~Capped
  /\ PageSpent
  /\ started /\ ~hasNextPage
  /\ pos' = Advanced
  /\ Ends
  /\ UNCHANGED <<config, eager, items, nextToken, hasNextPage, pagesFetched, err,
                 closed, started, consumed, asked>>

NeedsPage ==
  /\ Running
  /\ ~Capped
  /\ PageSpent
  /\ started => hasNextPage

(* The token that Next sends: none for the first page. *)
Token == IF started THEN nextToken ELSE 1

(* Mutant: the page that ListByCompany kept is requested again. *)
FetchesAgain(p) == consumed' = TRUE /\ Asks(p)

(* The fetcher answers from the page ListByCompany kept, the first time,   *)
(* and sends a request otherwise.                                          *)
FromFirst == source = "eager" /\ ~consumed
Fetches(p) == /\ consumed' = TRUE
              /\ IF FromFirst THEN UNCHANGED asked ELSE Asks(p)

(* Mutant: the position is not reset when a page arrives. *)
ArrivesUnreset(p) ==
  /\ NeedsPage
  /\ p = Token
  /\ FromFirst => ~firstErr
  /\ Fetches(p)
  /\ items' = IF FromFirst THEN first ELSE PageItems(p)
  /\ pos' = Advanced
  /\ nextToken' = TokenAfter(p)
  /\ hasNextPage' = (TokenAfter(p) # 0)
  /\ pagesFetched' = pagesFetched + 1
  /\ started' = TRUE
  /\ IF items' = <<>> THEN Ends ELSE Yields /\ UNCHANGED done
  /\ UNCHANGED <<config, eager, err, closed>>

PageArrives(p) ==
  /\ NeedsPage
  /\ p = Token
  /\ FromFirst => ~firstErr
  /\ Fetches(p)
  /\ items' = IF FromFirst THEN first ELSE PageItems(p)
  /\ pos' = 0
  /\ nextToken' = TokenAfter(p)
  /\ hasNextPage' = (TokenAfter(p) # 0)
  /\ pagesFetched' = pagesFetched + 1
  /\ started' = TRUE
  /\ IF items' = <<>> THEN Ends ELSE Yields /\ UNCHANGED done
  /\ UNCHANGED <<config, eager, err, closed>>

(* A failed request: the position has already moved on. *)
PageFails(p) ==
  /\ NeedsPage
  /\ p = Token
  /\ FromFirst => firstErr
  /\ Fetches(p)
  /\ pos' = Advanced
  /\ err' = TRUE
  /\ Ends
  /\ UNCHANGED <<config, eager, items, nextToken, hasNextPage, pagesFetched,
                 closed, started>>

Close ==
  /\ source # "none"
  /\ closed' = TRUE
  /\ done' = TRUE
  /\ items' = <<>>
  /\ UNCHANGED <<config, eager, pos, nextToken, hasNextPage, pagesFetched,
                 itemsYielded, err, started, consumed, returned, delivered, asked>>

NextCall == \/ NextRefused
            \/ NextCapped
            \/ NextBuffered
            \/ NextExhausted
            \/ \E p \in Pages : PageArrives(p) \/ PageFails(p)

Next == List \/ ListByCompany \/ NextCall \/ Close

Spec == Init /\ [][Next]_vars

(* The caller is a loop "for it.Next(ctx)": it calls Next again and again. *)
LoopSpec == Spec /\ WF_vars(List \/ ListByCompany) /\ WF_vars(NextCall)

-----------------------------------------------------------------------------
TypeOK ==
  /\ ends \in Catalogues
  /\ maxItems \in 0..MaxItem
  /\ source \in {"none", "lazy", "eager"}
  /\ items \in {<<>>} \cup {PageItems(p) : p \in Pages}
  /\ first \in {<<>>, PageItems(1)}
  /\ pos \in Nat
  /\ nextToken \in 0..MaxPages
  /\ pagesFetched \in 0..MaxPages
  /\ itemsYielded \in 0..MaxItem
  /\ delivered \in 0..MaxItem
  /\ hasNextPage \in BOOLEAN /\ err \in BOOLEAN /\ returned \in BOOLEAN
  /\ done \in BOOLEAN /\ closed \in BOOLEAN /\ started \in BOOLEAN
  /\ firstErr \in BOOLEAN /\ consumed \in BOOLEAN
  /\ asked \in [Pages -> Nat]

(* Whatever the page sizes, the nth item that Next announces is the        *)
(* backend's nth: none is skipped, repeated or reordered at a page         *)
(* boundary (Next, Value).                                                 *)
DeliversInOrder == delivered = itemsYielded

(* A page is requested once, by ListByCompany or by Next, and not before   *)
(* every item of the pages ahead of it was delivered; only ListByCompany   *)
(* asks, for the first page, before Next does.                             *)
OnDemand ==
  \A p \in Pages :
    /\ asked[p] <= 1
    /\ asked[p] = 1 /\ p > 1 =>
         itemsYielded >= Before(p) /\ (maxItems > 0 => Before(p) < maxItems)

(* PageInfo does not lie about what is left: until the end, HasNextPage    *)
(* says whether the backend has a page that was not fetched.               *)
PageInfoTruthful ==
  started => (hasNextPage <=> pagesFetched < Len(ends)) /\ (hasNextPage <=> nextToken # 0)

(* Liveness: the caller's loop ends, with an error or without (Next). *)
LoopEnds == <>done

(* What can be delivered: all that precedes the first empty page, at which *)
(* Next stops though the backend may have sent a token, up to the cap.     *)
Gap(p) == ends[p] = Before(p)
Reachable ==
  IF \E p \in Pages : Gap(p)
    THEN ends[CHOOSE p \in Pages : Gap(p) /\ \A q \in Pages : Gap(q) => p <= q]
    ELSE ends[Len(ends)]
Limit == IF maxItems > 0 /\ maxItems < Reachable THEN maxItems ELSE Reachable

Over == IF closed THEN "closed"
        ELSE IF err THEN "failed"
        ELSE IF done THEN "complete" ELSE "no"

Promise == INSTANCE Stream WITH
  limit <- Limit,
  given <- itemsYielded,
  over <- Over

(* The refinement: an iterator that ends without an error and unclosed has *)
(* delivered everything up to its limit, and delivers nothing after.       *)
KeepsStream == Promise!StreamSpec
=============================================================================
