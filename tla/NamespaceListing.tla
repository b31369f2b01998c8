-------------------------- MODULE NamespaceListing --------------------------
(***************************************************************************)
(* list_namespaces (http_client.rs): GET /namespaces page by page, while   *)
(* the set of namespaces changes between the pages.  The gateway is        *)
(* external: it answers the rows from `offset` on, ordered by name, with   *)
(* or without a total, and may ignore the offset it is given.              *)
(***************************************************************************)
EXTENDS Integers, Sequences, FiniteSets, Functions

CONSTANTS
    Names,          \* namespaces: numbers, for their order
    Limit,          \* LIST_PAGE_LIMIT
    MaxRows         \* MAX_PAGINATED_ROWS

ListingAssumption ==
    /\ Names \subseteq Nat /\ IsFiniteSet(Names)
    /\ Limit \in Nat \ {0} /\ MaxRows \in Nat \ {0}

VARIABLES
    live,           \* the gateway's namespaces
    totals,         \* whether it reports a total
    honours,        \* whether it honours the offset
    pc, offset,
    rows,           \* the pages read, one after the other
    listing,        \* the result
    always, ever,   \* ghosts: names live throughout, and at some moment,
    removed         \* and whether one went while the listing ran

vars == <<live, totals, honours, pc, offset, rows, listing, always, ever,
          removed>>

Incomplete == "error"
NoTotal == -1
NoListing == <<-1>>   \* the listing was refused

Rank(x, S) == Cardinality({y \in S : y < x})
Sorted(S) == [i \in 1..Cardinality(S) |-> CHOOSE x \in S : Rank(x, S) = i - 1]

(* The page the gateway answers.                                           *)
Page ==
    LET sorted == Sorted(live)
        from == IF honours THEN offset ELSE 0
            end  == IF from + Limit < Len(sorted) THEN from + Limit ELSE Len(sorted)
    IN  IF from >= end THEN <<>> ELSE SubSeq(sorted, from + 1, end)

NextPageOffset_OneShort(received, total, accumulated) ==  \* mutant: off by one
    IF accumulated > MaxRows THEN Incomplete
    ELSE IF received = 0 \/ (IF total # NoTotal THEN accumulated >= total - 1
                                               ELSE received < Limit) THEN "complete"
    ELSE IF accumulated = MaxRows THEN Incomplete ELSE "next"
(* A stop for safety is never a complete listing.                          *)
NextPageOffset(received, total, accumulated) ==
    LET complete == \/ received = 0
                    \/ IF total # NoTotal THEN accumulated >= total ELSE received < Limit
    IN  IF accumulated > MaxRows THEN Incomplete
        ELSE IF complete THEN "complete"
        ELSE IF accumulated = MaxRows THEN Incomplete ELSE "next"

(* Duplicates across pages are dropped, the first of each kept.            *)
Merged(rs) ==
    LET merged[n \in 0..Len(rs)] ==
            IF n = 0 THEN <<>>
            ELSE IF rs[n] \in Range(merged[n - 1]) THEN merged[n - 1]
            ELSE Append(merged[n - 1], rs[n])
    IN  merged
MergePages(rs) == Merged(rs)[Len(rs)]

Init ==
    /\ live \in SUBSET Names /\ totals \in BOOLEAN /\ honours \in BOOLEAN
    /\ pc = "idle" /\ offset = 0 /\ rows = <<>> /\ listing = <<>>
    /\ always = {} /\ ever = {} /\ removed = FALSE

Start ==
    /\ pc = "idle"
    /\ pc' = "reading" /\ offset' = 0 /\ rows' = <<>> /\ listing' = <<>>
    /\ always' = live /\ ever' = live /\ removed' = FALSE
    /\ UNCHANGED <<live, totals, honours>>

ReadPage ==
    /\ pc = "reading"
    /\ LET page == Page
           total == IF totals THEN Cardinality(live) ELSE NoTotal
           next == NextPageOffset(Len(page), total, Len(rows) + Len(page))
       IN  /\ rows' = rows \o page
           /\ offset' = IF next = "next" THEN offset + Len(page) ELSE offset
           /\ pc' = IF next = "next" THEN "reading" ELSE "idle"
           /\ listing' = IF next = "next" THEN listing
                         ELSE IF next = "complete" THEN MergePages(rows \o page)
                         ELSE NoListing
    /\ UNCHANGED <<live, totals, honours, always, ever, removed>>

(* A namespace comes or goes.                                              *)
Change ==
    /\ pc = "reading"
    /\ \/ \E n \in Names \ live : live' = live \cup {n} /\ UNCHANGED removed
       \/ \E n \in live : live' = live \ {n} /\ removed' = TRUE
    /\ always' = always \cap live' /\ ever' = ever \cup live'
    /\ UNCHANGED <<totals, honours, pc, offset, rows, listing>>

Next == Start \/ ReadPage \/ Change
Spec == Init /\ [][Next]_vars

-----------------------------------------------------------------------------

TypeOK ==
    /\ live \subseteq Names /\ always \subseteq Names /\ ever \subseteq Names
    /\ {totals, honours, removed} \subseteq BOOLEAN
    /\ pc \in {"idle", "reading"} /\ offset \in 0..MaxRows
    /\ Range(rows) \subseteq Names

Listed == pc = "idle" /\ rows # <<>> /\ listing # NoListing

(* A complete listing of a gateway that honours offsets names every        *)
(* namespace that was there all along, when none was removed meanwhile.    *)
ListingIsComplete == Listed /\ honours /\ ~removed => always \subseteq Range(listing)

(* It names nothing that was never there, and nothing twice, also when the *)
(* same rows are served again.                                             *)
ListingIsGenuine == Listed => Range(listing) \subseteq ever /\ IsInjective(listing)

(* A listing is complete and genuine.                                      *)
ListingIsRight == TypeOK /\ ListingIsComplete /\ ListingIsGenuine

=============================================================================
