--------------------------- MODULE MCAdminRequest ---------------------------
(* Small instances of what the admin API client does: one call with its    *)
(* retries, the same with clocks that run and are set, and a listing of    *)
(* the namespaces.  A behaviour is of one of the three parts.              *)
EXTENDS AdminRequest

VARIABLES part, live, totals, honours, pc, offset, rows, listing, always, ever, removed

listingVars == <<live, totals, honours, pc, offset, rows, listing, always, ever, removed>>

(* Two scopes, one set of the wall clock, and few writes.                  *)
Clocked == INSTANCE AdminRequest WITH
    RowKind <- "Consumer", MaxAttempts <- 2, Scope <- {1, 2},
    MaxTime <- 6, MaxClockSets <- 1, MaxVersion <- 2

Listing == INSTANCE NamespaceListing WITH Names <- 1..5, Limit <- 2, MaxRows <- 6
ASSUME MCListingAssumption == Listing!ListingAssumption

ListingRests == live = {} /\ totals = TRUE /\ honours = TRUE /\ Listing!Init
AllInit ==
    \/ part = "call" /\ Init /\ ListingRests
    \/ part = "clocks" /\ Clocked!Init /\ ListingRests
    \/ part = "listing" /\ Init /\ Listing!Init
AllNext ==
    /\ UNCHANGED part
    /\ \/ part = "call" /\ Next /\ UNCHANGED listingVars
       \/ part = "clocks" /\ Clocked!Next /\ UNCHANGED listingVars
       \/ part = "listing" /\ Listing!Next /\ UNCHANGED vars
AllSpec == AllInit /\ [][AllNext]_<<vars, listingVars, part>>

(* A complete listing of a gateway that honours offsets names every        *)
(* namespace that was there all along, when none was removed meanwhile;    *)
(* and any listing only names that were there, each once, also when the    *)
(* gateway serves its first page for ever.  (The states of the other two   *)
(* parts are of their types.)                                              *)
ListingIsComplete ==
    CASE part = "call" -> TypeOK
      [] part = "clocks" -> Clocked!TypeOK
      [] part = "listing" -> Listing!ListingIsRight
=============================================================================
