---------------------------- MODULE NftMarketplace ----------------------------
(***************************************************************************)
(* Listings of NFTs, offers on them, and the escrow between acceptance and *)
(* settlement.  A request reads rows, checks their status, and then saves  *)
(* them one by one without a lock or a transaction.  Saving a listing      *)
(* reads the row again, and writes the columns in which the copy differs   *)
(* from it, in two statements.  Of an offer only the status is ever saved  *)
(* again: if the comparison finds the row to have it already, the save     *)
(* takes effect there, otherwise where it writes, so that it is one step.  *)
(***************************************************************************)
EXTENDS Naturals, FiniteSets

CONSTANTS
    Listings,           \* ids of the listings ever created
    Offers,             \* ids of the offers ever made
    Offerors,           \* users who make offers
    Offeror,            \* the one who makes each offer
    Traders,            \* requests that are served at the same time
    MaxMarketFaults     \* bound on requests that fail on the way

NoOffer == "null"
NoBuyer == "null"

ASSUME MarketAssumption ==
    /\ NoOffer \notin Offers /\ NoBuyer \notin Offerors /\ Offeror \in [Offers -> Offerors]
    /\ Listings # {} /\ IsFiniteSet(Traders) /\ MaxMarketFaults \in Nat

VARIABLES
    listing,        \* listing rows: status, and the user they were sold to
    offer,          \* offer rows: status, and the listing they are for
    trade,          \* what every request does next
    marketFaults,
    accepted,       \* history: offers whose acceptance was saved
    stranded,       \* history: acceptances whose requests failed before the listing was saved
    mixed,          \* history: listings written inside a save by another request
    disturbed       \* history: requests have overlapped, or one has failed

marketVars == <<listing, offer, trade, marketFaults, accepted, stranded, mixed, disturbed>>

ListingStatus == {"none", "listed", "escrowed", "sold", "cancelled"}
OfferStatus   == {"none", "pending", "accepted", "rejected", "outbid", "cancelled"}
TradeStep     == {"none", "compare", "write", "withdrawOffers", "insertOffer", "cancelOffer",
                  "readListing", "reject", "accept", "outbid", "findAccepted"}

(* A request holds a copy of the listing, as it was read or will be saved, *)
(* and from comparison to write the columns that differ.                   *)
AnyListing == CHOOSE l \in Listings : TRUE
NoRow      == [status |-> "none", buyer |-> NoBuyer]
NoTrade    == [step |-> "none", listing |-> AnyListing, offer |-> NoOffer,
               row |-> NoRow, columns |-> {}]

MarketInit ==
    /\ listing = [l \in Listings |-> NoRow]
    /\ offer = [o \in Offers |-> [status |-> "none", listing |-> AnyListing]]
    /\ trade = [t \in Traders |-> NoTrade]
    /\ marketFaults = 0
    /\ accepted = {} /\ stranded = [l \in Listings |-> 0]
    /\ mixed = {} /\ disturbed = FALSE

-----------------------------------------------------------------------------

(* A request begins with a read that it bases its checks on. *)
BeginTrade(t, step, l, o, row) ==
    /\ trade[t].step = "none"
    /\ trade' = [trade EXCEPT ![t] = [step |-> step, listing |-> l, offer |-> o,
                                      row |-> row, columns |-> {}]]
    /\ disturbed' = (disturbed \/ \E s \in Traders : trade[s].step # "none")
    /\ UNCHANGED <<listing, offer, marketFaults, accepted, stranded, mixed>>

Trading(t, step)    == trade[t].step = step
TradeGoes(t, step, row) ==
    trade' = [trade EXCEPT ![t] = [trade[t] EXCEPT !.step = step, !.row = row, !.columns = {}]]
EndTrade(t)         == trade' = [trade EXCEPT ![t] = NoTrade]
SetOffer(t, status) == offer' = [offer EXCEPT ![trade[t].offer].status = status]

(* The pending offers on the listing are updated in one statement. *)
SetPendingOffers(t, status) ==
    offer' = [o \in Offers |->
                 IF offer[o].listing = trade[t].listing /\ offer[o].status = "pending"
                 THEN [offer[o] EXCEPT !.status = status] ELSE offer[o]]

(* What a request does after it has saved the listing. *)
AfterListingSave == [cancelled |-> "withdrawOffers", escrowed |-> "outbid", sold |-> "none"]

(* Saving a listing: the row is read again to see what has to be written. *)
CompareListing(t) ==
    /\ Trading(t, "compare")
    /\ LET row == listing[trade[t].listing]
       IN  trade' = [trade EXCEPT ![t] = [trade[t] EXCEPT
                        !.step = "write", !.columns = {c \in DOMAIN row : trade[t].row[c] # row[c]}]]
    /\ UNCHANGED <<listing, offer, marketFaults, accepted, stranded, mixed, disturbed>>

WriteListing(t) ==
    LET l    == trade[t].listing
        then == AfterListingSave[trade[t].row.status]
    IN  /\ Trading(t, "write")
        /\ listing' = [listing EXCEPT ![l] =
               [c \in DOMAIN NoRow |-> IF c \in trade[t].columns THEN trade[t].row[c] ELSE listing[l][c]]]
        /\ mixed' = IF \E s \in Traders \ {t} : Trading(s, "write") /\ trade[s].listing = l
                    THEN mixed \cup {l} ELSE mixed
        /\ IF then = "none" THEN EndTrade(t) ELSE TradeGoes(t, then, NoRow)
        /\ UNCHANGED <<offer, marketFaults, accepted, stranded, disturbed>>

CreateListing(l) ==
    /\ listing[l].status = "none"
    /\ listing' = [listing EXCEPT ![l].status = "listed"]
    /\ UNCHANGED <<offer, trade, marketFaults, accepted, stranded, mixed, disturbed>>

(* cancelListing saves the listing and then withdraws the pending offers. *)
BeginCancelListing(t, l) ==
    /\ listing[l].status = "listed"
    /\ BeginTrade(t, "compare", l, NoOffer, [listing[l] EXCEPT !.status = "cancelled"])

WithdrawOffers(t) ==
    /\ Trading(t, "withdrawOffers")
    /\ SetPendingOffers(t, "cancelled")
    /\ EndTrade(t)
    /\ UNCHANGED <<listing, marketFaults, accepted, stranded, mixed, disturbed>>

(* createOffer *)
BeginCreateOffer(t, l, o) ==
    /\ listing[l].status = "listed"
    /\ offer[o].status = "none" /\ \A s \in Traders : trade[s].offer # o
    /\ BeginTrade(t, "insertOffer", l, o, NoRow)

CreateOffer(t) ==
    /\ Trading(t, "insertOffer")
    /\ offer' = [offer EXCEPT ![trade[t].offer] = [status |-> "pending", listing |-> trade[t].listing]]
    /\ EndTrade(t)
    /\ UNCHANGED <<listing, marketFaults, accepted, stranded, mixed, disturbed>>

(* cancelOffer *)
BeginCancelOffer(t, o) ==
    /\ offer[o].status = "pending"
    /\ BeginTrade(t, "cancelOffer", offer[o].listing, o, NoRow)

CancelOffer(t) ==
    /\ Trading(t, "cancelOffer")
    /\ SetOffer(t, "cancelled")
    /\ EndTrade(t)
    /\ UNCHANGED <<listing, marketFaults, accepted, stranded, mixed, disturbed>>

(* respondToOffer reads the offer, then its listing. *)
BeginRespond(t, o) ==
    /\ offer[o].status = "pending"
    /\ BeginTrade(t, "readListing", offer[o].listing, o, NoRow)

(* A slip: the status of the listing is not checked. *)
ReadListingUnchecked(t) ==
    /\ Trading(t, "readListing")
    /\ \/ TradeGoes(t, "reject", NoRow)
       \/ TradeGoes(t, "accept", [listing[trade[t].listing] EXCEPT !.status = "escrowed"])
    /\ UNCHANGED <<listing, offer, marketFaults, accepted, stranded, mixed, disturbed>>

ReadListing(t) ==
    /\ Trading(t, "readListing")
    /\ IF listing[trade[t].listing].status = "listed"
       THEN \/ TradeGoes(t, "reject", NoRow)
            \/ TradeGoes(t, "accept", [listing[trade[t].listing] EXCEPT !.status = "escrowed"])
       ELSE EndTrade(t)
    /\ UNCHANGED <<listing, offer, marketFaults, accepted, stranded, mixed, disturbed>>

RejectOffer(t) ==
    /\ Trading(t, "reject")
    /\ SetOffer(t, "rejected")
    /\ EndTrade(t)
    /\ UNCHANGED <<listing, marketFaults, accepted, stranded, mixed, disturbed>>

(* Accepting saves the offer, then the listing, and outbids the others. *)
AcceptOffer(t) ==
    /\ Trading(t, "accept")
    /\ SetOffer(t, "accepted")
    /\ accepted' = accepted \cup {trade[t].offer}
    /\ TradeGoes(t, "compare", trade[t].row)
    /\ UNCHANGED <<listing, marketFaults, stranded, mixed, disturbed>>

OutbidOffers(t) ==
    /\ Trading(t, "outbid")
    /\ SetPendingOffers(t, "outbid")
    /\ EndTrade(t)
    /\ UNCHANGED <<listing, marketFaults, accepted, stranded, mixed, disturbed>>

(* settleEscrow sells to any accepted offer of the listing, and fails if   *)
(* there is none.                                                          *)
BeginSettle(t, l) ==
    /\ listing[l].status = "escrowed"
    /\ BeginTrade(t, "findAccepted", l, NoOffer, listing[l])

OffersOn(l, status) == {o \in Offers : offer[o].listing = l /\ offer[o].status = status}

FindAccepted(t) ==
    LET found == OffersOn(trade[t].listing, "accepted")
    IN  /\ Trading(t, "findAccepted")
        /\ IF found = {}
           THEN EndTrade(t)
           ELSE \E o \in found : TradeGoes(t, "compare", [status |-> "sold", buyer |-> Offeror[o]])
        /\ UNCHANGED <<listing, offer, marketFaults, accepted, stranded, mixed, disturbed>>

(* The request has saved the acceptance of its offer, not yet the listing. *)
Escrowing(t, l) ==
    /\ trade[t].step \in {"compare", "write"}
    /\ trade[t].row.status = "escrowed" /\ trade[t].listing = l

(* A statement fails and the rest of the request is not done. *)
FailTrade(t) ==
    /\ trade[t].step # "none"
    /\ marketFaults < MaxMarketFaults
    /\ marketFaults' = marketFaults + 1
    /\ stranded' = [l \in Listings |-> IF Escrowing(t, l) THEN stranded[l] + 1 ELSE stranded[l]]
    /\ EndTrade(t)
    /\ disturbed' = TRUE
    /\ UNCHANGED <<listing, offer, accepted, mixed>>

-----------------------------------------------------------------------------

MarketNext ==
    \/ \E l \in Listings : CreateListing(l)
    \/ \E t \in Traders :
          \/ \E l \in Listings :
                \/ BeginCancelListing(t, l) \/ BeginSettle(t, l)
                \/ \E o \in Offers : BeginCreateOffer(t, l, o)
          \/ \E o \in Offers : BeginCancelOffer(t, o) \/ BeginRespond(t, o)
          \/ CompareListing(t) \/ WriteListing(t) \/ WithdrawOffers(t)
          \/ CreateOffer(t) \/ CancelOffer(t)
          \/ ReadListing(t) \/ RejectOffer(t) \/ AcceptOffer(t) \/ OutbidOffers(t)
          \/ FindAccepted(t)
          \/ FailTrade(t)

MarketSpec == MarketInit /\ [][MarketNext]_marketVars

-----------------------------------------------------------------------------
(* Properties. *)

ListingRow == [status : ListingStatus, buyer : Offerors \cup {NoBuyer}]

MarketTypeOK ==
    /\ listing \in [Listings -> ListingRow]
    /\ offer \in [Offers -> [status : OfferStatus, listing : Listings]]
    /\ trade \in [Traders -> [step : TradeStep, listing : Listings, offer : Offers \cup {NoOffer},
                              row : ListingRow, columns : SUBSET {"status", "buyer"}]]
    /\ marketFaults \in 0 .. MaxMarketFaults
    /\ accepted \subseteq Offers /\ stranded \in [Listings -> Nat]
    /\ mixed \subseteq Listings /\ disturbed \in BOOLEAN

AcceptedOn(l) == {o \in accepted : offer[o].listing = l}

(* A listing goes into escrow or is sold only after its seller accepted an *)
(* offer on it, and the only buyers it ever names are those whose offers   *)
(* were accepted, whatever withdrawals and answers overlap and whichever   *)
(* of them fail half-way.  A sold listing, and no other, names its buyer,  *)
(* unless it was written inside a save by another request.  More than one  *)
(* offer is accepted only by answers that overlap or fail: while a listing *)
(* is open, every acceptance is that of a request about to close it, or of *)
(* one that failed before it did, and besides the latter there are never   *)
(* more than there are requests at a time.  If nothing overlapped or       *)
(* failed, exactly one offer is accepted and none is left pending.         *)
TradesFollowAcceptance ==
    \A l \in Listings :
        /\ listing[l].status \in {"escrowed", "sold"} => AcceptedOn(l) # {}
        /\ listing[l].buyer # NoBuyer => \E o \in AcceptedOn(l) : Offeror[o] = listing[l].buyer
        /\ l \notin mixed => (listing[l].status = "sold" <=> listing[l].buyer # NoBuyer)
        /\ listing[l].status \in {"none", "listed"} =>
              Cardinality(AcceptedOn(l)) <= Cardinality({t \in Traders : Escrowing(t, l)}) + stranded[l]
        /\ Cardinality(AcceptedOn(l)) <= Cardinality(Traders) + stranded[l]
        /\ ~disturbed /\ (\A t \in Traders : trade[t].step = "none") =>
              /\ listing[l].status \in {"escrowed", "sold"} <=> OffersOn(l, "accepted") # {}
              /\ Cardinality(OffersOn(l, "accepted")) <= 1
              /\ listing[l].status # "listed" => OffersOn(l, "pending") = {}
=============================================================================
