------------------------------ MODULE MCServices ------------------------------
(***************************************************************************)
(* The services of the backend that share no state with each other, and    *)
(* the wallet hook of the frontend, checked in one run.  A behaviour is    *)
(* one of one of them: an invariant that reads the variables of one        *)
(* service cannot tell what the others do, so that the sum of their state  *)
(* spaces shows what the product would.                                    *)
(***************************************************************************)
EXTENDS EventIndexer, PuzzleReview, RewardClaims, PrizePool, NftMarketplace,
        CacheService, Streaks, WalletLogin, WalletSession

CONSTANTS i1, i2, o1, o2, o3, o4, p1, p2, t3

MCContractIds == <<i1, i2>>

(* Rules that pay two places, and more than there is if both are reached. *)
MCRules == {<<60, 120>>}

(* One user makes an offer, another one the other three. *)
MCOfferor == [o \in Offers |-> IF o = o1 THEN p1 ELSE p2]

(* The requests of every service are t1 and t2, and no service tells them  *)
(* apart; the marketplace has a third.                                     *)
MCSymmetry == Permutations(Requests)

VARIABLE service        \* the service this behaviour is one of

Services == {"indexer", "review", "claims", "pool", "market", "cache", "streaks", "login", "wallet"}

(* The services that do not move begin in one state. *)
ServicesInit ==
    /\ service \in Services
    /\ IndexerInit
    /\ ReviewInit
    /\ ClaimsInit
    /\ PoolInit
    /\ MarketInit
    /\ CacheInit
    /\ StreaksInit
    /\ LoginInit
    /\ WalletInit
    /\ service # "indexer" => chain = [e \in Emitted |-> [contract |-> i1, ledger |-> 1]]
    /\ service # "wallet" => extension = Nothing

(* A step of one service, the others do not move. *)
IndexerStep ==
    /\ service = "indexer" /\ IndexerNext
    /\ UNCHANGED <<service, reviewVars, claimVars, poolVars, marketVars, cacheVars,
                  streakVars, loginVars, walletVars>>
ReviewStep ==
    /\ service = "review" /\ ReviewNext
    /\ UNCHANGED <<service, indexerVars, claimVars, poolVars, marketVars, cacheVars,
                  streakVars, loginVars, walletVars>>
ClaimsStep ==
    /\ service = "claims" /\ ClaimsNext
    /\ UNCHANGED <<service, indexerVars, reviewVars, poolVars, marketVars, cacheVars,
                  streakVars, loginVars, walletVars>>
PoolStep ==
    /\ service = "pool" /\ PoolNext
    /\ UNCHANGED <<service, indexerVars, reviewVars, claimVars, marketVars, cacheVars,
                  streakVars, loginVars, walletVars>>

TradersUnderWay == {t \in Traders : trade[t].step # "none"}
OffersInPlay    == {o \in Offers : offer[o].status # "none" \/ \E t \in Traders : trade[t].offer = o}

(* Bounds of the marketplace: of three requests at once, more than two     *)
(* offers, and a fault, a behaviour has one.  Offers of one user are made  *)
(* in order, and the third request is taken when the others are under way, *)
(* which loses nothing: they are all alike.                                *)
MarketBound ==
    /\ Cardinality(TradersUnderWay') > 2 => Cardinality(OffersInPlay') <= 2 /\ marketFaults' = 0
    /\ Cardinality(OffersInPlay') > 2 => marketFaults' = 0
    /\ o3 \in OffersInPlay' => o2 \in OffersInPlay'
    /\ o4 \in OffersInPlay' => o3 \in OffersInPlay'
    /\ t3 \in TradersUnderWay' \ TradersUnderWay => TradersUnderWay = Traders \ {t3}

MarketStep ==
    /\ service = "market" /\ MarketNext /\ MarketBound
    /\ UNCHANGED <<service, indexerVars, reviewVars, claimVars, poolVars, cacheVars,
                  streakVars, loginVars, walletVars>>
CacheStep ==
    /\ service = "cache" /\ CacheNext
    /\ UNCHANGED <<service, indexerVars, reviewVars, claimVars, poolVars, marketVars,
                  streakVars, loginVars, walletVars>>
StreaksStep ==
    /\ service = "streaks" /\ StreaksNext
    /\ UNCHANGED <<service, indexerVars, reviewVars, claimVars, poolVars, marketVars,
                  cacheVars, loginVars, walletVars>>
LoginStep ==
    /\ service = "login" /\ LoginNext
    /\ UNCHANGED <<service, indexerVars, reviewVars, claimVars, poolVars, marketVars,
                  cacheVars, streakVars, walletVars>>
WalletStep ==
    /\ service = "wallet" /\ WalletNext
    /\ UNCHANGED <<service, indexerVars, reviewVars, claimVars, poolVars, marketVars,
                  cacheVars, streakVars, loginVars>>

ServicesNext ==
    IndexerStep \/ ReviewStep \/ ClaimsStep \/ PoolStep \/ MarketStep
    \/ CacheStep \/ StreaksStep \/ LoginStep \/ WalletStep

servicesVars == <<service, indexerVars, reviewVars, claimVars, poolVars, marketVars, cacheVars,
                  streakVars, loginVars, walletVars>>

ServicesSpec == ServicesInit /\ [][ServicesNext]_servicesVars

-----------------------------------------------------------------------------

(* Whichever service moves keeps the types of its variables. *)
ServicesTypeOK ==
    /\ service \in Services
    /\ service = "indexer" => IndexerTypeOK
    /\ service = "review" => ReviewTypeOK
    /\ service = "claims" => ClaimsTypeOK
    /\ service = "pool" => PoolTypeOK
    /\ service = "market" => MarketTypeOK
    /\ service = "cache" => CacheTypeOK
    /\ service = "streaks" => StreaksTypeOK
    /\ service = "login" => LoginTypeOK
    /\ service = "wallet" => WalletTypeOK
=============================================================================
