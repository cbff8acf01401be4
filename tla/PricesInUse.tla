---------------------------- MODULE PricesInUse ------------------------------
(***************************************************************************)
(* The price database as tools use it: one of them at a time, or several.  *)
(* part says which is looked at.                                           *)
(***************************************************************************)
EXTENDS Integers

CONSTANTS
    Exporter, Users,              \* one tool, and tools that race
    FirstListed, SomeListed,      \* the periods with a price, without gaps and with
    LastPeriod, RacePeriod,       \* bounds: periods
    Window, Day, Every, Btc,
    MaxFails, MaxKills,           \* bounds: failed requests, kills
    NoFile, Hollow

VARIABLES
    part,
    now, prices, proc, fails, kills

-----------------------------------------------------------------------------
\* One tool at a time, and requests that fail; the exchange has every price since the first.
Quotes == INSTANCE Prices WITH
    Procs <- {Exporter}, Freshens <- BOOLEAN, Listed <- FirstListed .. LastPeriod,
    MaxKills <- 0, file <- prices

\* Several tools at once, killed; the exchange has gaps.
RacingQuotes == INSTANCE Prices WITH
    Procs <- Users, Freshens <- BOOLEAN, Listed <- SomeListed, LastPeriod <- RacePeriod,
    file <- prices

ASSUME FirstListedAssumption == FirstListed \in Nat
ASSUME QuotesConstants == Quotes!PriceConstants
ASSUME RacingQuotesConstants == RacingQuotes!PriceConstants

PricesInit ==
    \/ part = "quotes" /\ Quotes!Init
    \/ part = "racing quotes" /\ RacingQuotes!Init

PricesNext ==
    \/ part = "quotes" /\ Quotes!Next
    \/ part = "racing quotes" /\ RacingQuotes!Next

PricesSpec == PricesInit /\ [][PricesNext /\ UNCHANGED part]_<<part, Quotes!vars>>

\* wei_2_Dollars, getQuotes: the quote found by counting is the one of the moment, and
\* the quotes shown lie on the marks of the period asked for.  addToArray: no tool,
\* racing or killed, ever has a quote twice.
PricesRight ==
    /\ part = "quotes" => Quotes!PricedRight /\ Quotes!OnTheMark
    /\ part = "racing quotes" => RacingQuotes!TypeOK /\ RacingQuotes!NeverTwice
=============================================================================
