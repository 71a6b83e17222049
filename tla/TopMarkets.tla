------------------------------ MODULE TopMarkets ------------------------------
(***************************************************************************)
(* What cmd/top-markets shares with other programs: the tags with          *)
(* catalog-markets (TagTree), and the price history with the edge scan     *)
(* (PriceHistory).  The two have no state in common.                       *)
(***************************************************************************)
EXTENDS TagTree

CONSTANTS Tokens, Lookback, TokenCap, BatchSize, LastHour   \* of PriceHistory

VARIABLES now, stored, plan, last, asked, touched, steady

P == INSTANCE PriceHistory

ASSUME PricesCanBeAsked == P!PriceAssumption

-----------------------------------------------------------------------------
(* Properties.                                                             *)

\* Only the writes of top-markets leave holes behind a high-water mark (PriceHistory).
HolesOnlyByTopMarkets == P!HolesOnlyByTopMarkets

\* A token ranked in every cycle has every point (PriceHistory).
RankedThroughoutIsWhole == P!RankedThroughoutIsWhole
=============================================================================
