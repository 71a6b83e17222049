---------------------------- MODULE MarketChannel ----------------------------
(***************************************************************************)
(* internal/ws/market as cmd/ws-listener uses it: the order books of the   *)
(* streamed tokens (BookStore) and the client that decides which are       *)
(* streamed (Subscription).  The two have a mutex each and no state in     *)
(* common: a message of the channel reaches the books and the listener's   *)
(* handler of resolutions one after the other.                             *)
(***************************************************************************)
EXTENDS BookStore

CONSTANTS MaxAssets, MaxSessions, MaxBoards, MaxResolved   \* of Subscription

VARIABLES board, boards, resolved, resolvedAssets, conn, sessions, desired, subscribed,
          link, streamed, pc, arg, used, cur, tangled

Sub == INSTANCE Subscription WITH Assets <- Tokens

ASSUME TokensAreAssets == Sub!SubscriptionAssumption

-----------------------------------------------------------------------------
(* Properties.                                                             *)

\* While connected and at rest, every desired asset is streamed (Subscription).
DesiredIsStreamed == Sub!DesiredIsStreamed

\* The desired set settles on the board without the resolved assets (Subscription).
DesiredSettles == Sub!DesiredSettles

\* What the exchange streams settles too, unless calls overlapped (Subscription).
StreamSettlesOrTangled == Sub!StreamSettlesOrTangled
=============================================================================
