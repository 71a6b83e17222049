---------------------------- MODULE Subscription ----------------------------
(***************************************************************************)
(* Which assets the market channel streams: ws/market Client (SetDesired,  *)
(* RemoveAssets, the session and its reconnects) driven by the two         *)
(* goroutines of cmd/ws-listener that call it, the board poll and the      *)
(* session's own reader when a market resolves.                            *)
(*                                                                         *)
(* desired, subscribed and conn are read and written under the client's    *)
(* mutex, but every message to the exchange is sent outside it.  Asset     *)
(* lists are sets here.  The exchange is external: it streams what the     *)
(* messages of the current connection add up to.  X_Mutant... is a         *)
(* deliberately wrong variant of X that no specification uses.             *)
(***************************************************************************)
EXTENDS Integers, FiniteSets

CONSTANTS
  Assets,
  MaxAssets,    \* -max-assets
  MaxSessions,  \* bound: connections made
  MaxBoards,    \* bound: times the board changes
  MaxResolved   \* bound: markets that resolve

SubscriptionAssumption ==
  /\ IsFiniteSet(Assets) /\ MaxAssets \in Nat \ {0}
  /\ MaxSessions \in Nat \ {0} /\ MaxBoards \in Nat /\ MaxResolved \in Nat

Poller  == "poller"
Session == "session"
Callers == {Poller, Session}

VARIABLES
  board, boards,        \* the tokens edge_board lists; how often it changed
  resolved,             \* tokens whose resolution the exchange announced (it does so once)
  resolvedAssets,       \* what the listener remembers of that
  conn, sessions,       \* the Client's connection (0: none); connections made so far
  desired, subscribed,  \* the Client's sets
  link, streamed,       \* the exchange: the connection it serves, and what it streams
  pc, arg, used, cur,   \* each caller: place, asset set, connection and snapshot it works with
  tangled               \* history, read by the properties only: on this connection two
                        \* callers sent messages from snapshots that did not know each other

listener == <<board, boards, resolved, resolvedAssets>>
client   == <<conn, sessions, desired, subscribed>>
exchange == <<link, streamed>>
calls    == <<pc, arg, used, cur>>
vars     == <<listener, client, exchange, calls, tangled>>

PollerPc  == {"idle", "filter", "lock", "unsubscribe", "subscribe", "record"}
SessionPc == {"down", "initial", "recordInitial", "reading", "remove",
              "lock", "unsubscribe", "subscribe", "record"}

TypeOK ==
  /\ board \subseteq Assets /\ Cardinality(board) <= MaxAssets /\ boards \in 0..MaxBoards
  /\ resolvedAssets \subseteq resolved /\ resolved \subseteq Assets
  /\ conn \in 0..MaxSessions /\ sessions \in 0..MaxSessions
  /\ desired \subseteq Assets /\ subscribed \subseteq Assets /\ tangled \in BOOLEAN
  /\ link \in {0, conn} /\ streamed \subseteq Assets
  /\ link = 0 => streamed = {}
  /\ pc[Poller] \in PollerPc /\ pc[Session] \in SessionPc
  /\ arg \in [Callers -> SUBSET Assets] /\ cur \in [Callers -> SUBSET Assets]
  /\ used \in [Callers -> 0..MaxSessions]
  /\ conn = 0 <=> pc[Session] = "down"

Init ==
  /\ board = {} /\ boards = 0 /\ resolved = {} /\ resolvedAssets = {}
  /\ conn = 0 /\ sessions = 0 /\ desired = {} /\ subscribed = {} /\ tangled = FALSE
  /\ link = 0 /\ streamed = {}
  /\ pc = [p \in Callers |-> IF p = Poller THEN "idle" ELSE "down"]
  /\ arg = [p \in Callers |-> {}] /\ cur = [p \in Callers |-> {}]
  /\ used = [p \in Callers |-> 0]

Goto(p, place) == pc' = [pc EXCEPT ![p] = place]
Return(p)      == Goto(p, IF p = Poller THEN "idle" ELSE "reading")

\* Between the lock of a snapshot and the lock that records what was sent from it.
InWindow(p) == pc[p] \in {"initial", "recordInitial", "unsubscribe", "subscribe", "record"}

-----------------------------------------------------------------------------
(* A message on connection c.  On one that broke unnoticed, or is being    *)
(* closed, it fails or goes nowhere; on one closed before it fails.        *)

Sent(c, newStreamed) ==
  /\ c = conn \/ conn = 0
  /\ streamed' = IF link = c THEN newStreamed ELSE streamed
  /\ UNCHANGED link

NotSent(c) == link # c /\ UNCHANGED exchange

-----------------------------------------------------------------------------
(* SetDesired(arg) by caller p.                                            *)

\* Under the mutex: desired, and a snapshot of conn and subscribed.
SetDesiredLock(p) ==
  /\ pc[p] = "lock"
  /\ desired' = arg[p]
  /\ used' = [used EXCEPT ![p] = conn] /\ cur' = [cur EXCEPT ![p] = subscribed]
  /\ IF conn = 0 THEN Return(p) ELSE Goto(p, "unsubscribe")
  /\ tangled' = (tangled \/ \E o \in Callers \ {p} : conn # 0 /\ InWindow(o))
  /\ UNCHANGED <<listener, conn, sessions, subscribed, exchange, arg>>

\* applyDiff sends nothing for an empty side of the diff.
Unsubscribe(p) ==
  /\ pc[p] = "unsubscribe"
  /\ \/ cur[p] \subseteq arg[p] /\ Goto(p, "subscribe") /\ UNCHANGED exchange
     \/ /\ ~(cur[p] \subseteq arg[p])
        /\ Sent(used[p], streamed \ (cur[p] \ arg[p])) /\ Goto(p, "subscribe")
     \/ ~(cur[p] \subseteq arg[p]) /\ NotSent(used[p]) /\ Return(p)
  /\ UNCHANGED <<listener, client, arg, used, cur, tangled>>

Subscribe_MutantNoDiff(p) ==
  /\ pc[p] = "subscribe"
  /\ \/ Sent(used[p], streamed) /\ Goto(p, "record")
     \/ NotSent(used[p]) /\ Return(p)
  /\ UNCHANGED <<listener, client, arg, used, cur, tangled>>

Subscribe(p) ==
  /\ pc[p] = "subscribe"
  /\ \/ arg[p] \subseteq cur[p] /\ Goto(p, "record") /\ UNCHANGED exchange
     \/ /\ ~(arg[p] \subseteq cur[p])
        /\ Sent(used[p], streamed \cup (arg[p] \ cur[p])) /\ Goto(p, "record")
     \/ ~(arg[p] \subseteq cur[p]) /\ NotSent(used[p]) /\ Return(p)
  /\ UNCHANGED <<listener, client, arg, used, cur, tangled>>

Record_MutantUnion(p) ==
  /\ pc[p] = "record"
  /\ subscribed' = subscribed \cup arg[p] /\ Return(p)
  /\ UNCHANGED <<listener, conn, sessions, desired, exchange, arg, used, cur, tangled>>

\* Whatever happened since the lock was released.
Record(p) ==
  /\ pc[p] = "record"
  /\ subscribed' = arg[p] /\ Return(p)
  /\ UNCHANGED <<listener, conn, sessions, desired, exchange, arg, used, cur, tangled>>

SetDesired(p) == SetDesiredLock(p) \/ Unsubscribe(p) \/ Subscribe(p) \/ Record(p)

-----------------------------------------------------------------------------
(* The board poll: load the board, drop the resolved tokens, SetDesired.   *)

LoadBoard ==
  /\ pc[Poller] = "idle"
  /\ arg' = [arg EXCEPT ![Poller] = board] /\ Goto(Poller, "filter")
  /\ UNCHANGED <<listener, conn, sessions, desired, subscribed, exchange, used, cur, tangled>>

Filter_MutantUnfiltered ==
  /\ pc[Poller] = "filter" /\ Goto(Poller, "lock")
  /\ resolvedAssets' = resolvedAssets \cap arg[Poller]
  /\ UNCHANGED <<board, boards, resolved, client, exchange, arg, used, cur, tangled>>

\* Under resolvedMu: forget the resolved tokens the board no longer lists, and leave
\* the others out of the set.
Filter ==
  /\ pc[Poller] = "filter" /\ Goto(Poller, "lock")
  /\ resolvedAssets' = resolvedAssets \cap arg[Poller]
  /\ arg' = [arg EXCEPT ![Poller] = @ \ resolvedAssets]
  /\ UNCHANGED <<board, boards, resolved, client, exchange, used, cur, tangled>>

BoardPoll == LoadBoard \/ Filter \/ SetDesired(Poller)

-----------------------------------------------------------------------------
(* The session: dial, initial subscribe, read until the connection breaks. *)

Dial ==
  /\ pc[Session] = "down" /\ sessions < MaxSessions
  /\ sessions' = sessions + 1 /\ conn' = sessions' /\ link' = sessions' /\ streamed' = {}
  /\ arg' = [arg EXCEPT ![Session] = desired] /\ Goto(Session, "initial")
  /\ tangled' = (InWindow(Poller) \/ subscribed # {})
  /\ UNCHANGED <<listener, desired, subscribed, used, cur>>

EndSession ==
  /\ conn' = 0 /\ subscribed' = {} /\ link' = 0 /\ streamed' = {}
  /\ Goto(Session, "down")

InitialSubscribe ==
  /\ pc[Session] = "initial"
  /\ \/ arg[Session] = {} /\ Goto(Session, "reading") /\ UNCHANGED <<client, exchange>>
     \/ /\ arg[Session] # {}
        /\ Sent(conn, streamed \cup arg[Session]) /\ Goto(Session, "recordInitial")
        /\ UNCHANGED client
     \/ arg[Session] # {} /\ link # conn /\ EndSession /\ UNCHANGED <<sessions, desired>>
  /\ UNCHANGED <<listener, arg, used, cur, tangled>>

RecordInitial ==
  /\ pc[Session] = "recordInitial"
  /\ subscribed' = arg[Session] /\ Goto(Session, "reading")
  /\ UNCHANGED <<listener, conn, sessions, desired, exchange, arg, used, cur, tangled>>

\* conn.Read returns an error once the connection is broken.
ReadFails ==
  /\ pc[Session] = "reading" /\ link # conn
  /\ EndSession
  /\ UNCHANGED <<listener, sessions, desired, arg, used, cur, tangled>>

\* market_resolved of a streamed asset: remember it, then RemoveAssets.
MarketResolved(a) ==
  /\ pc[Session] = "reading" /\ link = conn /\ a \in streamed \ resolved
  /\ Cardinality(resolved) < MaxResolved
  /\ resolved' = resolved \cup {a} /\ resolvedAssets' = resolvedAssets \cup {a}
  /\ arg' = [arg EXCEPT ![Session] = {a}] /\ Goto(Session, "remove")
  /\ UNCHANGED <<board, boards, client, exchange, used, cur, tangled>>

\* RemoveAssets, under the mutex, up to its call of SetDesired.
RemoveAssets ==
  /\ pc[Session] = "remove"
  /\ desired' = desired \ arg[Session]
  /\ arg' = [arg EXCEPT ![Session] = desired'] /\ Goto(Session, "lock")
  /\ UNCHANGED <<listener, conn, sessions, subscribed, exchange, used, cur, tangled>>

ClientSession ==
  \/ Dial \/ InitialSubscribe \/ RecordInitial \/ ReadFails
  \/ (\E a \in Assets : MarketResolved(a)) \/ RemoveAssets \/ SetDesired(Session)

-----------------------------------------------------------------------------
(* The rest of the world: a new board, a broken connection.                *)

NewBoard ==
  /\ boards < MaxBoards /\ boards' = boards + 1
  /\ \E b \in SUBSET Assets : b # board /\ Cardinality(b) <= MaxAssets /\ board' = b
  /\ UNCHANGED <<resolved, resolvedAssets, client, exchange, calls, tangled>>

\* The last connection of the bounded run holds.
Break ==
  /\ link # 0 /\ link' = 0 /\ streamed' = {} /\ sessions < MaxSessions
  /\ UNCHANGED <<listener, client, calls, tangled>>

World == NewBoard \/ Break

Next == BoardPoll \/ ClientSession \/ World

Spec == Init /\ [][Next]_vars

(* The poll ticks for ever, Run reconnects and the reader runs.            *)
Fairness == WF_vars(BoardPoll) /\ WF_vars(ClientSession)

FairSpec == Spec /\ Fairness

-----------------------------------------------------------------------------
(* Properties.                                                             *)

Quiet == pc[Poller] = "idle" /\ pc[Session] = "reading" /\ link = conn

\* "SetDesired updates the desired asset set and applies diff if connected": while
\* connected, with no call under way and none having overlapped another on this
\* connection, every desired asset is streamed.
DesiredIsStreamed == Quiet /\ ~tangled => desired \subseteq streamed

\* Once the board is still and no market resolves any more, the desired set settles on
\* the board without the resolved assets, whatever the two callers did to each other's
\* updates before.
DesiredSettles ==
  <>[](desired = board \ resolvedAssets)

\* "applies diff if connected": the exchange ends up streaming at least that set for
\* good, unless calls overlapped on the connection that lasts.  (They can: two diffs made
\* from one snapshot leave a board asset recorded as subscribed and not streamed.)
StreamSettlesOrTangled == <>[](tangled \/ board \ resolvedAssets \subseteq streamed)
=============================================================================
