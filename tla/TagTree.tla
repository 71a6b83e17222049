------------------------------- MODULE TagTree -------------------------------
(***************************************************************************)
(* The table tags as a tree under the categories root, and its writers:    *)
(* a cycle of cmd/catalog-markets (watermark, sports sync, breadth-first   *)
(* refresh, overlay of the sports hierarchy, aggregation, UpdateTags), the *)
(* saver behind the sports sync, and cmd/top-markets, which shares the     *)
(* watermark and the table but knows no sports hierarchy.                  *)
(*                                                                         *)
(* A tag is its id and its parent; labels and totals are left out, and so  *)
(* is the catch-all tag, which is never a parent.                          *)
(***************************************************************************)
EXTENDS SportsHierarchy

CONSTANTS
  Root,       \* the categories root
  EventTags,  \* tags of events
  RowSets,    \* answers of /sports
  TeamSets,   \* for the teams of /teams: their league and the tag with their name
  WalkTags,   \* tags that the breadth-first walk may come upon
  MaxMissing, \* bound: definitions that cannot be fetched
  MaxCycles,  \* bound: cycles of both programs together
  MaxStops    \* bound: restarts of catalog-markets

IsSeq(s) == s \in Seq(ToSet(s))

\* What is no tag below the root.
NoTags == {Root, None}

\* /sports answers with a sequence of leagues, each with a sequence of tags; neither the
\* programs nor the answers they get put the root itself under another tag.
ASSUME TagAssumption ==
  /\ Root # None /\ Sports \notin SeedFamilies \cup NoTags
  /\ \A k \in DOMAIN Inject : Inject[k] \in SeedFamilies
  /\ (SeedFamilies \cup EventTags \cup WalkTags) \cap NoTags = {}
  /\ \A r \in RowSets :
       /\ IsSeq(r)
       /\ \A i \in DOMAIN r : IsSeq(r[i].tags) /\ ToSet(r[i].tags) \cap NoTags = {}
  /\ \A ts \in TeamSets : \A n \in ts : n.tag \notin NoTags

VARIABLES
  rows, named,    \* what /sports and /teams answer
  tags,           \* the table: for each tag its parent, or None
  leagues, teams, \* the tables leagues and teams have been written
  queue,          \* records in the saver
  wm,             \* the watermark top_markets.tag_catalog
  at,             \* where catalog-markets is
  cat,            \* its catalog: parents by tag
  edges,          \* the sports edges of its last overlay
  skip,           \* skipNextSportsSync
  topAt, topCat,  \* top-markets: where it is, and its catalog
  pending,        \* tags of refreshes that the watermark speaks of and no cycle has written
  due,            \* and those that one has written
  overlaid,       \* the table as the last overlay "read" it or its cycle "written" it, or "no"
  dropped,        \* UpdateTags has dropped a parent
  cycles, stops

input == <<rows, named>>
sync  == <<leagues, teams, queue>>
cycle == <<at, cat, edges, skip>>
top   == <<topAt, topCat>>
fresh == <<wm, pending, due>>
ghost == <<overlaid, dropped>>
count == <<cycles, stops>>
vars  == <<input, tags, sync, cycle, top, fresh, ghost, count>>

Known == SeedFamilies \cup {Sports}
Empty == [t \in {} |-> None]

Init ==
  /\ rows \in RowSets /\ named \in TeamSets
  /\ tags = Empty /\ leagues = FALSE /\ teams = FALSE /\ queue = {}
  /\ wm = "none" /\ pending = {} /\ due = {}
  /\ at = "idle" /\ cat = Empty /\ edges = Empty /\ skip = FALSE
  /\ topAt = "idle" /\ topCat = Empty
  /\ overlaid = "no" /\ dropped = FALSE
  /\ cycles = 0 /\ stops = 0

-----------------------------------------------------------------------------
(* The table.                                                              *)

\* FetchTagSubtree, under a parent map p: eight levels of descendants of the root.
Subtree(p) ==
  LET Down(S)  == S \cup {t \in DOMAIN p : p[t] \in S}
      Down4(S) == Down(Down(Down(Down(S))))
  IN  Down4(Down4({Root})) \ {Root}

LoadCategoriesFromDB == [t \in Subtree(tags) |-> tags[t]]

\* Known tags are inserted, each by itself.
seedKnownTag == tags ++ [c \in Known |-> None]

\* Then all parents in one batch, which passes over rows that are not there and fails, as
\* the answer says, when a parent is not there.
ApplySportsParentTags(e) ==
  LET p    == MergeStaticFamilyAnchors(e)
      t    == seedKnownTag
      here == DOMAIN p \cap DOMAIN t
      ok   == \A c \in here : p[c] \in DOMAIN t
  IN  [ok |-> ok, tags |-> IF ok THEN [c \in here |-> p[c]] ++ t ELSE t]

\* A parent that is neither there nor in the batch is dropped.
sanitizeTagParents(p) ==
  [t \in DOMAIN p |-> IF p[t] \in DOMAIN p \cup DOMAIN tags THEN p[t] ELSE None]

UpdateTags_MutantStoredParentStays(p) == tags ++ sanitizeTagParents(p)

\* Without a parent of its own a tag keeps the one in the table.
UpdateTags(p) ==
  LET q == sanitizeTagParents(p)
  IN  [t \in {c \in DOMAIN q : q[c] # None} |-> q[t]] ++ tags ++ q

-----------------------------------------------------------------------------
(* The sports sync.                                                        *)

\* Where a sync returns to: the cycle, or, after a reset, the start of one.
Returns == IF skip THEN "idle" ELSE "refresh"

\* A failed sync: the cycle goes on without it, but after a reset the program exits.
SyncFails ==
  /\ at' = Returns /\ skip' = FALSE
  /\ queue' = IF skip THEN {} ELSE queue

\* /sports fails or is empty, or the teams of a league cannot be fetched.
FetchFails ==
  /\ at \in {"sports", "teams"} /\ SyncFails
  /\ UNCHANGED <<input, tags, leagues, teams, cat, edges, top, fresh, ghost, count>>

\* fetchAndSaveTagDefs: one request for each tag, of which some may find nothing or fail.
FetchedTagDefs(ids) ==
  {ids \ missing : missing \in {s \in SUBSET ids : Cardinality(s) <= MaxMissing}}

\* The leagues and the definitions that could be fetched are handed to the saver, no more.
\* Those of known tags are left out: ApplySportsParentTags inserts them anyway.
FetchSports ==
  /\ at = "sports" /\ at' = "parents"
  /\ \E defs \in FetchedTagDefs(AllTagIDsFromSports(rows) \ Known) :
       queue' = {<<"leagues">>} \cup {<<"tags_definitions", t>> : t \in defs}
  /\ UNCHANGED <<input, tags, leagues, teams, cat, edges, skip, top, fresh, ghost, count>>

\* The parents of leagues and families; a parent that is still missing ends the sync.
ApplyLeagueParents ==
  /\ at = "parents"
  /\ LET a == ApplySportsParentTags(BuildFromSportsMetadata(rows))
     IN  /\ tags' = a.tags
         /\ IF a.ok THEN at' = "teams" /\ UNCHANGED <<skip, queue>> ELSE SyncFails
  /\ overlaid' = "no"
  /\ UNCHANGED <<input, leagues, teams, cat, edges, top, fresh, dropped, count>>

buildTeamParentEdges(r) == TeamParentEdges(MatchTeamsToTags(r, named, DOMAIN tags))

filterEdgesExistingTags(e) ==
  [c \in {d \in DOMAIN tags \cap DOMAIN e : e[d] \in DOMAIN tags} |-> e[c]]

\* The teams to the saver; the parents of their tags, where both are there; and the
\* leagues to the saver once more, for the parents and the sports.
ApplyTeamParents ==
  /\ at = "teams" /\ at' = "wait"
  /\ LET e == filterEdgesExistingTags(buildTeamParentEdges(rows))
     IN  tags' = IF e = Empty THEN tags ELSE ApplySportsParentTags(e).tags
  /\ queue' = queue \cup {<<"league_hierarchy">>} \cup {<<"teams">> : n \in named}
  /\ overlaid' = "no"
  /\ UNCHANGED <<input, leagues, teams, cat, edges, skip, top, fresh, dropped, count>>

\* WaitUntilIdle.
SyncWaited ==
  /\ at = "wait" /\ queue = {} /\ at' = Returns
  /\ UNCHANGED <<input, tags, sync, cat, edges, skip, top, fresh, ghost, count>>

batchInsertLeagues(r) == r[1] = "leagues" /\ leagues' = TRUE /\ UNCHANGED <<teams, tags>>

batchInsertTeams(r) == r[1] = "teams" /\ teams' = TRUE /\ UNCHANGED <<leagues, tags>>

batchInsertTagsDefinitions(r) ==
  /\ r[1] = "tags_definitions"
  /\ tags' = tags ++ [t \in {r[2]} |-> None] /\ UNCHANGED <<leagues, teams>>

batchInsertLeagueHierarchy(r) ==
  /\ r[1] = "league_hierarchy"
  /\ tags' = ApplySportsParentTags(BuildFromSportsMetadata(rows)).tags
  /\ UNCHANGED <<leagues, teams>>

\* A worker of the saver takes any record and stores it, or fails and loses it; a definition
\* that is lost is as good as missing.
SaverWorks ==
  /\ \E r \in queue :
       /\ queue' = queue \ {r}
       /\ \/ r[1] # "tags_definitions" /\ UNCHANGED <<leagues, teams, tags>>
          \/ batchInsertLeagues(r) \/ batchInsertTeams(r)
          \/ batchInsertTagsDefinitions(r) \/ batchInsertLeagueHierarchy(r)
  /\ overlaid' = IF tags' = tags THEN overlaid ELSE "no"
  /\ UNCHANGED <<input, cycle, top, fresh, dropped, count>>

-----------------------------------------------------------------------------
(* The cycle of catalog-markets.                                           *)

CatalogNeedsRefresh == wm # "fresh"

\* LoadTagCatalog: the table while the watermark is fresh, unless nothing is in it.
StartCycle ==
  /\ at = "idle" /\ cycles < MaxCycles /\ cycles' = cycles + 1
  /\ IF ~CatalogNeedsRefresh /\ Subtree(tags) # {}
     THEN at' = "overlay" /\ cat' = LoadCategoriesFromDB /\ skip' = skip
     ELSE at' = (IF skip THEN "refresh" ELSE "sports") /\ cat' = Empty /\ skip' = FALSE
  /\ UNCHANGED <<input, tags, sync, edges, top, fresh, ghost, stops>>

\* The table leagues, in any order.
FetchLeagueTagRows == IF leagues THEN {rows, Reverse(rows)} ELSE {<<>>}

\* From the tables leagues and teams; the edges of leagues win.
SportsParentEdges ==
  {BuildFromSportsMetadata(r) ++ (IF teams THEN buildTeamParentEdges(r) ELSE Empty)
     : r \in FetchLeagueTagRows}

\* FetchCategories: each tag under one that the walk had come upon before.
Walks ==
  {w \in UNION {[found -> found \cup {Root}] : found \in (SUBSET WalkTags) \ {{}}} :
     Subtree(w) = DOMAIN w}

MergeSports_MutantWalkWins(c, e) ==
  LET all == DOMAIN c \cup {Sports} \cup (DOMAIN e \cap (DOMAIN tags \cup Known))
  IN  [t \in all |-> IF t = Sports THEN Root ELSE IF t \in DOMAIN c THEN c[t] ELSE e[t]]

\* mergeSportsTagsIntoCatalog: the tags of the edges, as far as there are rows of them, and
\* the parents that the edges say.
MergeSports(c, e) ==
  LET ends == DOMAIN e \cup {e[t] : t \in DOMAIN e}
      all  == DOMAIN c \cup {Sports} \cup (ends \cap DOMAIN tags) \cup (DOMAIN e \cap Known)
  IN  [t \in all |-> IF t = Sports THEN Root
                     ELSE IF t \in DOMAIN e THEN e[t]
                     ELSE IF t \in DOMAIN c THEN c[t] ELSE tags[t]]

Promise(p) ==
  \/ wm' = "fresh" /\ pending' = pending \cup p /\ due' = {}
  \/ UNCHANGED fresh

\* The walk succeeds; the watermark, if it can be set, is set before anything is written.
Refresh ==
  /\ at = "refresh" /\ at' = "overlay"
  /\ \E w \in Walks, e \in SportsParentEdges : cat' = MergeSports(w, e) /\ Promise(DOMAIN cat')
  /\ UNCHANGED <<input, tags, sync, edges, skip, top, ghost, count>>

\* The walk fails: the table, whatever its age.
RefreshFails ==
  /\ at = "refresh" /\ at' = "overlay" /\ cat' = LoadCategoriesFromDB
  /\ UNCHANGED <<input, tags, sync, edges, skip, top, fresh, ghost, count>>

\* OverlaySportsHierarchy, with the rows of that moment.
Overlay ==
  /\ at = "overlay" /\ at' = "write" /\ overlaid' = "read"
  /\ \E e \in SportsParentEdges : edges' = e /\ cat' = MergeSports(cat, e)
  /\ UNCHANGED <<input, tags, sync, skip, top, fresh, dropped, count>>

\* The parents that a tag of an event may get: a top category or the root, unless the edges
\* say which.
Under(c, e, t) == IF t \in DOMAIN e THEN {e[t]} ELSE {Root} \cup {u \in DOMAIN c : c[u] = Root}

\* Aggregate: a tag of an event that the catalog lacks is added to it; at most one of them in
\* a cycle.
Discovered(c, e) ==
  {c} \cup UNION {{c ++ [s \in {t} |-> u] : u \in Under(c, e, t)} : t \in EventTags \ DOMAIN c}

Store(p) ==
  /\ tags' = UpdateTags(p)
  /\ pending' = pending \ DOMAIN p /\ due' = due \cup (pending \cap DOMAIN p)
  /\ dropped' = (dropped \/ \E t \in DOMAIN p \ {Root} : sanitizeTagParents(p)[t] = None)

\* Aggregation, sports parents once more over it, and UpdateTags.
Write ==
  /\ at = "write" /\ at' = "idle" /\ cat' = Empty
  /\ \E c \in Discovered(cat, edges) : Store(c ++ [t \in {Root} |-> None])
  /\ overlaid' = IF overlaid = "read" THEN "written" ELSE "no"
  /\ UNCHANGED <<input, sync, wm, edges, skip, top, count>>

\* The events cannot be fetched or UpdateTags fails; the cycle after a reset then exits.
CycleFails ==
  /\ at = "write" /\ at' = "idle" /\ cat' = Empty /\ skip' \in {skip, FALSE}
  /\ UNCHANGED <<input, tags, sync, edges, top, fresh, ghost, count>>

Reset_MutantKeepsWatermark ==
  /\ at = "idle" /\ stops < MaxStops /\ stops' = stops + 1
  /\ tags' = Empty /\ at' = "sports" /\ skip' = TRUE /\ queue' = {} /\ overlaid' = "no"
  /\ UNCHANGED <<input, leagues, teams, cat, edges, top, fresh, dropped, cycles>>

\* Started again with -reset-tags: in one transaction the table is emptied and the
\* watermark removed; then the sports sync.
Reset ==
  /\ at = "idle" /\ stops < MaxStops /\ stops' = stops + 1
  /\ tags' = Empty /\ wm' = "none" /\ pending' = {} /\ due' = {}
  /\ at' = "sports" /\ skip' = TRUE /\ queue' = {} /\ overlaid' = "no"
  /\ UNCHANGED <<input, leagues, teams, cat, edges, top, dropped, cycles>>

\* Stopped in the middle of a cycle, and started again.
Restart ==
  /\ at # "idle" /\ stops < MaxStops /\ stops' = stops + 1
  /\ at' = "idle" /\ cat' = Empty /\ skip' = FALSE /\ queue' = {}
  /\ UNCHANGED <<input, tags, leagues, teams, edges, top, fresh, ghost, cycles>>

\* A day goes by.
Expire ==
  /\ wm = "fresh" /\ wm' = "stale" /\ pending' = {} /\ due' = {}
  /\ UNCHANGED <<input, tags, sync, cycle, top, ghost, count>>

-----------------------------------------------------------------------------
(* top-markets: the same watermark and table, and no sports hierarchy.      *)

TopLoad ==
  /\ topAt = "idle" /\ cycles < MaxCycles /\ cycles' = cycles + 1
  /\ topAt' = "write"
  /\ \/ /\ CatalogNeedsRefresh \/ Subtree(tags) = {}
        /\ \E w \in Walks : topCat' = w /\ Promise(DOMAIN w)
     \/ topCat' = LoadCategoriesFromDB /\ UNCHANGED fresh
  /\ UNCHANGED <<input, tags, sync, cycle, ghost, stops>>

\* With an empty catalog no tag is written.
TopWrite ==
  /\ topAt = "write" /\ topAt' = "idle" /\ topCat' = Empty
  /\ \/ /\ topCat # Empty
        /\ \E c \in Discovered(topCat, Empty) : Store(c ++ [t \in {Root} |-> None])
        /\ overlaid' = "no"
     \/ UNCHANGED <<tags, pending, due, ghost>>
  /\ UNCHANGED <<input, sync, wm, cycle, count>>

Next ==
  \/ FetchFails \/ FetchSports \/ ApplyLeagueParents \/ ApplyTeamParents \/ SyncWaited
  \/ SaverWorks
  \/ StartCycle \/ Refresh \/ RefreshFails \/ Overlay \/ Write \/ CycleFails
  \/ Reset \/ Restart \/ Expire
  \/ TopLoad \/ TopWrite

Spec == Init /\ [][Next]_vars

-----------------------------------------------------------------------------
(* Properties.                                                             *)

\* Whatever /sports answers, its edges are a tree of three levels: families under Sports,
\* every other tag under a family or, in a league without one, under Sports
\* (sportstags.BuildFromSportsMetadata).
EdgesAreTree ==
  LET e == BuildFromSportsMetadata(rows)
  IN  \A t \in DOMAIN e : e[t] # Sports => e[t] \in AutoFamilies(rows) /\ e[e[t]] = Sports

\* While the watermark is fresh, nobody looks for the tags of its refresh again: each that a
\* cycle of either program has written since is still in the table, whoever resets the table
\* or writes it in between (catalog.LoadTagCatalog, db.ResetTagCatalog, both cycles).
FreshMeansStored == wm = "fresh" => due \subseteq DOMAIN tags

\* Once a cycle of catalog-markets has written the table and as long as nobody else has,
\* since its overlay, the parent of a sports tag is the one of the sports hierarchy, whatever
\* the walk, the events or the table said (OverlaySportsHierarchy, ApplyParents, UpdateTags).
SportsParentsWin ==
  overlaid = "written" =>
    \A t \in DOMAIN edges \cap DOMAIN tags : edges[t] \in DOMAIN tags => tags[t] = edges[t]

\* Parents come from walks of different days, from events, leagues and teams, and a write
\* leaves alone what it does not know; still no tag is above itself after such a cycle, so
\* that FetchTagSubtree finds it, if the overlay knew the leagues and no parent was ever
\* dropped: among any tags there is one whose parent is not one of them.
StaysATree ==
  LET knows == AllTagIDsFromSports(rows) \ {Sports} \subseteq DOMAIN edges
  IN  overlaid = "written" /\ knows /\ ~dropped =>
        \A S \in SUBSET DOMAIN tags : S # {} => \E t \in S : tags[t] \notin S
=============================================================================
