--------------------------- MODULE SportsHierarchy ---------------------------
(***************************************************************************)
(* internal/sportstags: which Gamma tag is the parent of which, derived    *)
(* from the rows of /sports (a league key and a CSV of tag ids) and from   *)
(* the teams that carry the name of a tag.  Ids are trimmed, deduplicated  *)
(* and without the meta tag Games, as splitTagCSV leaves them.             *)
(***************************************************************************)
EXTENDS Integers, FiniteSets, Sequences, SequencesExt

CONSTANTS
  Sports,        \* the tag of the top category
  SeedFamilies,  \* families whatever /sports says
  Inject,        \* league keys whose family is known when the CSV lacks it
  MinFreq        \* tags in this many leagues are families

None == "none"

\* f, and g where f says nothing.
f ++ g == [x \in DOMAIN f \cup DOMAIN g |-> IF x \in DOMAIN f THEN f[x] ELSE g[x]]

AutoFamilies(rows) ==
  LET Leagues(t) == {i \in DOMAIN rows : t \in ToSet(rows[i].tags)}
  IN  SeedFamilies \cup {t \in (UNION {ToSet(rows[i].tags) : i \in DOMAIN rows}) \ {Sports} :
                           Cardinality(Leagues(t)) >= MinFreq}

\* The first of s that is in A.
FirstIn(s, A) ==
  LET places == {i \in DOMAIN s : s[i] \in A}
  IN  IF places = {} THEN None ELSE s[Min(places)]

\* The first family of the CSV, or else the one injected for the league.
FamilyTagForLeague(r, fams) ==
  LET inCSV == FirstIn(r.tags, fams)
  IN  IF inCSV # None THEN inCSV
      ELSE IF r.sport \in DOMAIN Inject THEN Inject[r.sport] ELSE None

LeagueTitleTagIDs(r, fam, fams) == ToSet(r.tags) \ ({Sports, fam} \cup fams)

BuildParentEdges_MutantFamiliesAreLeaves(r, fam, fams) ==
  LET leaves == ToSet(r.tags) \ {Sports, fam}
  IN  [t \in leaves |-> IF fam = None THEN Sports ELSE fam] ++ [t \in {fam} \ {None} |-> Sports]

\* The family under Sports, every other tag of the league under the family.
BuildParentEdges(r, fam, fams) ==
  LET leaves == LeagueTitleTagIDs(r, fam, fams)
  IN  [t \in leaves |-> IF fam = None THEN Sports ELSE fam] ++ [t \in {fam} \ {None} |-> Sports]

MergeStaticFamilyAnchors(edges) == edges ++ [f \in SeedFamilies |-> Sports]

\* Of two leagues with one tag the later wins.
BuildFromSportsMetadata(rows) ==
  LET fams    == AutoFamilies(rows)
      edges   == [i \in DOMAIN rows |->
                    BuildParentEdges(rows[i], FamilyTagForLeague(rows[i], fams), fams)]
      with(t) == {i \in DOMAIN rows : t \in DOMAIN edges[i]}
  IN  MergeStaticFamilyAnchors([t \in UNION {DOMAIN edges[i] : i \in DOMAIN rows} |->
                                  edges[Max(with(t))][t]])

LeagueTitleTag(rows, r) ==
  LET fams == AutoFamilies(rows)
  IN  FirstIn(r.tags, LeagueTitleTagIDs(r, FamilyTagForLeague(r, fams), fams))

LeagueTitleByKey(rows) ==
  [k \in {rows[i].sport : i \in DOMAIN rows} |->
     LeagueTitleTag(rows, rows[CHOOSE i \in DOMAIN rows : rows[i].sport = k])]

\* named has, for each team, its league and the one tag with its name; present are the tags
\* there are.
MatchTeamsToTags(rows, named, present) ==
  LET titles == LeagueTitleByKey(rows)
  IN  {[tag |-> n.tag, title |-> titles[n.league]] :
         n \in {m \in named : /\ m.league \in DOMAIN titles
                              /\ titles[m.league] \notin {None, m.tag}
                              /\ m.tag \in present \ ({Sports} \cup AutoFamilies(rows))}}

TeamParentEdges(matches) ==
  [t \in {m.tag : m \in matches} |-> (CHOOSE m \in matches : m.tag = t).title]

AllTagIDsFromSports(rows) ==
  {Sports} \cup SeedFamilies \cup UNION {ToSet(rows[i].tags) : i \in DOMAIN rows}
=============================================================================
