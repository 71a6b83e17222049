-------------------------------- MODULE MCTop --------------------------------
(***************************************************************************)
(* TLC instance of TopMarkets.  So that the product of the two parts stays *)
(* small, each moves only while the other has not begun.                   *)
(***************************************************************************)
EXTENDS TopMarkets

-----------------------------------------------------------------------------
(* The tags have two leagues.  Every pair of short CSVs is an initial      *)
(* state, for what the edges are; the system moves for one pair, in which  *)
(* F is a family since both leagues have it, T and U are the titles of the *)
(* leagues and S is a family that neither has.                             *)

CSV(n) == {s \in UNION {[1..k -> {"sports", "S", "F", "T"}] : k \in 0..n} : IsInjective(s)}

Row(k, s) == [sport |-> k, tags |-> s]

Moving == <<Row("a", <<"F", "T">>), Row("b", <<"sports", "F", "U">>)>>

LeaguePairs == {Moving} \cup {<<Row("a", s), Row("c", r)>> : s \in CSV(3), r \in CSV(3)}

OneInjected == [k \in {"c"} |-> "S"]

\* Two teams of one league: one has the name of a tag of its own, the other the title of
\* the other league.
TwoTeams == {{[league |-> "a", tag |-> "C"], [league |-> "a", tag |-> "U"]}}

-----------------------------------------------------------------------------
priceVars == <<now, stored, plan, last, asked, touched, steady>>

-----------------------------------------------------------------------------
NoTagsYet ==
  /\ rows = Moving /\ at = "idle" /\ topAt = "idle" /\ ~skip /\ queue = {} /\ wm = "none"
  /\ tags = Empty /\ ~leagues /\ ~teams /\ cycles = 0 /\ stops = 0
NoPricesYet == P!Init

TopInit == Init /\ P!Init

TopNext ==
  \/ NoPricesYet /\ rows = Moving /\ Next /\ UNCHANGED priceVars
  \/ NoTagsYet /\ P!Next /\ UNCHANGED vars

TopSpec == TopInit /\ [][TopNext]_<<vars, priceVars>>
=============================================================================
