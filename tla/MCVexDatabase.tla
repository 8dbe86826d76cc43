--------------------------- MODULE MCVexDatabase ----------------------------
(***************************************************************************)
(* Small instances.  Coordinates run from -4 to 3 in bins of two; nodes 1  *)
(* and 2 share a cell north-east of the origin, node 3 lies south-west.    *)
(* Way lists share nodes, close on themselves, and begin with node 4,      *)
(* which no input holds.                                                   *)
(***************************************************************************)
EXTENDS VexDatabase

P(x, y) == [x |-> x, y |-> y]
Box(x1, y1, x2, y2) == [min |-> P(x1, y1), max |-> P(x2, y2)]

\* Delta coding, as PBF files hold ids.
Deltas(ids) == [i \in 1 .. Len(ids) |-> IF i = 1 THEN ids[1] ELSE ids[i] - ids[i - 1]]
Node(id, p, tags)   == [type |-> "NODE", id |-> id, coord |-> p, tags |-> tags]
AWay(id, ids, tags) == [type |-> "WAY", id |-> id, refs |-> Deltas(ids), tags |-> tags]
Rel(id, ms, tags)   ==
  LET d == Deltas([i \in 1 .. Len(ms) |-> ms[i][2]])
  IN  [type |-> "RELATION", id |-> id, tags |-> tags,
       members |-> [i \in 1 .. Len(ms) |->
                      [type |-> ms[i][1], id |-> d[i], role |-> ms[i][3]]]]
N(i) == <<"NODE", i, "outer">>
W(i) == <<"WAY", i, "">>
R(i) == <<"RELATION", i, "part">>

\* A few of the strings in the tables.
MCTables == <<[key |-> "highway", vals |-> <<"residential", "road">>],
              [key |-> "landuse", vals |-> <<"residential", "farmland", "farm">>]>>
MCFreeKeys == <<"name", "highway">>
MCRoles    == <<"forward", "outer">>
MCBegins   == {<<"farm", "farmland">>, <<"source", "source:date">>,
               <<"", "forward">>, <<"", "outer">>}

T(key, val) == [key |-> key, val |-> val]
Stop == <<T("highway", "stop")>>
Road == <<T("highway", "road")>>
Rail == <<T("source", "survey"), T("railway", "rail")>>
Town == <<T("landuse", "residential"), T("name", "Ham")>>
Farm == <<T("landuse", "farm")>>

Nodes == <<Node(1, P(0, 1), Stop), Node(2, P(1, 1), <<T("source:date", "2014")>>),
           Node(3, P(-1, -3), <<>>)>>

Way1 == {<<1>>, <<2, 1, 2>>, <<4, 1>>}
Way2 == {<<1, 3>>, <<3, 2, 3>>}
Rel1 == {<<>>, <<W(1)>>, <<N(1), W(1)>>, <<R(9), N(1)>>, <<N(3), W(2), W(1)>>}
Rel2 == {<<N(2), W(2)>>, <<W(2), N(1)>>}

Loads == {Nodes \o <<AWay(1, a, Road), AWay(2, b, Rail), Rel(1, r, Town), Rel(2, s, Farm)>> :
            a \in Way1, b \in Way2, r \in Rel1, s \in Rel2}
\* Ids past the limits, a third tag list that goes past the first subfile, and
\* one that begins at its end.
Refused == {Nodes \o <<AWay(MAX_WAY_ID, <<1>>, <<>>)>>,
            <<Node(MAX_NODE_ID, P(0, 0), <<>>)>>,
            Nodes \o <<AWay(1, <<1>>, Road), Rel(MAX_REL_ID, <<N(1)>>, <<>>)>>,
            <<Node(1, P(0, 1), Stop), Node(2, P(1, 1), Stop), Node(3, P(2, 2), Stop)>>,
            <<Node(1, P(0, 1), Rail), Node(2, P(1, 1), Rail), Node(3, P(2, 2), Road)>>}
\* A way without nodes follows a whole one, or two.
EmptyWay   == {Nodes \o <<AWay(1, a, <<>>), AWay(2, <<>>, <<>>)>> : a \in Way1}
EmptyThird == {Nodes \o <<AWay(1, <<2, 1>>, <<>>), AWay(2, b, <<>>), AWay(3, <<>>, <<>>)>> :
                 b \in Way2}
MCInputs == Loads \cup Refused \cup EmptyWay \cup EmptyThird
MCBoxes  == {Box(0, 0, 3, 3), Box(1, 1, 2, 2), Box(-4, -4, -1, -1), Box(0, -4, 1, -1),
              Box(-4, -2, -3, -1)}

MixedInputs == EmptyWay \cup {Nodes \o <<AWay(1, <<2, 1, 2>>, <<>>), AWay(2, <<1>>, <<>>),
                                Rel(1, <<N(1), W(1)>>, Farm), Rel(2, s, <<>>)>> : s \in Rel2}
\* Boxes with zero inside.
ZeroBoxes == {Box(-2, 0, 2, 3)}
=============================================================================
