----------------------------- MODULE MCPbfRead ------------------------------
(***************************************************************************)
(* Files of a header and up to two data blobs, each of up to two groups;   *)
(* the groups hold dense nodes with no, one and three tags, plain nodes,   *)
(* ways, relations, two types at once, or nothing.  vex gives all three    *)
(* callbacks, the reader's own example those for nodes and ways.           *)
(***************************************************************************)
EXTENDS PbfRead

T(k) == <<k, k + 1>>
Node(i, l, tags) == [type |-> "NODE", id |-> i, lat |-> l, tags |-> tags]
AWay(i) == [type |-> "WAY", id |-> i]
Rel(i)  == [type |-> "RELATION", id |-> i]

Empty == [nodes |-> <<>>, dense |-> NoDense, ways |-> <<>>, relations |-> <<>>]
Dense1 == [Empty EXCEPT !.dense = <<Node(5, 2, <<T(1)>>), Node(7, -1, <<>>),
                                    Node(6, 3, <<T(1), T(3), T(5)>>), Node(9, 3, <<T(2)>>)>>]
Dense2 == [Empty EXCEPT !.dense = <<Node(1, 1, <<>>), Node(2, 2, <<>>)>>]
Plain  == [Empty EXCEPT !.nodes = <<Node(3, 4, <<T(1)>>)>>]
TwoWays == [Empty EXCEPT !.ways = <<AWay(1), AWay(2)>>]
Rels   == [Empty EXCEPT !.relations = <<Rel(1)>>]
Mixed  == [Empty EXCEPT !.dense = Dense2.dense, !.ways = <<AWay(3)>>]
MCGroups == {Dense1, Dense2, Plain, TwoWays, Rels, Mixed, Empty}

\* Four units of memory, all of the slab.
Fit == [header |-> <<1>>, blob |-> <<1>>, block |-> <<1, 1>>]
\* Allocations that begin at the end of the slab, or end behind it.
Large == {[Fit EXCEPT !.header = <<4, 1>>], [Fit EXCEPT !.header = <<4>>],
          [Fit EXCEPT !.header = <<5>>],
          [Fit EXCEPT !.blob = <<4>>], [Fit EXCEPT !.block = <<2, 1>>],
          [Fit EXCEPT !.block = <<1, 2>>]}

Blob1(type, body, gs) == [type |-> type, body |-> body, groups |-> gs, sizes |-> Fit]
Header   == Blob1("OSMHeader", "ok", <<>>)
Other    == Blob1("other", "ok", <<>>)
Data(gs) == Blob1("OSMData", "ok", gs)
Bad(b)   == Blob1("OSMData", b, <<>>)

MCCallbacks == {{"NODE", "WAY", "RELATION"}, {"NODE", "WAY"}, {"WAY"}}

MCFiles ==
  {<<Header, Data(gs), Data(<<h>>)>> : gs \in BoundedSeq(MCGroups, 2), h \in MCGroups}
  \cup {<<Header, Other, Data(<<g>>), Bad(b)>> : g \in MCGroups,
                              b \in {"unparsable", "no data", "bad block"}}
  \cup {<<Header, Data(<<g>>), [b EXCEPT !.sizes = l]>> :
          g \in {Dense1, TwoWays}, b \in {Data(<<Rels>>), Other}, l \in Large}
  \cup {<<Blob1("OSMHeader", "bad block", <<>>)>>}
  \cup {<<Data(<<g>>)>> : g \in MCGroups}
=============================================================================
