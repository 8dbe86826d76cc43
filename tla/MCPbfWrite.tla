----------------------------- MODULE MCPbfWrite -----------------------------
(***************************************************************************)
(* Up to two nodes, three ways and two relations in blocks of two: full    *)
(* blocks, blocks flushed at the end of a stage, and stages without        *)
(* elements.  Elements share strings; three tags do not fit beside one.    *)
(***************************************************************************)
EXTENDS PbfWrite

E(type, id, tags, ids, roles) ==
  [type |-> type, id |-> id, tags |-> tags, ids |-> ids, roles |-> roles]

SomeTags == {<<>>, <<<<"a", "b">>>>, <<<<"c", "a">>, <<"b", "b">>>>,
            <<<<"a", "a">>, <<"b", "c">>, <<"c", "c">>>>}
FewTags == {<<>>, <<<<"c", "a">>>>}

MCExtracts ==
  {SubSeq(<<E("NODE", 1, a, <<>>, <<>>), E("NODE", 2, b, <<>>, <<>>)>>, 1, nodes)
   \o SubSeq(<<E("WAY", 1, c, <<4, 1, -4>>, <<>>),
               E("WAY", 2, <<<<"b", "a">>>>, <<-2>>, <<>>),
               E("WAY", 3, d, <<1, -2>>, <<>>)>>, 1, ways)
   \o SubSeq(<<E("RELATION", 1, d, <<3, 1, -1>>, <<"b", "c", "b">>),
               E("RELATION", 2, a, <<-2>>, <<"a">>)>>, 1, rels) :
     a \in SomeTags, b \in FewTags, c \in SomeTags, d \in FewTags,
     nodes \in 0 .. 2, ways \in 0 .. 3, rels \in 0 .. 2}
=============================================================================
