--------------------------- MODULE MC_StreamGuard ---------------------------
EXTENDS StreamGuard

\* Two choices, each with a text and a tool call.
MCTextOrder == <<"text0", "text1">>
MCToolOrder == <<"tool0", "tool1">>
MCChoiceOf == [text0 |-> 0, tool0 |-> 0, text1 |-> 1, tool1 |-> 1]

ABC == <<"a", "b", "c">>
BD == <<"b", "d">>

\* Canaries alone, overlapping, cut short, in one or several channels; tags
\* whole, unfinished, nested, with a canary inside.
Says(t0, t1, c0, c1) == [text0 |-> t0, text1 |-> t1, tool0 |-> c0, tool1 |-> c1]
MCScripts ==
  {Says(<<"a", "b", "c">>, <<"a", "b">>, <<"a", "b">>, <<>>),
   Says(<<"a", "a", "b", "d", "a">>, <<"b", "d">>, <<"a">>, <<>>),
   Says(<<"a", "b", "a">>, <<>>, <<"a", "b", "d">>, <<"a", "b", "c">>),
   Says(<<"<", "j", "_", "e", "a", ">", "b">>, <<"a", "b">>, <<>>, <<>>),
   Says(<<"<", "_", "j", "a">>, <<"<", "/">>, <<"b", "d">>, <<>>),
   Says(<<"a", "<", "/", "j", "e">>, <<>>, <<>>, <<"b", "a">>),
   Says(<<"b", "<", "<", "j">>, <<"a">>, <<"a">>, <<>>),
   Says(<<"<", "j", "e", "a", "b", "c">>, <<"<", "j", "e", ">">>, <<>>, <<>>),
   Says(<<"a", "b">>, <<"a">>, <<"b", "d">>, <<"a", "b", "d">>),
   Says(<<"<", "e", ">", "<", "_", "/", "_", "j", "e", "<", ">">>, <<>>, <<>>, <<>>),
   Says(<<"a", "b", "<", "j", "e", ">", "c">>, <<>>, <<"a">>, <<"b">>),
   Says(<<"b", "d">>, <<"a", "b", "c">>, <<>>, <<"b">>),
   Says(<<"a", "a", "b", "a", "b", "c", "b", "d">>, <<"<", "j">>, <<>>, <<>>),
   Says(<<>>, <<>>, <<"a", "b", "a", "b", "c">>, <<"<", "j", "e", ">">>)}

MCReserved == <<"j", "e">>

Pattern(id, value) == [id |-> id, tier |-> "A", value |-> value]
MCPolicies == {<<>>,
               <<Pattern("k1", ABC)>>,
               <<Pattern("k1", ABC), Pattern("k2", BD)>>,
               <<Pattern("k1", ABC), Pattern("k1", BD)>>}
MCSecrets == {<<>>, <<Pattern("s1", BD)>>, <<Pattern("s1", <<"a", "b", "c", "d">>)>>}
=============================================================================
