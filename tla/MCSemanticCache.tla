-------------------------- MODULE MCSemanticCache ---------------------------
EXTENDS SemanticCache

\* Sequences that share their first one or two tokens, contain each other, or
\* have nothing in common.
MCQueries ==
  {<<>>, <<"a">>, <<"a", "b">>, <<"a", "b", "a">>, <<"a", "b", "b">>,
   <<"a", "a", "b">>, <<"b", "a">>, <<"b", "a", "b", "a", "b">>}
=============================================================================
