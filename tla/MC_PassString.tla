--------------------------- MODULE MC_PassString ---------------------------
EXTENDS PassString, ImportStrings

\* Every string of up to two code units (every class, surrogate pairs, lone
\* and reversed surrogates), and every three-unit string with an ASCII
\* prefix, so that realloc runs on what follows the ASCII loop.
MC_Strings == UNION {[1 .. n -> Units] : n \in 0 .. 2}
                \cup {<<"A">> \o s : s \in [1 .. 2 -> Units]}

\* JS values of every branch of debugString: strings with a two-byte
\* unit, a surrogate pair and a lone surrogate; a symbol with and without
\* a description; named and anonymous functions; empty, flat and nested
\* arrays; an object JSON.stringify renders and one it throws on; an
\* Error; a Map. The texts are as the engine gives them: "7", "null",
\* "undefined", "{}", "Error", "Map".
MC_DebugValues ==
  LET seven == Prim(Lit(1))
      nul == Prim(Lit(4))
      undef == Prim(Lit(9))
  IN {seven, nul, undef, Str(<<"B">>), Str(<<"H", "L">>), Str(<<"L">>),
      Symbol(None), Symbol(Some(<<"C">>)), Fun(<<>>), Fun(<<"A">>),
      Arr(<<>>), Arr(<<Str(<<"B">>), seven>>), Arr(<<undef, Arr(<<Str(<<"H">>)>>), nul>>),
      Obj(Some(Lit(2))), Obj(None), Err(Lit(5), <<"C">>, Lit(5)), BuiltIn(Lit(3))}

\* One argument of any kind, or two where one is optional: an absent
\* argument after a present one reads the stale WASM_VECTOR_LEN.
\* The strings the debug_string and string_get imports pass.
MC_Inputs ==
  {<<a>> : a \in {None} \cup {Some(s) : s \in MC_Strings}}
    \cup {<<Some(s), None>> : s \in MC_Strings}
    \cup {<<None, Some(s)>> : s \in MC_Strings}
    \cup {<<DebugStringArg(v)>> : v \in MC_DebugValues}
    \cup {<<StringGetArg(v)>> : v \in MC_DebugValues}

MC_MaxGen == 3
=============================================================================
