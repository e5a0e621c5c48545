------------------------------ MODULE MCRoutes -------------------------------
\* An instance of Routes for TLC.
EXTENDS Routes

x == Token("x")
slash == Token("/")
dot == Token(".")

\* x, x/x, a name that reads "x%2Fx", xx, and what no client may put into a
\* path or the gateway refuses.
Names ==
  {<<x>>, <<x, slash, x>>, <<x, Coded("/", 1), x>>, <<x, x>>,
   <<>>, <<dot>>, <<dot, dot>>, <<Token("51 characters")>>}

Ids == {<<Canonical>>, <<Token("ID")>>, <<Token("idhex")>>, <<x>>,
        <<Canonical, slash, Token("img")>>}

MCEnrolled == {<<x>>, <<x, slash, x>>, <<x, Coded("/", 1), x>>, <<x, x>>}
MCPictured == <<x>>
=============================================================================
