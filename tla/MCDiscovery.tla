---------------------------- MODULE MCDiscovery ----------------------------
(* Discovery on small instances. *)
EXTENDS Discovery

\* Two modules of one name in different packages; test files may write either in full,
\* the name alone, or a package.
TwoModules == {<<"src", "ops">>, <<"lib", "ops">>}

Paths == {<<"src", "ops">>, <<"ops">>, <<"src">>}
=============================================================================
