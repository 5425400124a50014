------------------------ MODULE MCNamespaceInjection ------------------------
(***************************************************************************)
(* Small instances of the namespace mapping: one DynaKube injects into the *)
(* first namespace and exports from the second, another waits for some.    *)
(***************************************************************************)
EXTENDS NamespaceInjection

CONSTANTS n1, n2

FirstInjectsSecondExports == {<<"a", "bootstrap", n1>>, <<"a", "otlp", n2>>}
SecondExports == {<<"b", "bootstrap">>}
=============================================================================
