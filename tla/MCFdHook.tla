------------------------------ MODULE MCFdHook ------------------------------
(* Identifiers of one and two characters for model checking FdHook.        *)
EXTENDS FdHook

ShortWords == {<<"a">>, <<"b">>, <<"b", "a">>}
=============================================================================
