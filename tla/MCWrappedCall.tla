----------------------------- MODULE MCWrappedCall -----------------------------
(***************************************************************************)
(* Values of the constants of WrappedCall for TLC.                         *)
(***************************************************************************)
EXTENDS WrappedCall

\* Two adapters with gates in either order, and adapters that fill one section.
SomeDeployments ==
  {<<"custom", "lattice">>, <<"lattice", "aegis">>, <<"awm">>,
   <<"acr", "engram">>, <<"parliament", "lewm">>, << >>}

LatticeThenAegis == {<<"lattice", "aegis">>}

SomeSections == {"governance", "intent"}
Filled == {{"governance"}}
BothEvents == {"decision", "outcome"}
=============================================================================
