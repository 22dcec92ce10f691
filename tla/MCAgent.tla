------------------------------- MODULE MCAgent -------------------------------
(* Instances of Agent for model checking. *)
EXTENDS Agent

\* One request of each kind that a scene makes, and DESTROY twice.
SomeRequests == {<<"START", 1>>, <<"APPENDSURFACE", 2>>, <<"PLAY", 3>>, <<"DESTROY", 4>>, <<"DESTROY", 5>>, <<"PAUSE", 6>>}
=============================================================================
