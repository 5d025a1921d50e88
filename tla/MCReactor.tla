------------------------------ MODULE MCReactor ------------------------------
(***************************************************************************)
(* Reactor on two descriptors: a handler that only reads (an acceptor, a   *)
(* listener of requests) and one that reads and writes (a connection).     *)
(***************************************************************************)
EXTENDS Reactor

MCMasks == [a |-> {{"read"}}, b |-> {{"read"}, {"write"}}]
=============================================================================
