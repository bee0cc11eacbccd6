---------------------------- MODULE MCFragments ----------------------------
(* Two slots, three datagrams with keys of their own. *)
EXTENDS Fragments

CONSTANTS d1, d2, d3

MCDatagram == {d1, d2, d3}
MCKeyOf    == [d \in MCDatagram |-> d]
MCPortsOf  == [d \in MCDatagram |->
                 IF d = d1 THEN <<1, 2>> ELSE IF d = d2 THEN <<3, 4>> ELSE <<5, 6>>]
=============================================================================
