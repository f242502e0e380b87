---------------------------- MODULE MCMihModule ----------------------------
(***************************************************************************)
(* MihModule for TLC.                                                      *)
(***************************************************************************)
EXTENDS MihModule

\* Two requests for acknowledgement, so that their order shows.
MCDatagram == {[id |-> 1, kind |-> "ackreq"], [id |-> 2, kind |-> "ackreq"]}

\* One datagram that is answered and one that is not.
MCDatagramKinds == {[id |-> 1, kind |-> "ackreq"], [id |-> 2, kind |-> "foreign"]}

MCLinkEvent == {[id |-> 4, kind |-> "up"]}

\* Everything that the environment can refuse.
MCFaults == FaultName
=============================================================================
