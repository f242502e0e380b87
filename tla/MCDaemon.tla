------------------------------- MODULE MCDaemon ------------------------------
(* Two connections and a datagram, two worker threads, and the lists that   *)
(* getaddrinfo returns: that of a system without raw sockets in it, that of *)
(* the GNU C library (on a host with IPv4 only), and none.                  *)
EXTENDS Daemon, TLC

CONSTANTS c1, c2, d1

MCEntry(family, socktype) == [family |-> family, socktype |-> socktype]

\* A host with IPv6 only, and a library that does not list raw sockets.
MCV6 == << MCEntry("AF_INET6", "SOCK_STREAM"), MCEntry("AF_INET6", "SOCK_DGRAM") >>

\* The entries for IPv4 of the GNU C library.
MCGlibc ==
  << MCEntry("AF_INET", "SOCK_STREAM"), MCEntry("AF_INET", "SOCK_DGRAM"),
     MCEntry("AF_INET", "SOCK_RAW") >>

MCHost ==
  {[addrinfo |-> MCV6, hup |-> FALSE], [addrinfo |-> MCGlibc, hup |-> TRUE],
   [addrinfo |-> << >>, hup |-> FALSE]}

MCSaFlags == {{"SA_RESETHAND"}}

MCMsg ==
  (c1 :> StructOctets(ClientHeader(1, 2))) @@ (c2 :> << >>)
    @@ (d1 :> StructOctets(ClientHeader(2, 4)))
=============================================================================
