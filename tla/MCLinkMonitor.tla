---------------------------- MODULE MCLinkMonitor ----------------------------
(* An Ethernet and a wireless device, and one of another type.              *)
EXTENDS LinkMonitor

CONSTANTS eth0, wlan0, lo

MCDevice == {eth0, wlan0, lo}
=============================================================================
