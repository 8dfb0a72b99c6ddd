---------------------------- MODULE MCHostServer ----------------------------
(* Two connections to one address and a USB device, for the runs of HostServer. *)
EXTENDS HostServer

CONSTANT u1

Addresses == [t \in Transports |-> IF t = u1 THEN "usb1" ELSE "addr"]
=============================================================================
