--------------------------- MODULE DeviceTracker ---------------------------
(***************************************************************************)
(* The device trackers of transport.cpp: clients of host:track-devices are *)
(* sent the list of devices when they connect and whenever                 *)
(* update_transports is called.  told is the last list a client has been   *)
(* sent; that the bytes reach it is the subject of AdbSockets.             *)
(***************************************************************************)
EXTENDS Devices

CONSTANT Trackers       \* clients of host:track-devices

VARIABLES
    trk,     \* a tracker: "none", "on" or "closed"
    client,  \* its client: "up", or "down" when it has gone and the server has not noticed
    told     \* the last list sent to it

trackers == <<trk, client, told>>

\* list_transports, of the devices S that it finds: they and their states, as far as 1024
\* bytes go.
Listing(S) == [t \in S |-> conn[t]]
Listings == UNION {[S -> States] : S \in SUBSET Transports}

TrackerType ==
    /\ trk \in [Trackers -> {"none", "on", "closed"}]
    /\ client \in [Trackers -> {"up", "down"}]
    /\ told \in [Trackers -> Listings]

TrackerInit ==
    /\ trk = [k \in Trackers |-> "none"] /\ client = [k \in Trackers |-> "up"]
    /\ told = [k \in Trackers |-> << >>]

\* update_transports: every tracker is sent the list; one whose client is gone is closed
\* by the failed write.
UpdateTransports ==
    /\ trk' = [k \in Trackers |-> IF trk[k] = "on" /\ client[k] = "down"
                                    THEN "closed" ELSE trk[k]]
    /\ \E S \in Walks' :
         told' = [k \in Trackers |-> IF trk'[k] = "on" THEN Listing(S)' ELSE << >>]
    /\ UNCHANGED client

\* create_device_tracker, and device_tracker_ready, which the smart socket calls at once.
Track(k) ==
    /\ trk[k] = "none"
    /\ trk' = [trk EXCEPT ![k] = "on"]
    /\ \E S \in Walks : told' = [told EXCEPT ![k] = Listing(S)]
    /\ UNCHANGED client

ClientLeaves(k) ==
    /\ trk[k] = "on" /\ client[k] = "up"
    /\ client' = [client EXCEPT ![k] = "down"] /\ UNCHANGED <<trk, told>>

\* device_tracker_close: the client has closed, or has sent something
\* (device_tracker_enqueue).
TrackerClose(k) ==
    /\ trk[k] = "on"
    /\ trk' = [trk EXCEPT ![k] = "closed"] /\ told' = [told EXCEPT ![k] = << >>]
    /\ UNCHANGED client
=============================================================================
