----------------------------- MODULE UsbDevices -----------------------------
(***************************************************************************)
(* usb_windows.cpp on the driver interface of adb_api.cpp: handle_list,    *)
(* the thread that polls for the device, and the end of a usb_handle.      *)
(* There is one interface name, "custom interface", and one device,        *)
(* "AID1:", which is opened for exclusive use.  A handle is named after    *)
(* the transport made for it.                                              *)
(***************************************************************************)
EXTENDS Naturals, FiniteSets

CONSTANTS
    Transports,   \* atransports; one that is freed is allocated again
    Usb,          \* those for the USB device
    None

VARIABLES
    present,   \* the device is plugged in (external)
    poll,      \* where device_poll_thread is in find_devices
    cur,       \* the handle it has opened
    halloc,    \* handles that are allocated
    opened,    \* those with an interface_name and open pipes
    hlist      \* handle_list

usb == <<present, poll, cur, halloc, opened, hlist>>

UsbType ==
    /\ present \in BOOLEAN /\ poll \in {"idle", "open", "register", "announce"}
    /\ cur \in Transports \cup {None}
    /\ halloc \subseteq Transports /\ opened \subseteq Transports /\ hlist \subseteq Transports

UsbInit ==
    /\ present \in BOOLEAN /\ poll = "idle" /\ cur = None
    /\ halloc = {} /\ opened = {} /\ hlist = {}

\* known_device_locked: a handle that has been kicked has no name and is not found.
KnownDevice == hlist \cap opened # {}

-----------------------------------------------------------------------------
(* find_devices, every second *)

PollKnown ==
    /\ poll = "idle" /\ ~KnownDevice
    /\ poll' = "open"
    /\ UNCHANGED <<present, cur, halloc, opened, hlist>>

\* do_usb_open: AID1: cannot be opened while another handle to it is open.
PollOpen(t) ==
    /\ poll = "open"
    /\ IF present /\ opened = {}
         THEN /\ poll' = "register" /\ cur' = t
              /\ halloc' = halloc \cup {t} /\ opened' = opened \cup {t}
         ELSE poll' = "idle" /\ UNCHANGED <<cur, halloc, opened>>
    /\ UNCHANGED <<present, hlist>>

\* register_new_device, which looks at the list again; a handle it refuses is freed.
PollRegister ==
    /\ poll = "register"
    /\ IF KnownDevice
         THEN /\ poll' = "idle" /\ cur' = None
              /\ halloc' = halloc \ {cur} /\ opened' = opened \ {cur}
              /\ UNCHANGED hlist
         ELSE /\ poll' = "announce" /\ hlist' = hlist \cup {cur}
              /\ UNCHANGED <<cur, halloc, opened>>
    /\ UNCHANGED present

-----------------------------------------------------------------------------
(* The end of a handle *)

\* A mutant of UsbKick: the name is cleared and the pipes are left to usb_close.
UsbKick_LeavesPipes(t) == hlist' = hlist \ {t} /\ UNCHANGED opened
\* usb_kick: usb_cleanup_handle under usb_lock, by t->kick and by a read or a write that
\* finds the handle invalid.
UsbKick(t) == opened' = opened \ {t} /\ UNCHANGED hlist

\* usb_close: off the list, cleaned up, freed.
UsbClose(t) ==
    /\ hlist' = hlist \ {t}
    /\ opened' = opened \ {t} /\ halloc' = halloc \ {t}
=============================================================================
