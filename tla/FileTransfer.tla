---------------------------- MODULE FileTransfer ----------------------------
(***************************************************************************)
(* What "adb push" and "adb sync" promise of the files that can be read    *)
(* and replaced: such a file on the device is what it was, or absent, or   *)
(* stored as a whole, and a command that reports success has stored every  *)
(* one it was given.  Only a device that dies during a transfer leaves     *)
(* part of one.                                                            *)
(***************************************************************************)
EXTENDS Naturals

CONSTANTS
    Files,
    Contents,      \* what each file may be
    Stored,        \* what it is when it is stored
    Absent         \* no file

VARIABLES
    dst,           \* the files of the device, absent while they are written
    want,          \* the files of the last command
    answer,        \* what it has reported: "none", "okay" or "error"
    deaths         \* how often the device has died

tvars == <<dst, want, answer, deaths>>

\* The files of a device.
Directories == {d \in [Files -> UNION {Contents[f] : f \in Files}] :
                  \A f \in Files : d[f] \in Contents[f]}

TransferInit == dst \in Directories /\ want = {} /\ answer = "none" /\ deaths = 0

\* A command begins, after the end of the one before.
Begin ==
    /\ answer # "none" \/ want = {}
    /\ want' \subseteq Files /\ answer' = "none" /\ UNCHANGED <<dst, deaths>>

\* The old file goes.
Replace(f) == dst' = [dst EXCEPT ![f] = Absent] /\ UNCHANGED <<want, answer, deaths>>

\* The new one is there, as a whole.
Store(f) ==
    /\ dst[f] = Absent
    /\ dst' = [dst EXCEPT ![f] = Stored[f]]
    /\ UNCHANGED <<want, answer, deaths>>

\* The device dies, perhaps in the middle of a file.
Crash ==
    /\ deaths' = deaths + 1
    /\ dst' \in Directories
    /\ \A f \in Files : dst'[f] = dst[f] \/ dst[f] = Absent
    /\ UNCHANGED <<want, answer>>

\* The command ends.
Report ==
    /\ answer = "none"
    /\ \/ answer' = "okay" /\ \A f \in want : dst[f] = Stored[f]
       \/ answer' = "error"
    /\ UNCHANGED <<dst, want, deaths>>

TransferNext == Begin \/ (\E f \in Files : Replace(f) \/ Store(f)) \/ Crash \/ Report

TransferSpec == TransferInit /\ [][TransferNext]_tvars
=============================================================================
