------------------------------ MODULE EisSetup ------------------------------
(***************************************************************************)
(* The setup of an EIS sender (setupEISender in input/eis.go): handshake,  *)
(* connection, seat, capabilities, enumeration of devices up to the        *)
(* answer of a synchronising request, the wait for devices that are ready, *)
(* and the start of their emulation; afterwards the watcher of             *)
(* input/portal.go sees the events.  The server is external: it may send   *)
(* any event about any device at any time.                                 *)
(***************************************************************************)
EXTENDS Naturals, FiniteSets

CONSTANTS
    None,
    Devices,     \* identities a device may be announced with
    Objects,     \* identities an interface may have; they may be those of
                 \* devices
    Interfaces,  \* ei_keyboard, ei_button, ei_pointer_absolute
    Pointer      \* the one that needs a region

VARIABLES
    phase,     \* where setupEISender is; "live" and "revoked" after it
    caps,      \* interfaces the seat has offered
    devices,   \* s.devices
    synced,    \* whether the callback has been answered
    chosen     \* the device selected for each interface

evars == <<phase, caps, devices, synced, chosen>>

NewDevice == [ifaces |-> [i \in Interfaces |-> None], region |-> FALSE,
              done |-> FALSE, resumed |-> FALSE]
DeviceRecords == [ifaces : [Interfaces -> Objects \cup {None}], region : BOOLEAN,
                  done : BOOLEAN, resumed : BOOLEAN]

\* None is no identity and no device.
ASSUME EisAssumption == None \notin Devices \cup Objects \cup DeviceRecords

Announced == {d \in Devices : devices[d] # None}
Taken == Announced \cup {devices[d].ifaces[i] : d \in Announced, i \in Interfaces}

EisInit ==
    /\ phase = "handshake" /\ caps = {} /\ synced = FALSE
    /\ devices = [d \in Devices |-> None] /\ chosen = [i \in Interfaces |-> None]

\* A stream that ends, a context that ends, a malformed or unexpected message
SetupFails ==
    /\ phase \notin {"live", "revoked", "failed"}
    /\ phase' = "failed" /\ UNCHANGED <<caps, devices, synced, chosen>>

\* The version event, the connection and the seat, one after the other
Greet ==
    /\ phase \in {"handshake", "connection", "seat"}
    /\ phase' = CASE phase = "handshake" -> "connection" [] phase = "connection" -> "seat"
                  [] OTHER -> "caps"
    /\ UNCHANGED <<caps, devices, synced, chosen>>

Capability(i) ==
    /\ phase = "caps" /\ caps' = caps \cup {i}
    /\ UNCHANGED <<phase, devices, synced, chosen>>

\* The seat is complete: all interfaces are required (scrolling and text, which
\* are not, are left out), bound, and a callback asked for.
SeatDone ==
    /\ phase = "caps"
    /\ phase' = IF caps = Interfaces THEN "devices" ELSE "failed"
    /\ UNCHANGED <<caps, devices, synced, chosen>>

\* consumeSetupEvent.  A device or an interface with an identity that is taken
\* ends the setup, and so does one more capability of a device that is done.
Consuming == phase = "devices"
AnnounceDevice(d) ==
    /\ Consuming
    /\ IF d \in Taken THEN phase' = "failed" /\ UNCHANGED devices
       ELSE devices' = [devices EXCEPT ![d] = NewDevice] /\ UNCHANGED phase
    /\ UNCHANGED <<caps, synced, chosen>>

AddInterface(d, i, o) ==
    /\ Consuming /\ d \in Announced
    /\ IF devices[d].done \/ devices[d].ifaces[i] # None \/ o \in Taken
       THEN phase' = "failed" /\ UNCHANGED devices
       ELSE devices' = [devices EXCEPT ![d].ifaces[i] = o] /\ UNCHANGED phase
    /\ UNCHANGED <<caps, synced, chosen>>

AddRegion(d) ==
    /\ Consuming /\ d \in Announced
    /\ IF devices[d].done THEN phase' = "failed" /\ UNCHANGED devices
       ELSE devices' = [devices EXCEPT ![d].region = TRUE] /\ UNCHANGED phase
    /\ UNCHANGED <<caps, synced, chosen>>

\* The other events of a device during the setup; the one that says that the
\* device is destroyed is not looked at.
DeviceEvent(d, event) ==
    /\ Consuming /\ d \in Announced
    /\ devices' = CASE event = "done" -> [devices EXCEPT ![d].done = TRUE]
                    [] event = "resumed" -> [devices EXCEPT ![d].resumed = TRUE]
                    [] event = "paused" -> [devices EXCEPT ![d].resumed = FALSE]
                    [] OTHER -> devices
    /\ UNCHANGED <<phase, caps, synced, chosen>>

Callback ==
    /\ Consuming /\ ~synced /\ synced' = TRUE
    /\ UNCHANGED <<phase, caps, devices, chosen>>

\* devicesReady
Usable(d, i) ==
    /\ devices[d].done /\ devices[d].resumed /\ devices[d].ifaces[i] # None
    /\ i = Pointer => devices[d].region
Ready == \A i \in Interfaces : \E d \in Announced : Usable(d, i)

\* The selection of devicesReady: for each interface any usable device, where
\* the code takes the first in the order of their identities.
Select ==
    /\ Consuming /\ synced /\ Ready
    /\ \E c \in [Interfaces -> Announced] :
          (\A i \in Interfaces : Usable(c[i], i)) /\ chosen' = c
    /\ phase' = "live"
    /\ UNCHANGED <<caps, devices, synced>>

\* Mutant of LifecycleFailure: a pause is no failure.
LifecycleDestroyed(d, event) == event = "destroyed" /\ \E i \in Interfaces : chosen[i] = d

\* isSelectedDevicePaused and isEISLifecycleFailure
LifecycleFailure(d, event) ==
    event \in {"paused", "destroyed"} /\ \E i \in Interfaces : chosen[i] = d

\* watchLifecycle
WatchEvent(d, event) ==
    /\ phase = "live" /\ d \in Announced
    /\ devices' = [devices EXCEPT ![d].resumed = event = "resumed"]
    /\ phase' = IF LifecycleFailure(d, event) THEN "revoked" ELSE phase
    /\ UNCHANGED <<caps, synced, chosen>>

EisNext ==
    \/ SetupFails \/ Greet \/ SeatDone \/ Callback \/ Select
    \/ \E i \in Interfaces : Capability(i)
    \/ \E d \in Devices :
          \/ AnnounceDevice(d) \/ AddRegion(d)
          \/ \E i \in Interfaces, o \in Objects : AddInterface(d, i, o)
          \/ \E event \in {"done", "resumed", "paused", "destroyed"} : DeviceEvent(d, event)
          \/ \E event \in {"resumed", "paused", "destroyed"} : WatchEvent(d, event)

EisSpec == EisInit /\ [][EisNext]_evars

-----------------------------------------------------------------------------
\* Input goes only to devices whose enumeration was complete, that are resumed,
\* and whose identities no other object has, as long as the session is live
\* (devicesReady, isReservedEISObject, isEISLifecycleFailure).  A device may
\* have been destroyed before it was selected.
OnlyUsableDevices ==
    phase = "live" =>
        /\ \A i \in Interfaces : Usable(chosen[i], i)
        /\ \A d, e \in Announced, i, j \in Interfaces :
              /\ devices[d].ifaces[i] # None => devices[d].ifaces[i] \notin Announced
              /\ devices[d].ifaces[i] = devices[e].ifaces[j] /\ devices[d].ifaces[i] # None =>
                    d = e /\ i = j
=============================================================================
