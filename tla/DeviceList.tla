------------------------------ MODULE DeviceList ------------------------------
(***************************************************************************)
(* engine/DVDevice: which of the video capture devices there are, and      *)
(* which of them are DV camcorders.  A device is its FriendlyName, or      *)
(* NoName if its property bag cannot be read, and the bus that its         *)
(* DevicePath begins with, or NoPath.                                      *)
(***************************************************************************)
EXTENDS Sequences, SequencesExt

NoName == "no name"
NoPath == "no path"

\* What ForEachVideoDevice visits.
VideoDevices(attached) ==
    SelectSeq(attached, LAMBDA device : device.name # NoName)

IsDVDevicePath(path) == path \in {"avc#", "61883#"}

Names(devices) == [i \in DOMAIN devices |-> devices[i].name]

\* "Unusual DV hardware on another bus shouldn't leave the list empty."
GetVideoDeviceList(attached) ==
    LET all == VideoDevices(attached)
        dv == SelectSeq(all, LAMBDA device : IsDVDevicePath(device.path))
    IN  Names(IF dv = <<>> THEN all ELSE dv)

\* The place of the first device with that name; 0 if it is not found.
FindVideoDevice(device, attached) ==
    SelectInSeq(attached, LAMBDA found : found.name = device)
=============================================================================
