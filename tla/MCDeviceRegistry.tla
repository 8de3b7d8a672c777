---- MODULE MCDeviceRegistry ----
(* Instances of DeviceRegistry for TLC: a speaker with serial number 11 that *)
(* moves between two addresses and was copied under its device id.           *)
EXTENDS DeviceRegistry

MCScans == {"timer", "web"}
MCSpeakers == {"kitchen"}
MCSerialOf == [s \in Speakers |-> 11]

(* DeviceInfo.xml copied into the default account, and into another one. *)
InDefaultAccount == {[id |-> 7, serial |-> 11, ip |-> 1, of |-> "kitchen"]}
InOtherAccount == <<[id |-> 7, serial |-> 11, ip |-> 1, of |-> "kitchen"]>>
Nowhere == {}
NoCopies == <<>>
====
