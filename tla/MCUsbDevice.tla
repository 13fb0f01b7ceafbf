------------------------------ MODULE MCUsbDevice ------------------------------
(* One payload value, a host that makes up to three changes and three       *)
(* control requests, the highest two volumes that the range of the          *)
(* feature unit advertises, and a trace that holds two entries.             *)
EXTENDS UsbDevice

MCLevels == {-256, 0}
================================================================================
