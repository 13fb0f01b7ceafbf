------------------------------ MODULE MCUsbConfig ------------------------------
(* Two payload values; a host that makes up to five configuration changes.  *)
EXTENDS UsbConfig

MCValues == {24, 25}
================================================================================
