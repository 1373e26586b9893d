------------------------------ MODULE MCUsbUdl ------------------------------
(***************************************************************************)
(* UsbUdl with a few packets, of which the host waits for some answers.    *)
(***************************************************************************)
EXTENDS UsbUdl

MCAnswered == {1, 3}

=============================================================================
