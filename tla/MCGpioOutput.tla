---------------------------- MODULE MCGpioOutput ---------------------------
(* GpioOutput under a schedule with every value an event may hold.           *)
EXTENDS GpioOutput

MCRequests == SwitchValues \cup {OtherType}

=============================================================================
