-------------------------------- MODULE MCPS2 --------------------------------
(* Firmware leaves translation and interrupts on, with or without the clock  *)
(* of the second port.  Devices: absent, broken, keyboard, mouse with an id. *)
EXTENDS PS2Controller

Firmware == {65, 103}
Replies == {<<>>, <<252>>, <<170, 250>>, <<250, 170, 0>>}
=============================================================================
