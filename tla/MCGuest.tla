------------------------------ MODULE MCGuest ------------------------------
(* An instance of Guest for TLC: six addresses below the last one, pages of   *)
(* two.  RAM and flash fill whole pages, as the boards' do; devices without   *)
(* memory, and aliases of one address, may start anywhere in a page.          *)
EXTENDS Guest, TLC

Pages == {0, 2, 4}
MCDevices == Pages \X {2, 4} \X {"ram", "rom"} \cup {3, 4} \X {1, 2} \X {"mmio"}
MCAliases == Pages \X Pages \X {2} \cup {0, 5} \X (0..5) \X {1}
MCAddresses == {0, 3, 5}
=============================================================================
