------------------------------- MODULE MCSoc --------------------------------
(* An instance of Soc for TLC: the functions a .cfg cannot write down.       *)
EXTENDS Soc, TLC

MCHighHz == 0 :> 8 @@ 1 :> 4
MCMidHz == 0 :> 4
MCTauLine == 0 :> INTTM00 @@ 1 :> INTTM01
MCSauLine == 0 :> INTST0 @@ 1 :> INTSR0
MCSauErrLine == 0 :> INTSRE0 @@ 1 :> INTSRE0
MCBitCycles == 0 :> 1 @@ 1 :> 2
MCFrameBits == 0 :> 2
MCAdcClocks ==
    0 :> [conversion |-> 1, divider |-> [slow \in BOOLEAN |-> IF slow THEN 2 ELSE 1],
          wakeup |-> [slow \in BOOLEAN |-> IF slow THEN 1 ELSE 2]]
MCMaxAccesses ==
    [g \in AllGuests |-> IF g \in {"serial", "converter", "interrupts"} THEN 2 ELSE 3]

\* Channel 0 sends and channel 1 receives, as the firmware sets them up.
MCSerialInits ==
    {SauAt([ch \in SauChannels |->
                [ResetSettings EXCEPT !.txe = (ch = 0), !.rxe = (ch = 1)]],
           SauChannels, {0})}
=============================================================================
