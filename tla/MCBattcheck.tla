---------------------------- MODULE MCBattcheck ----------------------------
(* Two batteries on either side of another device.                         *)
EXTENDS Battcheck
Walk == <<"bat0", "lid", "bat1">>
Info == [b \in {"bat0", "bat1"} |->
           IF b = "bat0" THEN [full |-> 3, warning |-> 1, low |-> 0]
                         ELSE [full |-> 2, warning |-> 1, low |-> 1]]
Words == {{}, {"discharging"}, {"charging"}}
=============================================================================
