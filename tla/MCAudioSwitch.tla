--------------------------- MODULE MCAudioSwitch ----------------------------
(* Model-checking instance: two of the three toggles (no two are ever on,  *)
(* so a third adds nothing but names), three pids, and up to two shells    *)
(* that are about to kill the same one.                                     *)
EXTENDS AudioSwitch
MCAddress == [s \in {"desktop", "client"} |->
                IF s = "desktop" THEN "10.0.0.17" ELSE "10.0.0.11"]
MCAddresses == {"10.0.0.17", "10.0.0.11", "10.0.0.20"}
=============================================================================
