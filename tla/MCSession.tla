------------------------------ MODULE MCSession ------------------------------
(* Model-checking instances of Session: buffer sizes are 64 KiB / 48 KiB /  *)
(* 16 KiB scaled to 4 / 3 / 1 units, so a 32 KiB read is 2 units.           *)
EXTENDS Session

MCRatesNone == [d \in Dirs |-> [f \in {"drop", "halfClose", "stall"} |-> "zero"]]
MCRatesStall == [d \in Dirs |-> [f \in {"drop", "halfClose", "stall"} |->
                                    IF f = "stall" THEN "some" ELSE "zero"]]
MCRatesSome == [d \in Dirs |-> [f \in {"drop", "halfClose", "stall"} |-> "some"]]

MCLatency01 == [d \in Dirs |-> IF d = "c2s" THEN 1 ELSE 0]
MCLatencyS2C == [d \in Dirs |-> IF d = "s2c" THEN 1 ELSE 0]
MCLatencyNone == [d \in Dirs |-> 0]
MCJitterNone == [d \in Dirs |-> 0]
MCJitter10 == [d \in Dirs |-> IF d = "c2s" THEN 1 ELSE 0]
=============================================================================
