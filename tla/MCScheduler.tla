---------------------------- MODULE MCScheduler -----------------------------
(* Three jobs, one of which exceeds the I/O budget and must run alone, for  *)
(* which two small ones can overtake it, under each kind of                *)
(* budget: fixed, automatic, and the manual mode that only counts jobs.     *)
EXTENDS Scheduler, TLC

CONSTANTS small, medium, large

MCCost == small :> [mem |-> 1, io |-> 1, cpu |-> 1]
       @@ medium :> [mem |-> 1, io |-> 1, cpu |-> 1]
       @@ large :> [mem |-> 2, io |-> 3, cpu |-> 1]

Setting(mode, autoMem, autoCpu) ==
  [mode |-> mode, autoMemory |-> autoMem, autoCpu |-> autoCpu, maxActive |-> 2,
   maxBypass |-> 1, io |-> 2]

MCSettings == {Setting(Dynamic, FALSE, FALSE), Setting(Dynamic, TRUE, TRUE),
               Setting(Manual, FALSE, FALSE)}

MCMemory == {0, 5}
MCCpu == {1, 2}
=============================================================================
