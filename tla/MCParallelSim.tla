---------------------------- MODULE MCParallelSim ----------------------------
(***************************************************************************)
(* Two simulation threads with a quantum of two ticks.  tick0 is an event  *)
(* of thread 0's own queue, msg an event it schedules on thread 1's queue, *)
(* reply one that thread 1 schedules on thread 0's; exit and exit2 stand   *)
(* for two calls of exitSimLoop(), whose events have one priority, and stat *)
(* for schedStatEvent().  Priorities are those of                          *)
(* sim/eventq.hh: Stat_Event_Pri 90, Progress_Event_Pri 95 for the quantum *)
(* event, Sim_Exit_Pri 100.                                                *)
(***************************************************************************)
EXTENDS ParallelSim

Routes == [tick0 |-> <<0, 0>>, tick1 |-> <<1, 1>>, msg |-> <<0, 1>>, reply |-> <<1, 0>>]

MCFrom == [e \in Locals |-> Routes[e][1]]
MCTo == [e \in Locals |-> Routes[e][2]]
MCPriority ==
    [e \in Events |-> CASE e \in ExitEvents -> 100
                        [] e = Sync -> 95
                        [] e \in {"stat", "stat2"} -> 90
                        [] e = "break" -> -100
                        [] OTHER -> 0]

==============================================================================
