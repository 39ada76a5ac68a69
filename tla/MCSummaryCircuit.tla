-------------------------- MODULE MCSummaryCircuit --------------------------
(* SummaryCircuit for TLC.  The engine on one route that may answer nearly   *)
(* anything, the engine on two routes that hang, two rollups on one route.   *)
EXTENDS SummaryCircuit, TLC

CONSTANTS f, b1, b2, primary, secondary

MCSetups ==
    {[crew |-> {f}, chain |-> <<primary>>,
      outcomes |-> {"accepted", "failure", "filter", "size", "cut", "hang"}],
     [crew |-> {f}, chain |-> <<primary, secondary>>, outcomes |-> {"accepted", "hang"}],
     [crew |-> {b1, b2}, chain |-> <<primary>>,
      outcomes |-> {"accepted", "rejection", "failure"}]}

=============================================================================
