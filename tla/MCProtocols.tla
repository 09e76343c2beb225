----------------------------- MODULE MCProtocols -----------------------------
(***************************************************************************)
(* TLC instance of three small protocols: the ownership registry, and the  *)
(* programs around the allocator, namely the observer shim of a C program  *)
(* and the simulations the server runs.  They share no state: a behaviour  *)
(* explores one, its focus, and the others stay where they start, where    *)
(* their fairness asks nothing.                                            *)
(***************************************************************************)
EXTENDS MCOwnershipRegistry, ShimRing, Simulations

VARIABLE focus

protocolVars == <<focus, vars, shimVars, simVars>>

ProtocolInit ==
  focus \in {"registry", "shim", "run"} /\ Init /\ ShimInit /\ SimInit

RegistryStep ==
  focus = "registry" /\ Next /\ UNCHANGED <<focus, shimVars, simVars>>

ShimStep ==
  focus = "shim" /\ ShimNext /\ UNCHANGED <<focus, vars, simVars>>
RunStep ==
  focus = "run" /\ SimNext /\ UNCHANGED <<focus, vars, shimVars>>

ProtocolNext == RegistryStep \/ ShimStep \/ RunStep

ProtocolSpec ==
  ProtocolInit /\ [][ProtocolNext]_protocolVars /\ ShimFair /\ SimFair

=============================================================================
