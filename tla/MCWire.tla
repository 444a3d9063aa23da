------------------------------- MODULE MCWire -------------------------------
(***************************************************************************)
(* The wire tools: the client of package wire, and the recording proxy of  *)
(* wirecompress with one workload measured while the driver's monitor      *)
(* streams hello replies. This module extends both. They share no state,   *)
(* so a behaviour is of one of them, and the other stays in its initial    *)
(* state.                                                                  *)
(***************************************************************************)
EXTENDS WireConn, WireProxy

VARIABLE tool  \* "client" or "proxy"

toolVars == <<tool, vars, proxyVars>>

(* RunCommand and RunRawOpMsg are sent, counted and answered as an exhaust command
   that gets one reply; a checksum that is not compressed only adds to the size. *)
DistinctForms == {"compressed", "checksummed compressed", "exhaust"}

(* What is measured while the monitor streams *)
OneWorkload == <<"find">>

ToolInit == tool \in {"client", "proxy"} /\ Init /\ ProxyInit

ToolNext == \/ tool = "client" /\ Next /\ UNCHANGED <<tool, proxyVars>>
            \/ tool = "proxy" /\ ProxyNext /\ UNCHANGED <<tool, vars>>

ToolSpec == ToolInit /\ [][ToolNext]_toolVars
=============================================================================
