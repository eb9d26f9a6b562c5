------------------------------- MODULE MCLinks -------------------------------
(***************************************************************************)
(* What carries the bus from one agent to another: the session streams it  *)
(* opens, and the iroh transport underneath.  A behaviour explores one of  *)
(* them; fairness is asked of the component that a liveness property is    *)
(* about.                                                                  *)
(***************************************************************************)
EXTENDS BusSession, IrohTransport

VARIABLE which   \* the component that this behaviour is of

allVars == <<which, vars, irohVars>>

MCInit ==
    /\ which \in {"session", "iroh"}
    /\ Init
    /\ IrohInit
    /\ which # "iroh" => posture = "accepting"
    /\ which # "session" => served

MCNext ==
    \/ which = "session" /\ Next
       /\ UNCHANGED <<which, irohVars>>
    \/ which = "iroh" /\ IrohNext
       /\ UNCHANGED <<which, vars>>

MCSpec == MCInit /\ [][MCNext]_allVars

\* See BusSession: Bus::close returns, whatever the handler of a session does.
\* See IrohTransport: a close of the transport ends and leaves no task behind.
ClosesEnd ==
    /\ Fairness => CloseReturns
    /\ IrohFairness => CloseEnds

===============================================================================
