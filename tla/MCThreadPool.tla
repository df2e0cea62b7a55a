--------------------------- MODULE MCThreadPool ---------------------------
(***************************************************************************)
(* ThreadPool for TLC, in three parts of one run: "mixed", threads of all  *)
(* modes that start each other and are debugged; "left", three scripts     *)
(* without a debugger that start each other; "debugged", scripts under     *)
(* the debugger that call nothing in main.                                 *)
(***************************************************************************)
EXTENDS ThreadPool

CONSTANTS t1, t2, t3

VARIABLE part

MCThreads == {t1, t2, t3}
AllModes == {"Run", "Debug", "Agent"}

Left == INSTANCE ThreadPool WITH Modes <- {"Run", "Agent"}, MaxRequests <- 0
Debugged == INSTANCE ThreadPool WITH Modes <- {"Debug"}, CallsMain <- FALSE, MaxRequests <- 3

(* The bound on the threads of a part, those being started included. *)
AtMost(n) == Cardinality({t \in Threads : mode'[t] # "none"})
               + Cardinality({t \in Threads : worker'[t] = "calling"}) <= n

PartsInit == part \in {"mixed", "left", "debugged"} /\ PoolInit

PartsNext == /\ UNCHANGED part
             /\ \/ part = "mixed" /\ PoolNext /\ AtMost(2)
                \/ part = "left" /\ Left!PoolNext
                \/ part = "debugged" /\ Debugged!PoolNext /\ AtMost(2)

PartsSpec ==
    /\ PartsInit /\ [][PartsNext]_<<poolVars, part>>
    /\ \A t \in Threads :
          /\ WF_poolVars(Finished(t)) /\ WF_poolVars(QuitStop(t)) /\ WF_poolVars(Handle(t))
          /\ WF_poolVars(\E new \in Threads : ServeCall(t, new))
          /\ SF_poolVars(t \in interrupted /\ End(t))

(* A stopped script without a debugger ends, and its tool is answered      *)
(* (threadStop, and the finished of threadStart).                          *)
StopsLeft == \A t \in Threads : part = "left" =>
               (t \in interrupted ~> \/ t \notin known /\ (mode[t] = "Agent" => answers[t] = 1)
                                     \/ main = "closed")
=============================================================================
