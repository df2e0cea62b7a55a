---------------------------- MODULE ThreadProofs ----------------------------
(***************************************************************************)
(* The two components that run in threads of their own beside the main     *)
(* thread.                                                                 *)
(*                                                                         *)
(* Scripts, for every set of threads and modes, with or without calls of   *)
(* scripts into the main thread and for every bound on the debugger: the   *)
(* pool keeps its types, its counters agree with its threads, and the      *)
(* window closes only when the threads it waits for are over.              *)
(*                                                                         *)
(* Ports, for every kind of port, capacity, script and way of reading: the *)
(* types, the buffer without a gap, and, as long as no configuration is    *)
(* edited, the switch of the row.                                          *)
(***************************************************************************)
EXTENDS ThreadPool, Port, FiniteSetTheorems, TLAPS

(* A thread has a mode when it was started, it has not answered as long as *)
(* it is known, one that is over is not interrupted, and main has a        *)
(* request only while it waits.                                            *)
Basics == /\ \A t \in Threads : mode[t] = "none" <=> worker[t] = "none"
          /\ \A t \in known : mode[t] # "none"
          /\ \A t \in Threads : mode[t] = "none" \/ t \in known => answers[t] = 0
          /\ \A t \in interrupted : worker[t] # "over"
          /\ main # "waiting" => request = NoRequest

(* Quit will hear of every thread it is about that is not over, and it     *)
(* waits for at least as many as it will hear of.                          *)
QuitCounts == /\ quit.heard \subseteq quit.of
              /\ \A t \in quit.of : worker[t] # "over" => t \in quit.heard
              /\ Cardinality(quit.heard) <= quit.left

IInv == PoolTypes /\ Basics /\ CountersAgree /\ QuitCounts /\ QuitWaits

LEMMA PartsAreFinite ==
    ASSUME NEW S, S \subseteq Threads
    PROVE  IsFiniteSet(S) /\ Cardinality(S) \in Nat
BY PoolAssumption, FS_Subset, FS_CardinalityType

LEMMA InitInv == PoolInit => IInv
<1> SUFFICES ASSUME PoolInit PROVE IInv
  OBVIOUS
<1>1. PoolTypes /\ Basics
  BY PoolAssumption DEF PoolInit, PoolTypes, Basics, NoRequest, NoQuit
<1>2. CountersAgree
  <2>1. {t \in known : mode[t] = "Run"} = {} /\ {t \in known : mode[t] # "Run"} = {}
    BY DEF PoolInit
  <2> QED
    BY <2>1, FS_EmptySet DEF PoolInit, CountersAgree
<1>3. QuitCounts /\ QuitWaits
  BY FS_EmptySet DEF PoolInit, QuitCounts, QuitWaits, NoQuit
<1> QED
  BY <1>1, <1>2, <1>3 DEF IInv

-----------------------------------------------------------------------------
(* Steps that only stop threads or send requests.                          *)

(* A request is sent to a known thread, and main waits for it or goes on.  *)
LEMMA StateSetGood ==
    ASSUME IInv, main = "loop", NEW t \in known, NEW wanted \in Requests, StateSet(t, wanted)
    PROVE  /\ main' \in {"loop", "waiting", "hung"}
           /\ request' \in [of : SUBSET known, state : Requests \cup {"none"}]
           /\ main' # "waiting" => request' = NoRequest
BY DEF IInv, PoolTypes, Basics, StateSet, NoRequest

(* What such a step leaves as it is, and what it keeps.                    *)
Quiet == /\ UNCHANGED <<mode, worker, session, known, counters, answers, quit>>
         /\ interrupted' \subseteq known
         /\ \A t \in interrupted' : worker[t] # "over"
         /\ terminating' \subseteq known
         /\ main' \in {"loop", "waiting", "hung"}
         /\ request' \in [of : SUBSET known, state : Requests \cup {"none"}]
         /\ main' # "waiting" => request' = NoRequest
         /\ stopping' \subseteq Threads
         /\ requests' \in Nat

LEMMA QuietKeeps == IInv /\ Quiet => IInv'
<1> SUFFICES ASSUME IInv, Quiet PROVE IInv'
  OBVIOUS
<1>1. PoolTypes' /\ Basics'
  BY DEF IInv, PoolTypes, Basics, Quiet, counters, NoRequest
<1>2. CountersAgree'
  BY DEF IInv, CountersAgree, Quiet, counters
<1>3. QuitCounts' /\ QuitWaits'
  BY DEF IInv, QuitCounts, QuitWaits, Quiet
<1> QED
  BY <1>1, <1>2, <1>3 DEF IInv

LEMMA InterruptedGood ==
    ASSUME IInv, NEW t \in known, Interrupted(t)
    PROVE  interrupted' \subseteq known /\ \A u \in interrupted' : worker[u] # "over"
BY DEF IInv, PoolTypes, Basics, Interrupted

LEMMA DebugRequestKeeps ==
    ASSUME IInv, NEW t \in Threads, NEW wanted \in Requests, DebugRequest(t, wanted)
    PROVE  IInv'
<1>1. t \in known /\ main = "loop" /\ StateSet(t, wanted)
  BY DEF DebugRequest, Looping
<1>2. interrupted' \subseteq known /\ \A u \in interrupted' : worker[u] # "over"
  BY <1>1, InterruptedGood DEF DebugRequest, IInv, PoolTypes, Basics
<1>3. requests' \in Nat
  BY DEF DebugRequest, IInv, PoolTypes
<1>4. Quiet
  BY <1>1, <1>2, <1>3, StateSetGood DEF Quiet, DebugRequest, IInv, PoolTypes
<1> QED
  BY <1>4, QuietKeeps

LEMMA ThreadStopKeeps ==
    ASSUME IInv, main = "loop", NEW t \in Threads, ThreadStop(t), stopping' \subseteq Threads
    PROVE  IInv'
<1>1. CASE t \in known \ interrupted
  <2>1. Interrupted(t) /\ terminating' = terminating \cup {t}
    BY <1>1 DEF ThreadStop
  <2>2. interrupted' \subseteq known /\ \A u \in interrupted' : worker[u] # "over"
    BY <1>1, <2>1, InterruptedGood
  <2>3. /\ main' \in {"loop", "waiting", "hung"}
        /\ request' \in [of : SUBSET known, state : Requests \cup {"none"}]
        /\ main' # "waiting" => request' = NoRequest
    <3>1. CASE mode[t] = "Debug"
      BY <1>1, <3>1, StateSetGood DEF ThreadStop, Requests
    <3>2. CASE mode[t] # "Debug"
      BY <1>1, <3>2 DEF ThreadStop, waiting, IInv, PoolTypes, Basics
    <3> QED
      BY <3>1, <3>2
  <2>4. UNCHANGED <<mode, worker, session, known, counters, answers, quit, requests>>
    BY <1>1 DEF ThreadStop
  <2>5. Quiet
    BY <1>1, <2>1, <2>2, <2>3, <2>4 DEF Quiet, IInv, PoolTypes
  <2> QED
    BY <2>5, QuietKeeps
<1>2. CASE t \notin known \ interrupted
  <2>1. Quiet
    BY <1>2 DEF ThreadStop, waiting, Quiet, IInv, PoolTypes, Basics
  <2> QED
    BY <2>1, QuietKeeps
<1> QED
  BY <1>1, <1>2

LEMMA StopKeeps ==
    ASSUME IInv, NEW t \in Threads, Stop(t)
    PROVE  IInv'
BY ThreadStopKeeps DEF Stop, Looping, IInv, PoolTypes

LEMMA QuitStopKeeps ==
    ASSUME IInv, NEW t \in Threads, QuitStop(t)
    PROVE  IInv'
BY ThreadStopKeeps DEF QuitStop, IInv, PoolTypes

-----------------------------------------------------------------------------
(* Steps of a worker.                                                      *)

Workers == {"none", "running", "calling", "held", "over"}

(* What such a step leaves as it is, and what it keeps.                    *)
Works == /\ UNCHANGED <<mode, known, terminating, counters, answers, stopping, quit, requests>>
         /\ worker' \in [Threads -> Workers]
         /\ session' \in [Threads -> Requests \cup {"none"}]
         /\ \A t \in Threads : worker'[t] = "none" <=> worker[t] = "none"
         /\ \A t \in Threads : worker[t] = "over" => worker'[t] = "over"
         /\ interrupted' \subseteq interrupted
         /\ \A t \in interrupted' : worker'[t] # "over"
         /\ main' \in {"loop", "waiting", "hung", "closed"}
         /\ main' = "closed" => main = "closed"
         /\ request' \in [of : SUBSET known, state : Requests \cup {"none"}]
         /\ main' # "waiting" => request' = NoRequest

LEMMA WorksKeeps == IInv /\ Works => IInv'
<1> SUFFICES ASSUME IInv, Works PROVE IInv'
  OBVIOUS
<1>1. PoolTypes'
  BY DEF IInv, PoolTypes, Works, Workers, counters
<1>2. Basics'
  BY DEF IInv, PoolTypes, Basics, Works, NoRequest
<1>3. CountersAgree'
  BY DEF IInv, CountersAgree, Works, counters
<1>4. QuitCounts' /\ QuitWaits'
  BY DEF IInv, PoolTypes, QuitCounts, QuitWaits, Works
<1> QED
  BY <1>1, <1>2, <1>3, <1>4 DEF IInv

LEMMA CallKeeps ==
    ASSUME IInv, NEW t \in Threads, Call(t)
    PROVE  IInv'
<1>1. Works
  BY DEF Call, Works, Workers, IInv, PoolTypes, Basics, waiting
<1> QED
  BY <1>1, WorksKeeps

LEMMA HandleKeeps ==
    ASSUME IInv, NEW t \in Threads, Handle(t)
    PROVE  IInv'
<1>1. request.state \in Requests \cup {"none"}
  BY DEF IInv, PoolTypes
<1>2. session' \in [Threads -> Requests \cup {"none"}] /\ worker' \in [Threads -> Workers]
  BY <1>1 DEF Handle, Workers, IInv, PoolTypes
<1>3. /\ \A u \in Threads : worker'[u] = "none" <=> worker[u] = "none"
      /\ \A u \in Threads : worker'[u] = "over" <=> worker[u] = "over"
  BY DEF Handle, IInv, PoolTypes
<1>4. request' \in [of : SUBSET known, state : Requests \cup {"none"}]
  BY DEF Handle, NoRequest
<1>5. Works
  BY <1>2, <1>3, <1>4 DEF Handle, Works, IInv, PoolTypes, Basics
<1> QED
  BY <1>5, WorksKeeps

LEMMA HoldKeeps ==
    ASSUME IInv, NEW t \in Threads, Hold(t)
    PROVE  IInv'
<1>1. Works
  BY DEF Hold, Works, Workers, Requests, IInv, PoolTypes, Basics, waiting
<1> QED
  BY <1>1, WorksKeeps

LEMMA EndKeeps ==
    ASSUME IInv, NEW t \in Threads, End(t)
    PROVE  IInv'
<1>1. /\ main' \in {"loop", "waiting", "hung", "closed"}
      /\ main' = "closed" => main = "closed"
      /\ request' \in [of : SUBSET known, state : Requests \cup {"none"}]
      /\ main' # "waiting" => request' = NoRequest
  BY DEF End, waiting, NoRequest, IInv, PoolTypes, Basics
<1>2. Works
  BY <1>1 DEF End, Works, Workers, IInv, PoolTypes, Basics
<1> QED
  BY <1>2, WorksKeeps

-----------------------------------------------------------------------------
(* Steps that change the threads that are known.                           *)

(* A new thread is counted once, and quit, which is not about it, goes on. *)
LEMMA ThreadStartKeeps ==
    ASSUME IInv, NEW t \in Threads, NEW m \in Modes, ThreadStart(t, m),
           worker' \in [Threads -> Workers], worker'[t] = "running",
           \A u \in Threads \ {t} : \/ worker'[u] = worker[u]
                                    \/ worker[u] = "calling" /\ worker'[u] = "running"
    PROVE  IInv'
<1>1. t \notin known /\ mode[t] = "none" /\ worker[t] = "none" /\ m # "none"
  BY PoolAssumption DEF ThreadStart, Unused, IInv, PoolTypes, Basics
<1>2. /\ mode' = [mode EXCEPT ![t] = m]
      /\ known' = known \cup {t}
      /\ UNCHANGED <<interrupted, terminating, answers, main, request, stopping, quit, requests>>
  BY DEF ThreadStart, waiting
<1>3. PoolTypes'
  <2>1. session' \in [Threads -> Requests \cup {"none"}]
    BY DEF ThreadStart, Requests, IInv, PoolTypes
  <2>2. run' \in Nat /\ debug' \in Nat
    BY DEF ThreadStart, IInv, PoolTypes
  <2> QED
    BY <1>2, <2>1, <2>2 DEF IInv, PoolTypes, Workers
<1>4. Basics'
  <2>1. \A u \in Threads : mode'[u] = "none" <=> worker'[u] = "none"
    BY <1>1, <1>2 DEF IInv, PoolTypes, Basics
  <2>2. \A u \in interrupted' : worker'[u] # "over"
    BY <1>1, <1>2 DEF IInv, PoolTypes, Basics
  <2> QED
    BY <1>1, <1>2, <2>1, <2>2 DEF IInv, PoolTypes, Basics, NoRequest
<1>5. CountersAgree'
  <2> DEFINE runs == {u \in known : mode[u] = "Run"}
             others == {u \in known : mode[u] # "Run"}
  <2>1. /\ runs \subseteq Threads /\ others \subseteq Threads
        /\ t \notin runs /\ t \notin others
        /\ run = Cardinality(runs) /\ debug = Cardinality(others)
    BY <1>1 DEF IInv, PoolTypes, CountersAgree
  <2>2. /\ {u \in known' : mode'[u] = "Run"} = IF m = "Run" THEN runs \cup {t} ELSE runs
        /\ {u \in known' : mode'[u] # "Run"} = IF m = "Run" THEN others ELSE others \cup {t}
    BY <1>1, <1>2 DEF IInv, PoolTypes
  <2>3. /\ Cardinality(runs \cup {t}) = Cardinality(runs) + 1
        /\ Cardinality(others \cup {t}) = Cardinality(others) + 1
    BY <2>1, PartsAreFinite, FS_AddElement
  <2> HIDE DEF runs, others
  <2> QED
    BY <2>1, <2>2, <2>3 DEF ThreadStart, CountersAgree
<1>6. QuitCounts' /\ QuitWaits'
  <2>1. \A u \in Threads : worker[u] = "over" => worker'[u] = "over"
    BY <1>1
  <2>2. \A u \in quit.of : worker'[u] # "over" => worker[u] # "over"
    BY <2>1 DEF IInv, PoolTypes
  <2> QED
    BY <1>2, <2>1, <2>2 DEF IInv, PoolTypes, QuitCounts, QuitWaits
<1> QED
  BY <1>3, <1>4, <1>5, <1>6 DEF IInv

LEMMA StartKeeps ==
    ASSUME IInv, NEW t \in Threads, NEW m \in Modes, Start(t, m)
    PROVE  IInv'
<1>1. /\ worker' \in [Threads -> Workers] /\ worker'[t] = "running"
      /\ \A u \in Threads \ {t} : worker'[u] = worker[u]
  BY DEF Start, Workers, IInv, PoolTypes
<1> QED
  BY <1>1, ThreadStartKeeps DEF Start

LEMMA ServeCallKeeps ==
    ASSUME IInv, NEW t \in Threads, NEW new \in Threads, ServeCall(t, new)
    PROVE  IInv'
<1>1. worker[t] = "calling" /\ mode[t] \in Modes
  BY DEF ServeCall, IInv, PoolTypes, Basics
<1>2. /\ worker' \in [Threads -> Workers] /\ worker'[new] = "running"
      /\ \A u \in Threads \ {new} : \/ worker'[u] = worker[u]
                                    \/ worker[u] = "calling" /\ worker'[u] = "running"
  BY <1>1 DEF ServeCall, Workers, IInv, PoolTypes
<1> QED
  BY <1>1, <1>2, ThreadStartKeeps DEF ServeCall

(* A thread that was counted is taken off the same counter.  When it is    *)
(* the last that quit waits for, no other that quit is about is running.   *)
LEMMA FinishedKeeps ==
    ASSUME IInv, NEW t \in Threads, Finished(t)
    PROVE  IInv'
<1>1. /\ main = "loop" /\ t \in known /\ worker[t] = "over" /\ request = NoRequest
      /\ known' = known \ {t}
      /\ terminating' = terminating \ {t}
      /\ UNCHANGED <<mode, worker, session, interrupted, request, stopping, requests>>
  BY DEF Finished, Looping, IInv, Basics
<1>2. CountersAgree' /\ run' \in Nat /\ debug' \in Nat
  <2> DEFINE runs == {u \in known : mode[u] = "Run"}
             others == {u \in known : mode[u] # "Run"}
  <2>1. /\ runs \subseteq Threads /\ others \subseteq Threads
        /\ run = Cardinality(runs) /\ debug = Cardinality(others)
        /\ mode[t] = "Run" => t \in runs
        /\ mode[t] # "Run" => t \in others
    BY <1>1 DEF IInv, PoolTypes, CountersAgree
  <2>2. /\ {u \in known' : mode'[u] = "Run"} = IF mode[t] = "Run" THEN runs \ {t} ELSE runs
        /\ {u \in known' : mode'[u] # "Run"} = IF mode[t] = "Run" THEN others ELSE others \ {t}
    BY <1>1
  <2>3. /\ t \in runs => Cardinality(runs \ {t}) = Cardinality(runs) - 1
        /\ t \in others => Cardinality(others \ {t}) = Cardinality(others) - 1
    BY <2>1, PartsAreFinite, FS_RemoveElement
  <2>4. /\ runs \ {t} \subseteq Threads /\ others \ {t} \subseteq Threads
    BY <2>1
  <2>5. /\ Cardinality(runs) \in Nat /\ Cardinality(others) \in Nat
        /\ Cardinality(runs \ {t}) \in Nat /\ Cardinality(others \ {t}) \in Nat
    BY <2>1, <2>4, PartsAreFinite
  <2> HIDE DEF runs, others
  <2> QED
    BY <2>1, <2>2, <2>3, <2>5 DEF Finished, CountersAgree
<1>3. /\ quit' \in [on : BOOLEAN, of : SUBSET Threads, heard : SUBSET Threads, left : Nat]
      /\ quit'.of = quit.of
      /\ quit'.heard = quit.heard \ {t}
      /\ Cardinality(quit'.heard) <= quit'.left
      /\ main' \in {"loop", "closed"}
      /\ main' = "closed" => quit'.heard = {}
  <2>1. /\ IsFiniteSet(quit.heard) /\ Cardinality(quit.heard) \in Nat
        /\ IsFiniteSet(quit.heard \ {t}) /\ Cardinality(quit.heard \ {t}) \in Nat
    <3>1. quit.heard \subseteq Threads /\ quit.heard \ {t} \subseteq Threads
      BY DEF IInv, PoolTypes
    <3> QED
      BY <3>1, PartsAreFinite
  <2>2. quit.left \in Nat /\ Cardinality(quit.heard) <= quit.left
    BY DEF IInv, PoolTypes, QuitCounts
  <2>3. CASE t \in quit.heard
    <3>1. Cardinality(quit.heard \ {t}) = Cardinality(quit.heard) - 1
      BY <2>1, <2>3, FS_RemoveElement
    <3>2. quit' = [quit EXCEPT !.heard = quit.heard \ {t}, !.left = quit.left - 1]
      BY <2>3 DEF Finished
    <3>3. quit.left - 1 \in Nat /\ Cardinality(quit.heard \ {t}) <= quit.left - 1
      BY <2>1, <2>2, <3>1
    <3>4. /\ quit' \in [on : BOOLEAN, of : SUBSET Threads, heard : SUBSET Threads, left : Nat]
          /\ quit'.of = quit.of
          /\ quit'.heard = quit.heard \ {t} /\ quit'.left = quit.left - 1
      BY <3>2, <3>3 DEF IInv, PoolTypes
    <3>5. main' \in {"loop", "closed"} /\ (main' = "closed" => quit.left = 1)
      BY <1>1, <2>3 DEF Finished
    <3>6. quit.left = 1 => quit.heard \ {t} = {}
      <4>1. quit.left = 1 => Cardinality(quit.heard \ {t}) = 0
        BY <2>1, <3>3
      <4> QED
        BY <2>1, <4>1, FS_EmptySet
    <3> QED
      BY <3>3, <3>4, <3>5, <3>6
  <2>4. CASE t \notin quit.heard
    <3>1. quit' = quit /\ main' = main /\ quit.heard \ {t} = quit.heard
      BY <2>4 DEF Finished
    <3> QED
      BY <1>1, <2>2, <3>1 DEF IInv, PoolTypes
  <2> QED
    BY <2>3, <2>4
<1>4. PoolTypes'
  <2>1. interrupted' \subseteq known' /\ terminating' \subseteq known'
    BY <1>1 DEF IInv, PoolTypes, Basics
  <2>2. answers' \in [Threads -> 0 .. 1]
    BY <1>1 DEF Finished, IInv, PoolTypes, Basics
  <2>3. request' \in [of : SUBSET known', state : Requests \cup {"none"}]
    BY <1>1 DEF NoRequest
  <2> QED
    BY <1>1, <1>2, <1>3, <2>1, <2>2, <2>3 DEF IInv, PoolTypes
<1>5. Basics'
  <2>1. \A u \in Threads : mode'[u] = "none" \/ u \in known' => answers'[u] = 0
    BY <1>1 DEF Finished, IInv, PoolTypes, Basics
  <2> QED
    BY <1>1, <1>3, <2>1 DEF IInv, PoolTypes, Basics, NoRequest
<1>6. QuitCounts' /\ QuitWaits'
  BY <1>1, <1>3 DEF IInv, QuitCounts, QuitWaits
<1> QED
  BY <1>2, <1>4, <1>5, <1>6 DEF IInv

(* Quit is about the known threads and hears of those that are not over.   *)
LEMMA QuitKeeps ==
    ASSUME IInv, Quit
    PROVE  IInv'
<1> DEFINE hears == {t \in known : worker[t] # "over"}
<1>1. /\ IsFiniteSet(known) /\ Cardinality(known) \in Nat
      /\ Cardinality(hears) <= Cardinality(known)
  <2>1. IsFiniteSet(known) /\ hears \subseteq known
    BY PartsAreFinite DEF IInv, PoolTypes
  <2> QED
    BY <2>1, FS_Subset, FS_CardinalityType
<1>2. /\ quit' = [on |-> TRUE, of |-> known, heard |-> hears, left |-> Cardinality(known)]
      /\ main' = IF known = {} THEN "closed" ELSE main
      /\ main = "loop" /\ stopping' = known
      /\ UNCHANGED <<mode, worker, session, interrupted, known, terminating, counters,
                     answers, request, requests>>
  BY DEF Quit, Looping
<1>3. hears \subseteq known /\ \A t \in known : worker[t] # "over" => t \in hears
  OBVIOUS
<1> HIDE DEF hears
<1>4. PoolTypes'
  BY <1>1, <1>2, <1>3 DEF IInv, PoolTypes, counters
<1>5. Basics'
  BY <1>2 DEF IInv, Basics, NoRequest
<1>6. CountersAgree'
  BY <1>2 DEF IInv, CountersAgree, counters
<1>7. QuitCounts' /\ QuitWaits'
  BY <1>1, <1>2, <1>3 DEF QuitCounts, QuitWaits
<1> QED
  BY <1>4, <1>5, <1>6, <1>7 DEF IInv

-----------------------------------------------------------------------------

LEMMA NextInv == IInv /\ [PoolNext]_poolVars => IInv'
<1> SUFFICES ASSUME IInv, [PoolNext]_poolVars PROVE IInv'
  OBVIOUS
<1>1. CASE PoolNext
  <2>1. ASSUME NEW t \in Threads, NEW m \in Modes, Start(t, m) PROVE IInv'
    BY <2>1, StartKeeps
  <2>2. ASSUME NEW t \in Threads, NEW new \in Threads, ServeCall(t, new) PROVE IInv'
    BY <2>2, ServeCallKeeps
  <2>3. ASSUME NEW t \in Threads, NEW wanted \in Requests, DebugRequest(t, wanted) PROVE IInv'
    BY <2>3, DebugRequestKeeps
  <2>4. ASSUME NEW t \in Threads, Stop(t) \/ QuitStop(t) PROVE IInv'
    BY <2>4, StopKeeps, QuitStopKeeps
  <2>5. ASSUME NEW t \in Threads, Finished(t) PROVE IInv'
    BY <2>5, FinishedKeeps
  <2>6. ASSUME NEW t \in Threads, Call(t) \/ Handle(t) \/ Hold(t) \/ End(t) PROVE IInv'
    BY <2>6, CallKeeps, HandleKeeps, HoldKeeps, EndKeeps
  <2>7. ASSUME Quit PROVE IInv'
    BY <2>7, QuitKeeps
  <2> QED
    BY <1>1, <2>1, <2>2, <2>3, <2>4, <2>5, <2>6, <2>7 DEF PoolNext
<1>2. CASE UNCHANGED poolVars
  <2>1. PoolTypes' /\ Basics'
    BY <1>2 DEF poolVars, counters, waiting, IInv, PoolTypes, Basics, NoRequest
  <2>2. CountersAgree' /\ QuitCounts' /\ QuitWaits'
    BY <1>2 DEF poolVars, counters, waiting, IInv, CountersAgree, QuitCounts, QuitWaits
  <2> QED
    BY <2>1, <2>2 DEF IInv
<1> QED
  BY <1>1, <1>2

LEMMA Invariant == PoolSpec => []IInv
<1>1. PoolInit => IInv
  BY InitInv
<1>2. IInv /\ [PoolNext]_poolVars => IInv'
  BY NextInv
<1> QED
  BY <1>1, <1>2, PTL DEF PoolSpec

(* For every set of threads and modes the pool keeps its types: a request  *)
(* is of a known thread, no tool is answered twice, and quit's count of    *)
(* the threads it waits for never runs below zero (threadpoolModule.cpp).  *)
THEOREM PoolTypeOK == PoolSpec => []PoolTypes
<1>1. IInv => PoolTypes
  BY DEF IInv
<1> QED
  BY <1>1, Invariant, PTL

(* For every set of threads and modes the counters of the status bar tell  *)
(* how many threads of each kind are known (threadAppend).                 *)
THEOREM PoolCountersAgree == PoolSpec => []CountersAgree
<1>1. IInv => CountersAgree
  BY DEF IInv
<1> QED
  BY <1>1, Invariant, PTL

(* For every set of threads and modes the window closes only when every    *)
(* thread quit was about is over (quit).                                   *)
THEOREM PoolQuitWaits == PoolSpec => []QuitWaits
<1>1. IInv => QuitWaits
  BY DEF IInv
<1> QED
  BY <1>1, Invariant, PTL

(***************************************************************************)
(* Ports: the buffer.                                                      *)
(***************************************************************************)

Bytes == buffer \in Seq(Nat) /\ Len(buffer) <= Capacity /\ sent \in Nat /\ gone \in Nat

(* The buffer holds a run of numbers, and it begins with the byte after the *)
(* last one gone and ends with the last one sent.                          *)
Gapless == /\ gone <= sent
           /\ Len(buffer) = sent - gone
           /\ \A i \in 1 .. Len(buffer) : buffer[i] = gone + i

LEMMA GaplessIsRun ==
  ASSUME Bytes
  PROVE  Gapless => buffer = [i \in 1 .. sent - gone |-> gone + i]
<1> SUFFICES ASSUME Gapless PROVE buffer = [i \in 1 .. sent - gone |-> gone + i]
  OBVIOUS
<1>1. buffer = [i \in 1 .. Len(buffer) |-> buffer[i]]
  BY DEF Bytes
<1> QED BY <1>1 DEF Gapless, Bytes

LEMMA ClearBytes ==
  ASSUME Bytes, sent' \in Nat, Clear
  PROVE  Bytes' /\ Gapless'
<1>1. buffer' = << >> /\ gone' = sent' /\ gone' \in Nat
  BY DEF Clear, Q!Clear, Bytes
<1>2. buffer' \in Seq(Nat) /\ Len(buffer') = 0
  BY <1>1
<1>3. Bytes'
  BY <1>1, <1>2, PortAssumption DEF Bytes
<1>4. gone' <= sent' /\ Len(buffer') = sent' - gone'
  <2>1. sent' \in Nat
    OBVIOUS
  <2>2. \A n \in Nat : n <= n /\ n - n = 0
    OBVIOUS
  <2>3. sent' - gone' = 0 /\ gone' <= sent'
    BY <1>1, <2>1, <2>2
  <2> QED BY <1>2, <2>3
<1>5. 1 .. Len(buffer') = {}
  BY <1>2
<1> QED BY <1>3, <1>4, <1>5 DEF Gapless

LEMMA KeepBytes ==
  ASSUME Bytes, sent' = sent, Keep
  PROVE  Bytes' /\ (Gapless => Gapless')
  BY DEF Keep, Q!Refuse, Bytes, Gapless

LEMMA PutBytes ==
  ASSUME Bytes, NEW k \in Nat, Len(buffer) + k <= Capacity,
         Q!Put(Arrived(k)), sent' = sent + k, gone' = gone
  PROVE  Bytes' /\ (Gapless => Gapless')
<1> DEFINE new == Arrived(k)
<1>1. new \in Seq(Nat) /\ Len(new) = k /\ \A i \in 1 .. k : new[i] = sent + i
  BY DEF Arrived, Bytes
<1>2. buffer' = buffer \o new
  BY DEF Q!Put
<1> HIDE DEF new
<1>b. buffer \in Seq(Nat) /\ Len(buffer) \in Nat
  BY DEF Bytes
<1>3. buffer' \in Seq(Nat) /\ Len(buffer') = Len(buffer) + k
  <2>1. buffer \o new \in Seq(Nat) /\ Len(buffer \o new) = Len(buffer) + Len(new)
    BY <1>1, <1>b
  <2> QED BY <1>1, <1>2, <2>1
<1>4. \A i \in 1 .. Len(buffer) : buffer'[i] = buffer[i]
  BY <1>1, <1>2 DEF Bytes
<1>5. \A i \in Len(buffer) + 1 .. Len(buffer) + k : buffer'[i] = sent + (i - Len(buffer))
  BY <1>1, <1>2 DEF Bytes
<1>6. Bytes'
  BY <1>3, PortAssumption DEF Bytes
<1>7. ASSUME Gapless PROVE Gapless'
  BY <1>3, <1>4, <1>5, <1>7 DEF Gapless, Bytes
<1> QED BY <1>6, <1>7

LEMMA TakeBytes ==
  ASSUME Bytes, NEW n \in 1 .. Len(buffer), Q!Take(n), gone' = gone + n, sent' = sent
  PROVE  Bytes' /\ (Gapless => Gapless')
<1>1. buffer' = SubSeq(buffer, n + 1, Len(buffer))
  BY DEF Q!Take
<1>2. buffer' \in Seq(Nat) /\ Len(buffer') = Len(buffer) - n
  BY <1>1 DEF Bytes
<1>3. \A i \in 1 .. Len(buffer') : buffer'[i] = buffer[n + i]
  BY <1>1, <1>2 DEF Bytes
<1>4. Bytes'
  BY <1>2, PortAssumption DEF Bytes
<1>5. ASSUME Gapless PROVE Gapless'
  BY <1>2, <1>3, <1>5 DEF Gapless, Bytes
<1> QED BY <1>4, <1>5

LEMMA PortionTypes == \A length \in Reads : Portion(length) \subseteq DOMAIN buffer
  BY DEF Portion, Ends

(* The open that fails, of every kind of port. *)
Fails == CASE kind = "SerialPort" -> SerialFails
           [] kind = "TcpClient" -> TcpFails
           [] kind = "UdpSocket" -> UdpFails

LEMMA OpenFails ==
  ASSUME TypeOK, Fails
  PROVE  /\ device' \in {"closed", "refused"}
         /\ device' = "refused" => device = "refused" /\ kind = "UdpSocket" /\ Emit(<< >>)
         /\ device = "refused" /\ kind = "UdpSocket" => device' = "refused"
         /\ Emit(<< >>) \/ Emit(<<FALSE>>) \/ Emit(<<FALSE, FALSE>>)
  BY PortAssumption DEF Fails, SerialFails, TcpFails, UdpFails, TypeOK

(***************************************************************************)
(* One lemma for what happens to the bytes in any step.                    *)
(***************************************************************************)

BytesStep == /\ Bytes'
             /\ device' = "open" => (device = "open" /\ (Gapless => Gapless')) \/ Gapless'

LEMMA CloseBytes ==
  ASSUME Bytes, kind \in Kinds, sent' \in Nat, sent' = sent \/ device = "open", Close
  PROVE  Bytes' /\ device' = "closed"
<1>1. CASE kind = "SerialPort"
  BY <1>1, ClearBytes DEF Close, SerialClose
<1>2. CASE kind = "UdpSocket"
  BY <1>2, ClearBytes DEF Close, UdpClose
<1>3. CASE kind = "TcpClient"
  BY <1>3, ClearBytes, KeepBytes DEF Close, TcpClose
<1> QED BY <1>1, <1>2, <1>3, PortAssumption

LEMMA StepBytes ==
  ASSUME TypeOK, [Next]_vars
  PROVE  BytesStep
<1>b. Bytes
  BY DEF TypeOK, Bytes
<1>u. ASSUME UNCHANGED <<device, buffer, sent, gone>> PROVE BytesStep
  BY <1>b, <1>u DEF BytesStep, Bytes, Gapless
<1> USE DEF port, queue
<1>1. CASE Open
  <2>1. sent' = sent /\ sent \in Nat
    BY <1>1, <1>b DEF Open, Bytes
  <2>2. CASE device = "open" /\ UNCHANGED device /\ Keep
    BY <1>b, <2>1, <2>2, KeepBytes DEF BytesStep
  <2>3. CASE Clear
    BY <1>b, <2>1, <2>3, ClearBytes DEF BytesStep
  <2>4. CASE device' # "open" /\ Keep
    BY <1>b, <2>1, <2>4, KeepBytes DEF BytesStep
  <2> QED BY <1>1, <2>2, <2>3, <2>4, OpenFails DEF Open, UdpRefused, Fails
<1>2. CASE CloseCall
  <2>1. sent' = sent /\ sent \in Nat
    BY <1>2, <1>b DEF CloseCall, Bytes
  <2>2. CASE device = "null" /\ UNCHANGED device /\ Keep
    BY <1>b, <2>1, <2>2, KeepBytes DEF BytesStep
  <2>3. CASE Close
    BY <1>b, <2>1, <2>3, CloseBytes DEF BytesStep, TypeOK
  <2> QED BY <1>2, <2>2, <2>3 DEF CloseCall
<1>3. CASE ClearCall
  BY <1>3, <1>b, ClearBytes DEF ClearCall, BytesStep, Bytes
<1>4. CASE ReadCall
  BY <1>4, <1>b, KeepBytes DEF ReadCall, BytesStep
<1>5. CASE ReadReturns
  <2>1. PICK n \in Portion(reading.length) : Q!Take(n) /\ gone' = gone + n
    BY <1>5 DEF ReadReturns
  <2>2. n \in 1 .. Len(buffer)
    <3>1. DOMAIN buffer = 1 .. Len(buffer)
      BY <1>b DEF Bytes
    <3> QED BY <2>1, <3>1 DEF Portion, Ends
  <2>3. sent' = sent /\ device' = device
    BY <1>5 DEF ReadReturns
  <2> QED BY <1>b, <2>1, <2>2, <2>3, TakeBytes DEF BytesStep, Gapless
<1>6. CASE ReadGivesUp
  BY <1>6, <1>b, KeepBytes DEF ReadGivesUp, BytesStep
<1>7. ASSUME NEW k \in Chunks, ReadyRead(k) PROVE BytesStep
  <2>1. sent' = sent + k /\ k \in Nat /\ sent' \in Nat /\ device = "open"
    BY <1>7, <1>b, PortAssumption DEF ReadyRead, Bytes
  <2>2. CASE Len(buffer) + k <= Capacity
    BY <1>7, <1>b, <2>1, <2>2, PutBytes DEF ReadyRead, BytesStep
  <2>3. CASE ~(Len(buffer) + k <= Capacity)
    BY <1>7, <1>b, <2>1, <2>3, CloseBytes DEF ReadyRead, BytesStep, TypeOK
  <2> QED BY <2>2, <2>3
<1>8. CASE Error
  <2>1. sent' = sent /\ sent \in Nat /\ device' = "closed"
    BY <1>8, <1>b DEF Error, Bytes
  <2>2. Keep \/ Clear
    BY <1>8, PortAssumption DEF Error, SerialError, TcpError, UdpError, TypeOK
  <2> QED BY <1>b, <2>1, <2>2, ClearBytes, KeepBytes DEF BytesStep
<1>9. CASE Inserted
  <2>1. sent' = sent /\ sent \in Nat /\ Clear
    BY <1>9, <1>b DEF Inserted, Bytes
  <2> QED BY <1>b, <2>1, ClearBytes DEF BytesStep
<1>10. CASE Toggle \/ Edit \/ Refresh \/ (\E s \in Scripts : Script(s)) \/ UNCHANGED vars
  BY <1>10, <1>u DEF Toggle, Edit, Refresh, Script, vars
<1> QED BY <1>1, <1>2, <1>3, <1>4, <1>5, <1>6, <1>7, <1>8, <1>9, <1>10
    DEF Next, PortThread, ReadEnds, World, Main

(* While the device is open the buffer has no gap, which takes every step  *)
(* from a buffer without a gap to one without.                             *)
IGap == TypeOK /\ (device = "open" => Gapless)

(***************************************************************************)
(* The types of the rest.                                                  *)
(***************************************************************************)

Session == Seq(BOOLEAN)

LEMMA EmitTypes ==
  ASSUME signals \in Session, NEW shown \in Session, Emit(shown)
  PROVE  signals' \in Session
  BY DEF Emit, Session

LEMMA CloseTypes ==
  ASSUME TypeOK, Close
  PROVE  device' = "closed" /\ signals' \in Session
<1>1. signals \in Session
  BY DEF TypeOK, Session
<1>2. <<FALSE>> \in Session /\ <<FALSE, FALSE>> \in Session
  BY DEF Session
<1>3. CASE kind = "SerialPort"
  BY <1>1, <1>2, <1>3, EmitTypes DEF Close, SerialClose
<1>4. CASE kind = "UdpSocket"
  BY <1>1, <1>2, <1>4, EmitTypes DEF Close, UdpClose
<1>5. CASE kind = "TcpClient"
  BY <1>1, <1>2, <1>5, EmitTypes DEF Close, TcpClose
<1>6. device' = "closed"
  BY DEF Close
<1> QED BY <1>3, <1>4, <1>5, <1>6, PortAssumption DEF TypeOK

LEMMA ServeTypes ==
  ASSUME TypeOK, NEW op, Serve(op)
  PROVE  calls' \in Seq(Calls) /\ Head(calls) \in Calls
<1> HIDE DEF Calls
<1> QED BY DEF Serve, Serving, TypeOK

LEMMA AskTypes ==
  ASSUME TypeOK, NEW c \in Calls, calls' = Append(calls, c)
  PROVE  calls' \in Seq(Calls)
<1> HIDE DEF Calls
<1> QED BY DEF TypeOK

Rest == /\ kind' \in Kinds
        /\ device' \in {"null", "closed", "open", "refused"}
        /\ calls' \in Seq(Calls)
        /\ reading' \in Calls \cup {Nobody}
        /\ signals' \in Session
        /\ active' \in BOOLEAN /\ removing' \in BOOLEAN
        /\ edits' \in Nat

LEMMA StepRest ==
  ASSUME TypeOK, [Next]_vars
  PROVE  Rest
<1> USE DEF port, row
<1>s. signals \in Session /\ << >> \in Session /\ <<TRUE>> \in Session
      /\ <<FALSE>> \in Session /\ <<FALSE, FALSE>> \in Session
      /\ <<FALSE, TRUE>> \in Session
  BY DEF TypeOK, Session
<1>1. CASE Open
  <2>1. \E shown \in Session : Emit(shown)
    <3>1. CASE device = "open" /\ Emit(<< >>)
      BY <1>s, <3>1
    <3>2. CASE Emit(<<TRUE>>)
      BY <1>s, <3>2
    <3>3. CASE Fails
      BY <1>s, <3>3, OpenFails
    <3>4. CASE UdpRefused
      BY <1>s, <3>4 DEF UdpRefused
    <3> QED BY <1>1, <3>1, <3>2, <3>3, <3>4 DEF Open, Fails
  <2>2. signals' \in Session
    BY <1>s, <2>1, EmitTypes
  <2>3. calls' \in Seq(Calls)
    BY <1>1, ServeTypes DEF Open
  <2>4. device' \in {"null", "closed", "open", "refused"}
    <3>1. CASE Fails
      BY <3>1, OpenFails
    <3> QED BY <1>1, <3>1 DEF Open, UdpRefused, Fails, TypeOK
  <2> QED BY <1>1, <2>2, <2>3, <2>4 DEF Open, TypeOK, Rest
<1>2. CASE CloseCall
  <2>1. calls' \in Seq(Calls)
    BY <1>2, ServeTypes DEF CloseCall
  <2>2. CASE device = "null" /\ UNCHANGED device /\ Emit(<< >>)
    BY <1>2, <1>s, <2>1, <2>2, EmitTypes DEF CloseCall, TypeOK, Rest
  <2>3. CASE Close
    BY <1>2, <2>1, <2>3, CloseTypes DEF CloseCall, TypeOK, Rest
  <2> QED BY <1>2, <2>2, <2>3 DEF CloseCall
<1>3. CASE ClearCall
  BY <1>3, <1>s, ServeTypes DEF ClearCall, TypeOK, Rest
<1>4. CASE ReadCall
  BY <1>4, <1>s, ServeTypes DEF ReadCall, TypeOK, Rest
<1>5. CASE ReadReturns \/ ReadGivesUp
  BY <1>5, <1>s DEF ReadReturns, ReadGivesUp, TypeOK, Rest
<1>6. ASSUME NEW k \in Chunks, ReadyRead(k) PROVE Rest
  <2>1. CASE UNCHANGED <<device, signals>>
    BY <1>6, <1>s, <2>1 DEF ReadyRead, TypeOK, Rest
  <2>2. CASE Close
    BY <1>6, <2>2, CloseTypes DEF ReadyRead, TypeOK, Rest
  <2> QED BY <1>6, <2>1, <2>2 DEF ReadyRead
<1>7. CASE Error
  <2>1. Emit(<<FALSE>>) \/ Emit(<<FALSE, FALSE>>)
    BY <1>7, PortAssumption DEF Error, SerialError, TcpError, UdpError, TypeOK
  <2>2. signals' \in Session
    BY <1>s, <2>1, EmitTypes
  <2> QED BY <1>7, <2>2 DEF Error, TypeOK, Rest
<1>8. CASE Toggle
  <2>1. [by |-> "main", op |-> IF active THEN "close" ELSE "open"] \in Calls
    BY DEF Calls
  <2>2. calls' \in Seq(Calls)
    BY <1>8, <2>1, AskTypes DEF Toggle
  <2> QED BY <1>8, <1>s, <2>2 DEF Toggle, TypeOK, Rest
<1>9. ASSUME NEW s \in Scripts, Script(s) PROVE Rest
  <2>1. calls' \in Seq(Calls)
    BY <1>9, AskTypes DEF Script
  <2> QED BY <1>9, <1>s, <2>1 DEF Script, TypeOK, Rest
<1>10. CASE Refresh
  BY <1>10, <1>s DEF Refresh, TypeOK, Rest, Session
<1>11. CASE Edit
  BY <1>11, <1>s DEF Edit, TypeOK, Rest
<1>12. CASE Inserted
  <2>1. calls' \in Seq(Calls)
    BY <1>12 DEF Inserted
  <2>2. Emit(<< >>) \/ Emit(<<FALSE>>) \/ Emit(<<FALSE, FALSE>>)
    BY <1>12 DEF Inserted, Destroyed
  <2>3. signals' \in Session
    BY <1>s, <2>2, EmitTypes
  <2> QED BY <1>12, <2>1, <2>3 DEF Inserted, TypeOK, Rest
<1>13. CASE UNCHANGED vars
  BY <1>13, <1>s DEF vars, TypeOK, Rest
<1> QED BY <1>1, <1>2, <1>3, <1>4, <1>5, <1>6, <1>7, <1>8, <1>9, <1>10, <1>11, <1>12, <1>13
    DEF Next, PortThread, ReadEnds, World, Main

LEMMA InitTypes == Init => TypeOK
<1> SUFFICES ASSUME Init PROVE TypeOK
  OBVIOUS
<1>1. buffer = << >> /\ calls = << >> /\ signals = << >>
  BY DEF Init, Q!Init
<1>2. buffer \in Seq(Nat) /\ Len(buffer) = 0
  BY <1>1
<1>3. calls \in Seq(Calls) /\ signals \in Seq(BOOLEAN)
  BY <1>1
<1>4. /\ kind \in Kinds /\ device = "null" /\ sent = 0 /\ gone = 0 /\ edits = 0
      /\ reading = Nobody /\ active = FALSE /\ removing = FALSE
  BY DEF Init
<1>5. Len(buffer) <= Capacity
  BY <1>2, PortAssumption
<1> QED BY <1>2, <1>3, <1>4, <1>5 DEF TypeOK

(* The types hold: what the handlers of three kinds of port leave in the   *)
(* buffer, the queues between the threads and the row is of its type, and  *)
(* the buffer never outgrows bufferSize.                                   *)
THEOREM PortTypeOK == Spec => []TypeOK
<1>1. Init => TypeOK
  BY InitTypes
<1>2. TypeOK /\ [Next]_vars => TypeOK'
  <2> SUFFICES ASSUME TypeOK, [Next]_vars PROVE TypeOK'
    OBVIOUS
  <2> QED BY StepBytes, StepRest DEF BytesStep, Bytes, Rest, TypeOK, Session
<1> QED BY <1>1, <1>2, PTL DEF Spec

(* Whatever a port has received while it is open is in its buffer without  *)
(* a gap until a script takes it: ReadyRead, the reads and close.          *)
THEOREM PortNoGap == Spec => []NoGap
<1>1. Init => IGap
  <2>1. Init => device # "open"
    BY DEF Init
  <2>2. Init => TypeOK
    BY InitTypes
  <2> QED BY <2>1, <2>2 DEF IGap
<1>2. TypeOK /\ TypeOK' /\ IGap /\ [Next]_vars => IGap'
  BY StepBytes DEF IGap, BytesStep
<1>3. TypeOK /\ IGap => NoGap
  BY GaplessIsRun DEF IGap, NoGap, TypeOK, Bytes
<1> QED BY <1>1, <1>2, <1>3, PortTypeOK, PTL DEF Spec

(***************************************************************************)
(* The switch.                                                             *)
(***************************************************************************)

(* What the row will show when all signals have been taken. *)
Coming == IF signals = << >> THEN active ELSE signals[Len(signals)]

(* That is the last that any handler reports, the destructor included.     *)
Shown == {"open", "refused"}
ISwitch == /\ device = "refused" => kind = "UdpSocket"
           /\ Coming <=> device \in Shown

LEMMA EmitComing ==
  ASSUME TypeOK, NEW shown \in Session, shown # << >>, Emit(shown), UNCHANGED active
  PROVE  Coming' = shown[Len(shown)]
<1>1. signals \in Seq(BOOLEAN) /\ shown \in Seq(BOOLEAN) /\ Len(shown) \in Nat \ {0}
  BY DEF TypeOK, Session
<1>2. signals' = signals \o shown /\ Len(signals') = Len(signals) + Len(shown)
  BY <1>1 DEF Emit
<1>3. signals'[Len(signals')] = shown[Len(shown)]
  BY <1>1, <1>2
<1>4. signals' # << >>
  BY <1>1, <1>2
<1> QED BY <1>3, <1>4 DEF Coming

LEMMA EmitNothing ==
  ASSUME TypeOK, Emit(<< >>), UNCHANGED active
  PROVE  Coming' = Coming
<1>1. signals' = signals
  BY DEF Emit, TypeOK
<1> QED BY <1>1 DEF Coming

LEMMA EmitsFalse ==
  ASSUME TypeOK, Emit(<<FALSE>>) \/ Emit(<<FALSE, FALSE>>), UNCHANGED active
  PROVE  ~Coming'
<1>1. <<FALSE>> \in Session /\ <<FALSE, FALSE>> \in Session
  BY DEF Session
<1> QED BY <1>1, EmitComing

LEMMA CloseComing ==
  ASSUME TypeOK, Close, UNCHANGED active
  PROVE  device' = "closed" /\ ~Coming'
<1>1. Emit(<<FALSE>>) \/ Emit(<<FALSE, FALSE>>)
  BY PortAssumption DEF Close, SerialClose, UdpClose, TcpClose, TypeOK
<1> QED BY <1>1, EmitsFalse DEF Close

LEMMA EmitsTrue ==
  ASSUME TypeOK, Emit(<<TRUE>>) \/ Emit(<<FALSE, TRUE>>), UNCHANGED active
  PROVE  Coming'
<1>1. <<TRUE>> \in Session /\ <<TRUE>> # << >> /\ Len(<<TRUE>>) = 1 /\ <<TRUE>>[1] = TRUE
  BY DEF Session
<1>2. /\ <<FALSE, TRUE>> \in Session /\ <<FALSE, TRUE>> # << >>
      /\ Len(<<FALSE, TRUE>>) = 2 /\ <<FALSE, TRUE>>[2] = TRUE
  BY DEF Session
<1>3. CASE Emit(<<TRUE>>)
  <2>1. Coming' = <<TRUE>>[Len(<<TRUE>>)]
    BY <1>1, <1>3, EmitComing
  <2> QED BY <1>1, <2>1
<1>4. CASE Emit(<<FALSE, TRUE>>)
  <2>1. Coming' = <<FALSE, TRUE>>[Len(<<FALSE, TRUE>>)]
    BY <1>2, <1>4, EmitComing
  <2> QED BY <1>2, <2>1
<1> QED BY <1>3, <1>4

LEMMA StepComing ==
  ASSUME TypeOK, ISwitch, [Next]_vars
  PROVE  ISwitch'
<1> USE DEF port, row, Shown
<1>t. TypeOK /\ (device = "refused" => kind = "UdpSocket") /\ (Coming <=> device \in Shown)
  BY DEF ISwitch
<1>u. ASSUME UNCHANGED <<kind, device, signals, active>> PROVE ISwitch'
  BY <1>t, <1>u DEF ISwitch, Coming
<1>1. CASE Open
  <2>1. UNCHANGED <<kind, active>>
    BY <1>1 DEF Open
  <2>2. CASE device = "open" /\ UNCHANGED device /\ Emit(<< >>)
    BY <1>t, <2>1, <2>2, EmitNothing DEF ISwitch
  <2>3. CASE device' = "open" /\ Emit(<<TRUE>>)
    BY <2>1, <2>3, EmitsTrue DEF ISwitch
  <2>4. CASE kind = "UdpSocket" /\ UdpRefused
    BY <2>1, <2>4, EmitsTrue DEF UdpRefused, ISwitch
  <2>5. CASE device # "open" /\ Fails
    <3>1. CASE Emit(<< >>)
      <4>1. Coming' = Coming
        BY <2>1, <3>1, EmitNothing
      <4> QED BY <1>t, <2>1, <2>5, <4>1, OpenFails DEF ISwitch
    <3>2. CASE ~Emit(<< >>)
      <4>1. ~Coming'
        BY <2>1, <2>5, <3>2, OpenFails, EmitsFalse
      <4> QED BY <2>1, <2>5, <3>2, <4>1, OpenFails DEF ISwitch
    <3> QED BY <3>1, <3>2
  <2> QED BY <1>1, <2>2, <2>3, <2>4, <2>5 DEF Open, Fails
<1>2. CASE CloseCall
  <2>1. UNCHANGED <<kind, active>>
    BY <1>2 DEF CloseCall
  <2>2. CASE device = "null" /\ UNCHANGED device /\ Emit(<< >>)
    BY <1>t, <2>1, <2>2, EmitNothing DEF ISwitch
  <2>3. CASE Close
    BY <2>1, <2>3, CloseComing DEF ISwitch
  <2> QED BY <1>2, <2>2, <2>3 DEF CloseCall
<1>3. ASSUME NEW k \in Chunks, ReadyRead(k) PROVE ISwitch'
  <2>1. UNCHANGED <<kind, active>>
    BY <1>3 DEF ReadyRead
  <2>2. CASE UNCHANGED <<device, signals>>
    BY <2>1, <2>2, <1>u
  <2>3. CASE Close
    BY <2>1, <2>3, CloseComing DEF ISwitch
  <2> QED BY <1>3, <2>2, <2>3 DEF ReadyRead
<1>4. CASE Error
  <2>1. Emit(<<FALSE>>) \/ Emit(<<FALSE, FALSE>>)
    BY <1>4, PortAssumption DEF Error, SerialError, TcpError, UdpError, TypeOK
  <2>2. device' = "closed" /\ UNCHANGED active
    BY <1>4 DEF Error
  <2> QED BY <2>1, <2>2, EmitsFalse DEF ISwitch
<1>5. CASE Refresh
  <2>1. signals \in Seq(BOOLEAN) /\ signals # << >>
    BY <1>5, <1>t DEF Refresh, TypeOK
  <2>2. /\ active' = signals[1] /\ signals' = Tail(signals)
        /\ UNCHANGED <<kind, device>>
    BY <1>5, <2>1 DEF Refresh
  <2>3. CASE Len(signals) = 1
    <3>1. signals' = << >> /\ Coming = signals[1]
      BY <2>1, <2>2, <2>3 DEF Coming
    <3> QED BY <1>t, <2>2, <3>1 DEF ISwitch, Coming
  <2>4. CASE Len(signals) # 1
    <3>1. /\ Len(signals) \in Nat /\ Len(signals) > 1
          /\ Len(signals') = Len(signals) - 1 /\ signals' # << >>
      <4>1. Len(signals) \in Nat /\ Len(signals) > 1
        <5>1. Len(signals) \in Nat /\ Len(signals) # 0
          BY <2>1
        <5>2. \A n \in Nat : n # 0 /\ n # 1 => n > 1
          OBVIOUS
        <5> QED BY <2>4, <5>1, <5>2
      <4>2. Len(signals') = Len(signals) - 1
        BY <2>1, <2>2
      <4> QED BY <4>1, <4>2
    <3>2. signals'[Len(signals')] = signals[Len(signals)]
      BY <2>1, <2>2, <3>1
    <3>3. Coming' = Coming
      BY <2>1, <3>1, <3>2 DEF Coming
    <3> QED BY <1>t, <2>2, <3>3 DEF ISwitch
  <2> QED BY <2>3, <2>4
<1>6. CASE Inserted
  <2>1. kind' = kind /\ active' = FALSE /\ device' = "null"
    BY <1>6 DEF Inserted
  <2>2. CASE Emit(<< >>) /\ device = "null"
    <3>1. signals' = signals /\ ~Coming
      BY <1>t, <2>2 DEF Emit, TypeOK
    <3> QED BY <2>1, <3>1 DEF ISwitch, Coming
  <2>3. ASSUME NEW shown \in {<<FALSE>>, <<FALSE, FALSE>>}, Emit(shown) PROVE ISwitch'
    <3>1. /\ signals \in Seq(BOOLEAN) /\ shown \in Seq(BOOLEAN)
          /\ Len(shown) \in Nat \ {0} /\ shown[Len(shown)] = FALSE
      <4>1. CASE shown = <<FALSE>>
        BY <1>t, <4>1 DEF TypeOK
      <4>2. CASE shown = <<FALSE, FALSE>>
        BY <1>t, <4>2 DEF TypeOK
      <4> QED BY <2>3, <4>1, <4>2
    <3>2. signals' = signals \o shown /\ Len(signals') = Len(signals) + Len(shown)
      BY <2>3, <3>1 DEF Emit
    <3>3. signals'[Len(signals')] = FALSE /\ signals' # << >>
      BY <3>1, <3>2
    <3> QED BY <2>1, <3>3 DEF ISwitch, Coming
  <2> QED BY <1>6, <2>2, <2>3 DEF Inserted, Destroyed
<1>7. CASE ClearCall \/ ReadCall \/ ReadReturns \/ ReadGivesUp
  BY <1>7, <1>u DEF ClearCall, ReadCall, ReadReturns, ReadGivesUp
<1>8. CASE Toggle \/ Edit \/ (\E s \in Scripts : Script(s)) \/ UNCHANGED vars
  BY <1>8, <1>u DEF Toggle, Edit, Script, vars
<1> QED BY <1>1, <1>2, <1>3, <1>4, <1>5, <1>6, <1>7, <1>8
    DEF Next, PortThread, ReadEnds, World, Main

(* The switch of a row shows what the port last reported as soon as the    *)
(* signals between them have been taken, whatever opened, closed or        *)
(* replaced the port: it is on if the device is open, and for a UdpSocket  *)
(* that was refused while it was opened, and off otherwise.                *)
THEOREM PortSwitch == Spec => []SwitchShowsPort
<1>1. Init => ISwitch
  BY DEF Init, Coming, ISwitch, Shown
<1>2. TypeOK /\ ISwitch /\ [Next]_vars => ISwitch'
  BY StepComing
<1>3. ISwitch => SwitchShowsPort
  BY DEF ISwitch, SwitchShowsPort, Coming, Shown
<1> QED BY <1>1, <1>2, <1>3, PortTypeOK, PTL DEF Spec
=============================================================================
