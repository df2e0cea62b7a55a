----------------------------- MODULE ThreadPool -----------------------------
(***************************************************************************)
(* src/src/runtime/threadpoolModule.cpp with the hooks of                  *)
(* luaInterpreter.cpp: one worker thread per Lua script, started, stopped, *)
(* debugged and waited for by the main thread.                             *)
(*                                                                         *)
(* Main and worker talk by events.  Two kinds block the sender until the   *)
(* receiver has handled the event: a debugger request (stateSet) blocks    *)
(* main until the worker is at a hook or held at a breakpoint, and a       *)
(* script that starts a thread blocks its worker until main is back in its *)
(* event loop.  A worker that ends tells main by events as well, posted    *)
(* together and handled here as one, and its interpreter is deleted before *)
(* main handles them.                                                      *)
(*                                                                         *)
(* A script is what it may do at its next line: go on, end, start a        *)
(* thread, be held.  Markers, terminals and values are left out.           *)
(***************************************************************************)
EXTENDS Naturals, FiniteSets

CONSTANTS Threads,      \* the threads that may ever be started
          Modes,        \* the modes in use, of Run, Debug and Agent
          CallsMain,    \* whether scripts start threads themselves
          MaxRequests   \* bound on the requests of the debugger

ASSUME PoolAssumption == /\ IsFiniteSet(Threads)
                         /\ Modes \subseteq {"Run", "Debug", "Agent"}
                         /\ CallsMain \in BOOLEAN
                         /\ MaxRequests \in Nat

VARIABLES mode,          \* of each thread, "none" before it is started
          worker,        \* what each thread is doing
          session,       \* the debugger state in its session
          interrupted,   \* threads whose interruption was requested
          known,         \* m_threadHash and m_interpreterHash
          terminating,   \* threads whose row shows Terminate
          run, debug,    \* m_run and m_debug
          answers,       \* how often finishThread was emitted for each thread
          main,          \* "loop", "waiting" in stateSet, "hung", or "closed"
          request,       \* the thread and the state main waits to be handled
          stopping,      \* threads quit has still to stop
          quit,          \* quit: the threads it is about, and how many it waits for
          requests       \* debugger requests so far

counters == <<run, debug>>
waiting == <<main, request>>
poolVars == <<mode, worker, session, interrupted, known, terminating, counters, answers,
              waiting, stopping, quit, requests>>

NoRequest == [of |-> {}, state |-> "none"]

(* of: the threads there when quit began; heard: those whose finished it   *)
(* is connected to and has not seen yet; left: total - current.            *)
NoQuit == [on |-> FALSE, of |-> {}, heard |-> {}, left |-> 0]

PoolInit == /\ mode = [t \in Threads |-> "none"]
            /\ worker = [t \in Threads |-> "none"]
            /\ session = [t \in Threads |-> "none"]
            /\ interrupted = {}
            /\ known = {}
            /\ terminating = {}
            /\ run = 0
            /\ debug = 0
            /\ answers = [t \in Threads |-> 0]
            /\ main = "loop"
            /\ request = NoRequest
            /\ stopping = {}
            /\ quit = NoQuit
            /\ requests = 0

(* Main handles events. *)
Looping == main = "loop" /\ stopping = {}

(***************************************************************************)
(* The main thread.                                                        *)
(***************************************************************************)

(* Bound: the calls under way find a thread that was never started. *)
Unused == {t \in Threads : mode[t] = "none"}
Calling == {t \in Threads : worker[t] = "calling"}
PoolRoom == Cardinality(Calling) < Cardinality(Unused)

(* threadStart and threadAppend. *)
ThreadStart(t, m) ==
    /\ t \in Unused
    /\ mode' = [mode EXCEPT ![t] = m]
    /\ session' = [session EXCEPT ![t] = IF m = "Debug" THEN "Resume" ELSE "none"]
    /\ known' = known \cup {t}
    /\ run' = IF m = "Run" THEN run + 1 ELSE run
    /\ debug' = IF m = "Run" THEN debug ELSE debug + 1
    /\ UNCHANGED <<interrupted, terminating, answers, waiting, stopping, quit, requests>>

(* By the user, or by a tool or a hook of the agent, which goes on while   *)
(* quit waits in its dialog.                                               *)
Start(t, m) ==
    /\ Looping /\ PoolRoom
    /\ quit.on => m = "Agent"
    /\ ThreadStart(t, m)
    /\ worker' = [worker EXCEPT ![t] = "running"]

(* Mutant: quit serves no calls. *)
ServeCallBeforeQuit(t, new) ==
    /\ Looping /\ ~quit.on /\ worker[t] = "calling"
    /\ ThreadStart(new, mode[t])
    /\ worker' = [worker EXCEPT ![t] = "running", ![new] = "running"]

(* thread.start of the script in t, which waits for it: same mode. *)
ServeCall(t, new) ==
    /\ Looping /\ worker[t] = "calling"
    /\ ThreadStart(new, mode[t])
    /\ worker' = [worker EXCEPT ![t] = "running", ![new] = "running"]

(* A thread that is over has forgotten, and takes, no interruption. *)
Interrupted(t) == interrupted' = IF worker[t] = "over" THEN interrupted
                                 ELSE interrupted \cup {t}

(* stateSet and valueSet.  The interpreter of a thread that is over has    *)
(* been deleted although it is still known: what the call then does is     *)
(* undefined; it may return or never do so.                                *)
StateSet(t, state) ==
    IF worker[t] = "over"
    THEN main' \in {"loop", "hung"} /\ UNCHANGED request
    ELSE main' = "waiting" /\ request' = [of |-> {t}, state |-> state]

(* The debugger's buttons. *)
DebugRequest(t, state) ==
    /\ Looping /\ ~quit.on
    /\ t \in known /\ mode[t] = "Debug"
    /\ requests < MaxRequests
    /\ requests' = requests + 1
    /\ IF state = "Terminate" THEN Interrupted(t) ELSE UNCHANGED interrupted
    /\ StateSet(t, state)
    /\ UNCHANGED <<mode, worker, session, known, terminating, counters, answers, stopping, quit>>

(* threadStop.  What is already being stopped brings up an error dialog. *)
ThreadStop(t) ==
    \/ /\ t \in known \ interrupted
       /\ Interrupted(t)
       /\ terminating' = terminating \cup {t}
       /\ IF mode[t] = "Debug" THEN StateSet(t, "Terminate") ELSE UNCHANGED waiting
       /\ UNCHANGED <<mode, worker, session, known, counters, answers, quit, requests>>
    \/ /\ t \notin known \ interrupted
       /\ UNCHANGED <<mode, worker, session, interrupted, known, terminating, counters,
                      answers, waiting, quit, requests>>

(* By the user, or by a script's thread.stop, which does not wait. *)
Stop(t) ==
    /\ Looping
    /\ ThreadStop(t)
    /\ UNCHANGED stopping

(* Mutant: the row's status instead of its mode says which counter goes down. *)
FinishedByStatus(t) ==
    /\ Looping /\ t \in known /\ worker[t] = "over"
    /\ known' = known \ {t}
    /\ terminating' = terminating \ {t}
    /\ run' = IF mode[t] = "Run" /\ t \notin terminating THEN run - 1 ELSE run
    /\ debug' = IF mode[t] = "Run" /\ t \notin terminating THEN debug ELSE debug - 1
    /\ answers' = IF mode[t] = "Agent" THEN [answers EXCEPT ![t] = @ + 1] ELSE answers
    /\ quit' = IF t \in quit.heard THEN [quit EXCEPT !.heard = @ \ {t}, !.left = @ - 1]
                                   ELSE quit
    /\ main' = IF t \in quit.heard /\ quit.left = 1 THEN "closed" ELSE main
    /\ UNCHANGED <<mode, worker, session, interrupted, request, stopping, requests>>

(* Main handles what a worker's finished is connected to. *)
Finished(t) ==
    /\ Looping /\ t \in known /\ worker[t] = "over"
    /\ known' = known \ {t}
    /\ terminating' = terminating \ {t}
    /\ run' = IF mode[t] = "Run" THEN run - 1 ELSE run
    /\ debug' = IF mode[t] = "Run" THEN debug ELSE debug - 1
    /\ answers' = IF mode[t] = "Agent" THEN [answers EXCEPT ![t] = @ + 1] ELSE answers
    /\ quit' = IF t \in quit.heard THEN [quit EXCEPT !.heard = @ \ {t}, !.left = @ - 1]
                                   ELSE quit
    /\ main' = IF t \in quit.heard /\ quit.left = 1 THEN "closed" ELSE main
    /\ UNCHANGED <<mode, worker, session, interrupted, request, stopping, requests>>

(* Mutant: the threads already being stopped are not waited for. *)
QuitPastStopped ==
    /\ Looping /\ ~quit.on
    /\ LET of == known \ interrupted
           heard == {t \in of : worker[t] # "over"}
       IN /\ quit' = [on |-> TRUE, of |-> known, heard |-> heard, left |-> Cardinality(of)]
          /\ main' = IF of = {} THEN "closed" ELSE main
    /\ stopping' = known
    /\ UNCHANGED <<mode, worker, session, interrupted, known, terminating, counters,
                   answers, request, requests>>

(* quit: all threads in the hash are counted, but the finished of one that *)
(* is over has been emitted before quit connects to it.                    *)
Quit ==
    /\ Looping /\ ~quit.on
    /\ quit' = [on |-> TRUE, of |-> known,
                heard |-> {t \in known : worker[t] # "over"}, left |-> Cardinality(known)]
    /\ main' = IF known = {} THEN "closed" ELSE main
    /\ stopping' = known
    /\ UNCHANGED <<mode, worker, session, interrupted, known, terminating, counters,
                   answers, request, requests>>

(* quit stops one thread after the other, then enters its own event loop. *)
QuitStop(t) ==
    /\ main = "loop" /\ t \in stopping
    /\ stopping' = stopping \ {t}
    /\ ThreadStop(t)

(***************************************************************************)
(* A worker.                                                               *)
(***************************************************************************)

(* A script starts a thread. *)
Call(t) ==
    /\ CallsMain /\ PoolRoom /\ worker[t] = "running"
    /\ worker' = [worker EXCEPT ![t] = "calling"]
    /\ UNCHANGED <<mode, session, interrupted, known, terminating, counters, answers,
                   waiting, stopping, quit, requests>>

(* Mutant: only a hook handles requests. *)
HandleAtHook(t) ==
    /\ main = "waiting" /\ t \in request.of
    /\ worker[t] = "running"
    /\ session' = [session EXCEPT ![t] = request.state]
    /\ main' = "loop"
    /\ request' = NoRequest
    /\ UNCHANGED <<mode, worker, interrupted, known, terminating, counters, answers,
                   stopping, quit, requests>>

(* The debug hook, or the loop of a held thread, handles main's request.   *)
Handle(t) ==
    /\ main = "waiting" /\ t \in request.of
    /\ worker[t] \in {"running", "held"}
    /\ IF request.state = "Value" THEN UNCHANGED <<session, worker>>
       ELSE /\ session' = [session EXCEPT ![t] = request.state]
            /\ worker' = [worker EXCEPT ![t] = IF request.state = "Pause" THEN @ ELSE "running"]
    /\ main' = "loop"
    /\ request' = NoRequest
    /\ UNCHANGED <<mode, interrupted, known, terminating, counters, answers,
                   stopping, quit, requests>>

(* The debug hook holds the script: a request to pause, a step that is     *)
(* done, or a breakpoint.  It looks at an interruption only afterwards.    *)
Hold(t) ==
    /\ worker[t] = "running" /\ session[t] \in {"Resume", "Step", "Pause"}
    /\ session' = [session EXCEPT ![t] = "Pause"]
    /\ worker' = [worker EXCEPT ![t] = "held"]
    /\ UNCHANGED <<mode, interrupted, known, terminating, counters, answers,
                   waiting, stopping, quit, requests>>

(* The script ends, by itself or because a hook raised "terminated".  The  *)
(* interpreter is deleted with the events posted to it, and who waits for  *)
(* one of them goes on.                                                    *)
End(t) ==
    /\ worker[t] = "running"
    /\ worker' = [worker EXCEPT ![t] = "over"]
    /\ interrupted' = interrupted \ {t}
    /\ IF t \in request.of THEN main' = "loop" /\ request' = NoRequest
                           ELSE UNCHANGED waiting
    /\ UNCHANGED <<mode, session, known, terminating, counters, answers,
                   stopping, quit, requests>>

(* What the debugger asks for; Step stands for the four steps, Value for a *)
(* new value of a variable.                                                *)
Requests == {"Terminate", "Resume", "Pause", "Step", "Value"}

PoolNext == \/ \E t \in Threads : \/ \E m \in Modes : Start(t, m)
                                  \/ \E new \in Threads : ServeCall(t, new)
                                  \/ \E state \in Requests : DebugRequest(t, state)
                                  \/ Stop(t) \/ Finished(t) \/ QuitStop(t)
                                  \/ Call(t) \/ Handle(t) \/ Hold(t) \/ End(t)
            \/ Quit

PoolSpec == PoolInit /\ [][PoolNext]_poolVars

(* Main handles its events.  A script comes to its next hook, and the hook *)
(* of an interrupted one ends it; a script left alone may run forever, and *)
(* a debugged one may be held forever.                                     *)
PoolFairSpec ==
    /\ PoolSpec
    /\ \A t \in Threads :
          /\ WF_poolVars(Finished(t)) /\ WF_poolVars(QuitStop(t)) /\ WF_poolVars(Handle(t))
          /\ WF_poolVars(\E new \in Threads : ServeCall(t, new))
          /\ SF_poolVars(t \in interrupted /\ End(t))

(***************************************************************************)
(* Properties.                                                             *)
(***************************************************************************)

PoolTypes == /\ mode \in [Threads -> Modes \cup {"none"}]
             /\ worker \in [Threads -> {"none", "running", "calling", "held", "over"}]
             /\ session \in [Threads -> Requests \cup {"none"}]
             /\ interrupted \subseteq known
             /\ terminating \subseteq known
             /\ known \subseteq Threads
             /\ run \in Nat /\ debug \in Nat
             /\ answers \in [Threads -> 0 .. 1]
             /\ main \in {"loop", "waiting", "hung", "closed"}
             /\ request \in [of : SUBSET known, state : Requests \cup {"none"}]
             /\ stopping \subseteq Threads
             /\ quit \in [on : BOOLEAN, of : SUBSET Threads, heard : SUBSET Threads, left : Nat]
             /\ requests \in Nat

(* The two counters of the status bar always tell how many threads of each *)
(* kind are known, whatever a stop did to the row a thread is shown in     *)
(* (threadAppend and its finished, threadStop).                            *)
CountersAgree ==
    /\ run = Cardinality({t \in known : mode[t] = "Run"})
    /\ debug = Cardinality({t \in known : mode[t] # "Run"})

(* The window closes only after every thread that was there when it was    *)
(* asked to close is over: quit's count misses none, also when some were   *)
(* being stopped already, or start further threads meanwhile (quit).       *)
QuitWaits == main = "closed" => \A t \in quit.of : worker[t] = "over"

(* A request that main has posted to a thread which is not over lets it go *)
(* on: the request is handled, at a hook or while the script is held, or   *)
(* the script ends; so it is with the requests of quit.  There is one      *)
(* exception, a script that waits for main before it comes to a hook       *)
(* (stateSet, the hooks, startThread).                                     *)
Deadlock == \E t \in request.of : worker[t] = "calling"
RequestsHandled == main = "waiting" ~> main = "loop" \/ Deadlock

(* What fails.  The exception does happen, and main hangs as well when it  *)
(* posts a request to a thread that is over and still in the hash.         *)
MainNeverBlocked == main # "hung" /\ (main = "waiting" => ~Deadlock)

(* A script that is stopped comes to its end and is forgotten, and the     *)
(* agent's tool that waits for it is answered once, whether it was just    *)
(* starting another thread or the window is closing (threadStop, and the   *)
(* finished of threadStart).                                               *)
StopEnds ==
    \A t \in Threads :
        t \in interrupted ~> \/ t \notin known /\ (mode[t] = "Agent" => answers[t] = 1)
                            \/ main = "closed"

(* When all the threads quit waits for are over it ends. *)
QuitEnds == quit.on /\ (\A t \in quit.of : worker[t] = "over") ~> main = "closed"
=============================================================================
