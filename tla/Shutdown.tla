------------------------------ MODULE Shutdown ------------------------------
(***************************************************************************)
(* The end of the store (WinMain in store_main.cpp): the GUI thread leaves *)
(* the event loop, stops the RPC service, and destroys what WinMain has on *)
(* its stack, last constructed first, while the RPC thread, the pool and   *)
(* the file monitor go on until what runs them is stopped or destroyed.    *)
(*                                                                         *)
(* What a thread does is left to StoreFeed, ItemPage and Authenticator;    *)
(* here it is the objects it uses.  stop() of the service returns when     *)
(* each request has been completed, with an error if need be, and each     *)
(* connection has stopped; the destructors of the file monitor and of the  *)
(* pool join their threads; the pool may drop what is queued by then.      *)
(***************************************************************************)
EXTENDS Integers, Sequences

CONSTANTS
    MaxRequests,    \* requests of a kind under way (bounds a run)
    PoolCapacity    \* tasks the pool's queue holds

ASSUME ShutdownAssumption == {MaxRequests, PoolCapacity} \subseteq Nat \ {0}

VARIABLES
    main,           \* the GUI thread: starting, running, stopping, leaving, over
    gone,           \* how many of the objects are destroyed
    requests,       \* RPC requests and connections under way, of each kind
    tasks,          \* tasks in the pool's queue
    changed,        \* auth.data has changed since the monitor looked
    dangling        \* history: threads with the destroyed objects they have used

vars == <<main, gone, requests, tasks, changed, dangling>>

\* The objects on the stack of WinMain, in the order they are destroyed.
Stack == <<"main_window", "engine", "authenticator", "file_monitor", "pool",
           "rpc_service", "aioscheduler">>
Alive(object) == \E k \in gone + 1 .. Len(Stack) : Stack[k] = object

\* The thread uses objects, some of which may be gone.
Uses(thread, objects) ==
    dangling' = dangling \cup {<<thread, o>> : o \in {o \in objects : ~Alive(o)}}

\* What the completion of a request uses: the engine's of a fetch push a
\* task, those of the item page signal the window, and a connection's ask
\* the authenticator, which may signal the window.
Kinds == {"fetch", "item", "connection"}
UsedBy(kind) ==
    CASE kind = "fetch"      -> {"engine", "pool"}
      [] kind = "item"       -> {"engine", "main_window"}
      [] kind = "connection" -> {"authenticator", "main_window", "rpc_service"}

Init ==
    /\ main = "starting"
    /\ gone = 0
    /\ requests = [kind \in Kinds |-> 0]
    /\ tasks = 0
    /\ changed = TRUE
    /\ dangling = {}

-----------------------------------------------------------------------------
(* The GUI thread.                                                         *)

\* With the endpoint known, or read from auth.data, connections are made
\* and the engine starts; without it WinMain returns.
Start ==
    /\ main = "starting"
    /\ \/ /\ main' = "running"
          /\ requests' = [kind \in Kinds |-> IF kind = "item" THEN 0 ELSE 1]
       \/ /\ main' = "leaving"
          /\ UNCHANGED requests
    /\ UNCHANGED <<gone, tasks, changed, dangling>>

\* The user scrolls on, opens an item or changes one.
Send ==
    /\ main = "running"
    /\ \E kind \in Kinds :
         /\ requests[kind] < MaxRequests
         /\ requests' = [requests EXCEPT ![kind] = @ + 1]
    /\ UNCHANGED <<main, gone, tasks, changed, dangling>>

\* The window is closed, or the monitor asks for the end.
Quit ==
    /\ main = "running"
    /\ main' = "stopping"
    /\ UNCHANGED <<gone, requests, tasks, changed, dangling>>

\* Mutant of Stopped: the service is not stopped before WinMain returns.
StoppedAtOnce ==
    /\ main = "stopping"
    /\ main' = "leaving"
    /\ UNCHANGED <<gone, requests, tasks, changed, dangling>>

\* front_rpc_service.stop() returns.
Stopped ==
    /\ main = "stopping"
    /\ \A kind \in Kinds : requests[kind] = 0
    /\ main' = "leaving"
    /\ UNCHANGED <<gone, requests, tasks, changed, dangling>>

\* The next object is destroyed.
Destroy ==
    /\ main = "leaving"
    /\ gone' = gone + 1
    /\ main' = IF gone' = Len(Stack) THEN "over" ELSE main
    /\ tasks' = IF Stack[gone'] = "pool" THEN 0 ELSE tasks
    /\ UNCHANGED <<requests, changed, dangling>>

Gui == Stopped \/ Destroy

-----------------------------------------------------------------------------
(* The other threads.                                                      *)

\* The RPC thread completes a request; pushOne waits while the queue is full.
Complete ==
    \E kind \in Kinds :
      /\ Alive("aioscheduler") /\ requests[kind] > 0
      /\ kind = "fetch" => tasks < PoolCapacity
      /\ requests' = [requests EXCEPT ![kind] = @ - 1]
      /\ tasks' = IF kind = "fetch" THEN tasks + 1 ELSE tasks
      /\ Uses("rpc", UsedBy(kind))
      /\ UNCHANGED <<main, gone, changed>>

\* Mutant of PoolRun: the signal of the task waits for the slot.
PoolRunWaits ==
    /\ Alive("pool") /\ tasks > 0 /\ main = "running"
    /\ tasks' = tasks - 1
    /\ Uses("pool", {"main_window"})
    /\ UNCHANGED <<main, gone, requests, changed>>

\* A task gives its item to the list model, a member of the window, and may
\* queue a signal; it does not wait for the GUI thread.
PoolRun ==
    /\ Alive("pool") /\ tasks > 0
    /\ tasks' = tasks - 1
    /\ Uses("pool", {"main_window"})
    /\ UNCHANGED <<main, gone, requests, changed>>

FileChanges ==
    /\ ~changed
    /\ changed' = TRUE
    /\ UNCHANGED <<main, gone, requests, tasks, dangling>>

\* The monitor calls onAuthFileChange.
MonitorRuns ==
    /\ Alive("file_monitor") /\ changed
    /\ changed' = FALSE
    /\ Uses("monitor", {"authenticator", "rpc_service"})
    /\ UNCHANGED <<main, gone, requests, tasks>>

Next == Start \/ Send \/ Quit \/ Gui \/ Complete \/ PoolRun \/ FileChanges \/ MonitorRuns

Spec == Init /\ [][Next]_vars

\* Threads run; the user need not quit, nor a file change.
FairSpec == Spec /\ WF_vars(Gui) /\ WF_vars(Complete) /\ WF_vars(PoolRun)

-----------------------------------------------------------------------------
(* Properties.                                                             *)

TypeOK ==
    /\ main \in {"starting", "running", "stopping", "leaving", "over"}
    /\ gone \in 0 .. Len(Stack)
    /\ requests \in [Kinds -> 0 .. MaxRequests]
    /\ tasks \in 0 .. PoolCapacity
    /\ changed \in BOOLEAN
    /\ dangling \subseteq {"rpc", "pool", "monitor"} \X {Stack[k] : k \in 1 .. Len(Stack)}

\* No completion on the RPC thread, whatever was under way when the user
\* quit, uses an object that is destroyed: stop() keeps the window, the
\* engine and the authenticator until the last one.  Only a task left in the
\* pool may still use the window, and only the monitor the authenticator.
OnlyPoolAndMonitorDangle ==
    dangling \subseteq {<<"pool", "main_window">>, <<"monitor", "authenticator">>}

\* The program ends once the user quits: the GUI thread waits in stop() for
\* the RPC thread, which may wait for the pool, whose tasks wait for no one.
EndsAfterQuit == main = "stopping" ~> main = "over"
=============================================================================
