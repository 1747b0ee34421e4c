--------------------------- MODULE Authenticator ---------------------------
(***************************************************************************)
(* The authenticator of the store (struct Authenticator of store_main.cpp) *)
(* and what it drives: the connections of the RPC pool, the waiting queue  *)
(* recipient_q_, the counter behind the Online/Offline status, and the     *)
(* auth.data file another program rewrites.                                *)
(*                                                                         *)
(* Three threads run it: the RPC thread (connection callbacks, one at a    *)
(* time), the file monitor thread (onAuthFileChange, under mutex_) and the *)
(* GUI thread (the queued onlineSignal).  onConnectionInit takes mutex_    *)
(* twice, so a file change can come between its two critical sections.     *)
(*                                                                         *)
(* A connection is known by its RecipientId, which is never used again:    *)
(* a reconnection is another member of Conns.                              *)
(***************************************************************************)
EXTENDS Integers, Sequences, FiniteSets

CONSTANTS
    Conns,      \* connections, each of which may live once
    MaxActive,  \* pool_max_active_connection_count
    AuthData    \* contents auth.data may have: endpoint, user and token

None == ""      \* an empty string of the source

ASSUME AuthenticatorAssumption ==
    /\ IsFiniteSet(Conns)
    /\ MaxActive \in Nat
    /\ AuthData \subseteq [endpoint : STRING, user : STRING, token : STRING]

VARIABLES
    main,         \* WinMain: starting, serving the connections, running its
                  \* event loop as well, exiting, over
    file,         \* contents of auth.data
    changed,      \* auth.data was written since the monitor last looked
    reading,      \* the monitor has seen a change and calls onAuthFileChange
    endpoint,     \* endpoint_
    user,         \* user_
    token,        \* token_
    recipient_q,  \* recipient_q_
    conn,         \* state of each connection
    initing,      \* connection between the critical sections of onConnectionInit
    auth,         \* token of the AuthRequest in flight for a connection, or None
    refused,      \* history: connections whose last AuthRequest was refused
    active_count, \* active_count_
    signals,      \* queued onlineSignal events
    status        \* the status bar: is the store shown online

authVars   == <<endpoint, user, token>>
fileVars   == <<file, changed, reading>>
statusVars == <<active_count, signals>>
vars == <<main, fileVars, authVars, recipient_q, conn, initing, auth,
          refused, statusVars, status>>

\* "lost": closed after its AuthResponse, before the event that makes it
\* active was processed.
ConnE == {"unborn", "starting", "passive", "entering", "active", "closed", "lost"}
Live  == {c \in Conns : conn[c] \in {"starting", "passive", "entering", "active"}}
Queued == {recipient_q[k] : k \in DOMAIN recipient_q}

Init ==
    /\ main = "starting"
    /\ file \in AuthData
    /\ changed = TRUE
    /\ reading = FALSE
    /\ endpoint = None /\ user = None /\ token = None
    /\ recipient_q = <<>>
    /\ conn = [c \in Conns |-> "unborn"]
    /\ initing = {}
    /\ auth = [c \in Conns |-> None]
    /\ refused = {}
    /\ active_count = 0
    /\ signals = <<>>
    /\ status = FALSE

-----------------------------------------------------------------------------
(* Main thread.                                                            *)

\* WinMain creates the connection pool if the endpoint was given on the
\* command line or is known from auth.data; otherwise it returns.
Start ==
    /\ main = "starting"
    /\ \E given \in BOOLEAN :
         main' = IF given \/ token # None THEN "serving" ELSE "over"
    /\ UNCHANGED <<fileVars, authVars, recipient_q, conn, initing, auth, refused,
                   statusVars, status>>

\* The engine is started, the window is shown and the event loop entered.
Exec ==
    /\ main = "serving"
    /\ main' = "running"
    /\ UNCHANGED <<fileVars, authVars, recipient_q, conn, initing, auth, refused,
                   statusVars, status>>

\* The event loop has ended and WinMain returns.
Finish ==
    /\ main = "exiting"
    /\ main' = "over"
    /\ UNCHANGED <<fileVars, authVars, recipient_q, conn, initing, auth, refused,
                   statusVars, status>>

\* Mutant of OnOnline: the newest signal first.
OnOnlineNewestFirst ==
    /\ main = "running"
    /\ signals # <<>>
    /\ status' = signals[Len(signals)]
    /\ signals' = SubSeq(signals, 1, Len(signals) - 1)
    /\ UNCHANGED <<main, fileVars, authVars, recipient_q, conn, initing, auth,
                   refused, active_count>>

\* onOnline: the queued signals reach the status bar in order.
OnOnline ==
    /\ main = "running"
    /\ signals # <<>>
    /\ status' = Head(signals)
    /\ signals' = Tail(signals)
    /\ UNCHANGED <<main, fileVars, authVars, recipient_q, conn, initing, auth,
                   refused, active_count>>

-----------------------------------------------------------------------------
(* The auth.data file and its monitor.                                     *)

\* The program that logs the user in or out rewrites the file.
WriteFile ==
    /\ main # "over"
    /\ \E data \in AuthData : data # file /\ file' = data
    /\ changed' = TRUE
    /\ UNCHANGED <<main, reading, authVars, recipient_q, conn, initing, auth,
                   refused, statusVars, status>>

MonitorNotices ==
    /\ main # "over"
    /\ changed /\ ~reading
    /\ changed' = FALSE
    /\ reading' = TRUE
    /\ UNCHANGED <<main, file, authVars, recipient_q, conn, initing, auth, refused,
                   statusVars, status>>

\* Mutant of SameAccount: only the endpoint is compared.
SameEndpoint(data) == endpoint \in {None, data.endpoint}

SameAccount(data) ==
    /\ endpoint \in {None, data.endpoint}
    /\ user \in {None, data.user}

\* stop_fnc_ is QApplication::exit: without a running event loop it does
\* nothing.
StopProgram == main' = IF main = "running" THEN "exiting" ELSE main

\* Mutant of SendToQueued: the queue is not emptied.
SendToQueuedKeeping ==
    /\ auth' = [c \in Conns |-> IF c \in Queued THEN file.token ELSE auth[c]]
    /\ refused' = refused \ Queued
    /\ UNCHANGED recipient_q

\* Mutant of SendToQueued: `if` in place of `while`.
SendToFirstQueued ==
    \/ recipient_q = <<>> /\ UNCHANGED <<auth, recipient_q, refused>>
    \/ /\ recipient_q # <<>>
       /\ auth' = [auth EXCEPT ![Head(recipient_q)] = file.token]
       /\ recipient_q' = Tail(recipient_q)
       /\ refused' = refused \ {Head(recipient_q)}

\* Mutant of SendToQueued: the requests are made before the token is stored.
SendToQueuedEarly ==
    /\ auth' = [c \in Conns |-> IF c \in Queued THEN token ELSE auth[c]]
    /\ recipient_q' = <<>>
    /\ refused' = refused \ Queued

\* Every waiting connection is sent an AuthRequest with the new token.
SendToQueued ==
    /\ auth' = [c \in Conns |-> IF c \in Queued THEN file.token ELSE auth[c]]
    /\ recipient_q' = <<>>
    /\ refused' = refused \ Queued

\* Mutant of OnAuthFileChange: another account leaves the token in use.
OnAuthFileChangeKeepsToken ==
    /\ main # "over"
    /\ reading
    /\ reading' = FALSE
    /\ IF SameAccount(file)
         THEN endpoint' = file.endpoint /\ user' = file.user /\ token' = file.token
         ELSE UNCHANGED authVars
    /\ \/ /\ token' = None
          /\ StopProgram
          /\ UNCHANGED <<recipient_q, auth, refused>>
       \/ /\ token' # None
          /\ SendToQueued
          /\ UNCHANGED main
    /\ UNCHANGED <<file, changed, conn, initing, statusVars, status>>

\* Mutant of OnAuthFileChange: the queue is served only when the token is new.
OnAuthFileChangeIfNew ==
    /\ main # "over"
    /\ reading
    /\ reading' = FALSE
    /\ IF SameAccount(file)
         THEN endpoint' = file.endpoint /\ user' = file.user /\ token' = file.token
         ELSE token' = None /\ UNCHANGED <<endpoint, user>>
    /\ \/ /\ token' = None
          /\ StopProgram
          /\ UNCHANGED <<recipient_q, auth, refused>>
       \/ /\ token' # None
          /\ IF token' = token THEN UNCHANGED <<auth, recipient_q, refused>> ELSE SendToQueued
          /\ UNCHANGED main
    /\ UNCHANGED <<file, changed, conn, initing, statusVars, status>>

\* onAuthFileChange, all of it under mutex_: data of another account and
\* data without a token end the program, a new token is used at once.
OnAuthFileChange ==
    /\ main # "over"
    /\ reading
    /\ reading' = FALSE
    /\ IF SameAccount(file)
         THEN endpoint' = file.endpoint /\ user' = file.user /\ token' = file.token
         ELSE token' = None /\ UNCHANGED <<endpoint, user>>
    /\ \/ /\ token' = None
          /\ StopProgram
          /\ UNCHANGED <<recipient_q, auth, refused>>
       \/ /\ token' # None
          /\ SendToQueued
          /\ UNCHANGED main
    /\ UNCHANGED <<file, changed, conn, initing, statusVars, status>>

-----------------------------------------------------------------------------
(* RPC thread.                                                             *)

RpcRuns == main \in {"serving", "running", "exiting"} /\ initing = {}

\* The pool opens a connection: onConnectionStart sends the InitRequest.
OnConnectionStart(c) ==
    /\ RpcRuns
    /\ conn[c] = "unborn"
    /\ Cardinality(Live) < MaxActive
    /\ conn' = [conn EXCEPT ![c] = "starting"]
    /\ UNCHANGED <<main, fileVars, authVars, recipient_q, initing, auth, refused,
                   statusVars, status>>

\* onConnectionInit, first critical section: behind others in the queue the
\* connection waits with them.
OnConnectionInit(c) ==
    /\ RpcRuns
    /\ conn[c] = "starting"
    /\ conn' = [conn EXCEPT ![c] = "passive"]
    /\ \/ /\ recipient_q # <<>>
          /\ recipient_q' = Append(recipient_q, c)
          /\ UNCHANGED initing
       \/ /\ recipient_q = <<>>
          /\ initing' = {c}
          /\ UNCHANGED recipient_q
    /\ UNCHANGED <<main, fileVars, authVars, auth, refused, statusVars, status>>

\* Second critical section: the token is sent, or the connection waits.
InitAuth(c) ==
    /\ c \in initing
    /\ initing' = {}
    /\ \/ /\ token # None
          /\ auth' = [auth EXCEPT ![c] = token]
          /\ UNCHANGED recipient_q
       \/ /\ token = None
          /\ recipient_q' = Append(recipient_q, c)
          /\ UNCHANGED auth
    /\ UNCHANGED <<main, fileVars, authVars, conn, refused, statusVars, status>>

\* An InitResponse with an error: logged, the connection stays as it is.
InitRefused(c) ==
    /\ RpcRuns
    /\ conn[c] = "starting"
    /\ conn' = [conn EXCEPT ![c] = "passive"]
    /\ UNCHANGED <<main, fileVars, authVars, recipient_q, initing, auth, refused,
                   statusVars, status>>

\* onAuthResponse, accepted: the connection is told to become active, and
\* the first one turns the store online.
AuthAccepted(c) ==
    /\ RpcRuns
    /\ auth[c] # None /\ conn[c] = "passive"
    /\ auth' = [auth EXCEPT ![c] = None]
    /\ conn' = [conn EXCEPT ![c] = "entering"]
    /\ active_count' = active_count + 1
    /\ signals' = IF active_count = 0 THEN Append(signals, TRUE) ELSE signals
    /\ UNCHANGED <<main, fileVars, authVars, recipient_q, initing, refused, status>>

\* onAuthResponse, refused: the connection waits for another token.
AuthRefused(c) ==
    /\ RpcRuns
    /\ auth[c] # None /\ conn[c] = "passive"
    /\ auth' = [auth EXCEPT ![c] = None]
    /\ recipient_q' = Append(recipient_q, c)
    /\ refused' = refused \cup {c}
    /\ UNCHANGED <<main, fileVars, authVars, conn, initing, statusVars, status>>

\* onAuthResponse without a response: the connection is gone.
AuthLost(c) ==
    /\ RpcRuns
    /\ auth[c] # None /\ conn[c] = "closed"
    /\ auth' = [auth EXCEPT ![c] = None]
    /\ UNCHANGED <<main, fileVars, authVars, recipient_q, conn, initing, refused,
                   statusVars, status>>

\* The event of connectionNotifyEnterActiveState reaches the connection.
EnterActive(c) ==
    /\ RpcRuns
    /\ conn[c] = "entering"
    /\ conn' = [conn EXCEPT ![c] = "active"]
    /\ UNCHANGED <<main, fileVars, authVars, recipient_q, initing, auth, refused,
                   statusVars, status>>

\* Mutant of OnConnectionStop: every connection is counted down.
OnConnectionStopAny(c) ==
    /\ RpcRuns
    /\ c \in Live
    /\ conn' = [conn EXCEPT ![c] = IF @ = "entering" THEN "lost" ELSE "closed"]
    /\ active_count' = active_count - 1
    /\ signals' = IF active_count = 1 THEN Append(signals, FALSE) ELSE signals
    /\ UNCHANGED <<main, fileVars, authVars, recipient_q, initing, auth, refused, status>>

\* Mutant of OnConnectionStop: fetch_sub taken to return the new value.
OnConnectionStopEarly(c) ==
    /\ RpcRuns
    /\ c \in Live
    /\ conn' = [conn EXCEPT ![c] = IF @ = "entering" THEN "lost" ELSE "closed"]
    /\ \/ /\ conn[c] = "active"
          /\ active_count' = active_count - 1
          /\ signals' = IF active_count = 2 THEN Append(signals, FALSE) ELSE signals
       \/ conn[c] # "active" /\ UNCHANGED statusVars
    /\ UNCHANGED <<main, fileVars, authVars, recipient_q, initing, auth, refused, status>>

\* onConnectionStop: only an active connection is counted down; the last
\* one turns the store offline.  fetch_sub wraps below zero.
OnConnectionStop(c) ==
    /\ RpcRuns
    /\ c \in Live
    /\ conn' = [conn EXCEPT ![c] = IF @ = "entering" THEN "lost" ELSE "closed"]
    /\ \/ /\ conn[c] = "active"
          /\ active_count' = active_count - 1
          /\ signals' = IF active_count = 1 THEN Append(signals, FALSE) ELSE signals
       \/ conn[c] # "active" /\ UNCHANGED statusVars
    /\ UNCHANGED <<main, fileVars, authVars, recipient_q, initing, auth, refused, status>>

-----------------------------------------------------------------------------
Monitor == MonitorNotices \/ OnAuthFileChange

Rpc == \E c \in Conns :
    \/ OnConnectionStart(c) \/ OnConnectionInit(c) \/ InitAuth(c) \/ InitRefused(c)
    \/ AuthAccepted(c) \/ AuthRefused(c) \/ AuthLost(c) \/ EnterActive(c)
    \/ OnConnectionStop(c)

Next == Start \/ Exec \/ Finish \/ OnOnline \/ WriteFile \/ Monitor \/ Rpc

Spec == Init /\ [][Next]_vars

\* The monitor thread and the event loop run what is queued for them.
FairSpec == Spec /\ WF_vars(Monitor) /\ WF_vars(OnOnline)

-----------------------------------------------------------------------------
(* Properties.                                                             *)

Endpoints == {None} \cup {data.endpoint : data \in AuthData}
Users     == {None} \cup {data.user : data \in AuthData}
Tokens    == {None} \cup {data.token : data \in AuthData}

\* Types; active_count_ is a size_t, so a negative value would be a wrap.
TypeOK ==
    /\ main \in {"starting", "serving", "running", "exiting", "over"}
    /\ file \in AuthData
    /\ changed \in BOOLEAN
    /\ reading \in BOOLEAN
    /\ endpoint \in Endpoints /\ user \in Users /\ token \in Tokens
    /\ recipient_q \in Seq(Conns)
    /\ conn \in [Conns -> ConnE]
    /\ initing \subseteq Conns
    /\ auth \in [Conns -> Tokens]
    /\ refused \subseteq Conns
    /\ active_count \in Nat
    /\ signals \in Seq(BOOLEAN)
    /\ status \in BOOLEAN

Waits(c)   == c \in Queued
InAuth(c)  == auth[c] # None
Entered(c) == conn[c] \in {"entering", "active", "lost"}

\* A connection is authenticated along one path: it waits in the queue, at
\* one place only, or has one AuthRequest in flight, or has been accepted,
\* never two of these, whatever file changes came between the two critical
\* sections of onConnectionInit and whatever was refused and queued again.
OneAuthPath ==
    /\ \A c \in Conns : /\ ~(Waits(c) /\ InAuth(c))
                        /\ Entered(c) => ~Waits(c) /\ ~InAuth(c)
                        /\ c \in initing => ~Waits(c) /\ ~InAuth(c)
    /\ \A j, k \in DOMAIN recipient_q : recipient_q[j] = recipient_q[k] => j = k

\* active_count_ counts every accepted connection once: the active ones, the
\* ones about to be, and the ones that stopped in between, which
\* onConnectionStop does not count down.
CountCoversAccepted == active_count = Cardinality({c \in Conns : Entered(c)})

\* The store is never shown offline while a connection is active: with no
\* signal on its way, an offline status bar means that none is.
OfflineIsTrue ==
    (signals = <<>> /\ ~status) => \A c \in Conns : conn[c] # "active"

\* The token in use is the one on disk once the monitor has caught up with
\* it, and none when the file was emptied or belongs to another account.
TokenIsCurrent ==
    ~changed /\ ~reading =>
        token = IF SameAccount(file) THEN file.token ELSE None

\* Every AuthRequest, however long it has been under way, carries a token of
\* the account the program was started for.
OnlyPinnedAccount ==
    \A c \in Conns : InAuth(c) =>
        \E data \in AuthData : /\ data.token = auth[c]
                               /\ data.endpoint = endpoint
                               /\ data.user = user

\* With a token at hand a connection waits only behind one that was refused:
\* neither of the critical sections of onConnectionInit strands one.
WaitsOnlyBehindRefused ==
    recipient_q # <<>> /\ token # None => Head(recipient_q) \in refused

Promised == INSTANCE Session WITH
    waiting <- Queued,
    asked   <- auth,
    in      <- {c \in Conns : Entered(c)},
    news    <- signals,
    shown   <- status

\* Whatever the connections, the service and auth.data do, and in whatever
\* order, a connection is asked for, waits, is accepted and leaves as Session
\* has it: it joins the queue only if there is no token or others wait or it
\* was refused, all who wait are asked with the new token, and the status bar
\* is sent the first acceptance and the last stop.
ImplementsSession == Promised!Spec

\* A change of auth.data reaches every waiting connection, or ends the
\* program.  It is stated from the time the event loop runs: a stop asked
\* for before that is lost, and the connections wait for another change.
ChangeDrainsQueue ==
    \A c \in Conns :
        (main = "running" /\ changed /\ Waits(c)) ~> (~Waits(c) \/ main \in {"exiting", "over"})

\* When the last connection has been counted down the status bar says so in
\* the end, unless one is accepted again or the program ends first.
OfflineIsShown ==
    (main = "running" /\ active_count = 0) ~>
        (~status \/ active_count > 0 \/ main # "running")
=============================================================================
