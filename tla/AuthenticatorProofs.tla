------------------------ MODULE AuthenticatorProofs ------------------------
(***************************************************************************)
(* Proofs about Authenticator, for any set of connections, any contents of *)
(* auth.data and any order of file changes, answers and stops.             *)
(*                                                                         *)
(* The invariant has five parts, each about the variables it names; a step *)
(* keeps a part unless it changes them, so there is one lemma for a part,  *)
(* and under it one step for each action that does.                        *)
(***************************************************************************)
EXTENDS Authenticator, FiniteSetTheorems, TLAPS

\* Where a connection is while it waits, is being authenticated, or is
\* between the two critical sections of onConnectionInit.
Stages ==
    \A c \in Conns :
      /\ Waits(c) \/ InAuth(c) => conn[c] \in {"passive", "closed"}
      /\ c \in initing => conn[c] = "passive"

Paths == OneAuthPath /\ Stages

\* What the status bar will show when all queued signals have reached it.
LastSignal == IF signals = <<>> THEN status ELSE signals[Len(signals)]

Counts == CountCoversAccepted /\ (LastSignal <=> active_count > 0)

AInv == TypeOK /\ Paths /\ Counts /\ TokenIsCurrent /\ WaitsOnlyBehindRefused

-----------------------------------------------------------------------------
(* The queue.                                                              *)

\* A connection appended to the queue joins those that wait.
LEMMA AppendQueued ==
  ASSUME NEW c \in Conns, recipient_q \in Seq(Conns), recipient_q' = Append(recipient_q, c)
  PROVE  Queued' = Queued \cup {c}
  BY DEF Queued

\* A connection that does not wait yet takes one place in the queue.
LEMMA AppendOnce ==
  ASSUME NEW c \in Conns, recipient_q \in Seq(Conns), c \notin Queued,
         \A j, k \in DOMAIN recipient_q : recipient_q[j] = recipient_q[k] => j = k,
         recipient_q' = Append(recipient_q, c)
  PROVE  (\A j, k \in DOMAIN recipient_q : recipient_q[j] = recipient_q[k] => j = k)'
  BY DEF Queued

\* Appending keeps the type of a queue.
LEMMA AppendType ==
  ASSUME NEW S, NEW s \in Seq(S), NEW x \in S
  PROVE  Append(s, x) \in Seq(S)
  OBVIOUS

\* Nobody waits in an empty queue.
LEMMA EmptyQueue ==
  ASSUME recipient_q = <<>>
  PROVE  Queued = {}
  BY DEF Queued

-----------------------------------------------------------------------------
(* Types of the fields.                                                    *)

\* An empty string is a value of each field.
LEMMA NoneTypes == None \in Endpoints /\ None \in Users /\ None \in Tokens
  BY DEF Endpoints, Users, Tokens

\* So is what auth.data says.
LEMMA FileTypes ==
  ASSUME file \in AuthData
  PROVE  file.endpoint \in Endpoints /\ file.user \in Users /\ file.token \in Tokens
  BY DEF Endpoints, Users, Tokens

-----------------------------------------------------------------------------
(* The invariant holds initially.                                          *)

\* Nothing is connected, counted or known when the program starts.
LEMMA InitAInv == Init => AInv
  <1> SUFFICES ASSUME Init PROVE AInv
    OBVIOUS
  <1>1. TypeOK
    <2>1. None \in Endpoints /\ None \in Users /\ None \in Tokens
      BY NoneTypes
    <2>2. recipient_q \in Seq(Conns) /\ signals \in Seq(BOOLEAN)
      BY DEF Init
    <2>3. conn \in [Conns -> ConnE] /\ auth \in [Conns -> Tokens]
      BY <2>1 DEF Init, ConnE
    <2> QED
      BY <2>1, <2>2, <2>3 DEF Init, TypeOK
  <1>2. Paths
    BY EmptyQueue DEF Init, Paths, OneAuthPath, Stages, Waits, InAuth, Entered
  <1>3. Counts
    <2>1. {c \in Conns : Entered(c)} = {}
      BY DEF Init, Entered
    <2> QED
      BY <2>1, FS_EmptySet DEF Init, Counts, CountCoversAccepted, LastSignal
  <1> QED
    BY <1>1, <1>2, <1>3 DEF AInv, Init, TokenIsCurrent, WaitsOnlyBehindRefused

-----------------------------------------------------------------------------
(* How many connections have been accepted.                                *)

\* A connection that is accepted, or counted down, is one more, or less.
LEMMA CountChange ==
  ASSUME CountCoversAccepted, NEW c \in Conns
  PROVE  /\ active_count \in Nat
         /\ Entered(c) => active_count > 0
         /\ ~Entered(c) =>
              Cardinality({d \in Conns : Entered(d)} \cup {c}) = active_count + 1
         /\ Entered(c) =>
              Cardinality({d \in Conns : Entered(d)} \ {c}) = active_count - 1
  <1> DEFINE E == {d \in Conns : Entered(d)}
  <1>1. IsFiniteSet(E)
    BY AuthenticatorAssumption, FS_Subset
  <1>2. active_count = Cardinality(E)
    BY DEF CountCoversAccepted
  <1> HIDE DEF E
  <1>3. c \in E <=> Entered(c)
    BY DEF E
  <1>4. c \in E => Cardinality(E) # 0
    BY <1>1, FS_EmptySet
  <1>5. Cardinality(E) \in Nat
    BY <1>1, FS_CardinalityType
  <1>6. c \notin E => Cardinality(E \cup {c}) = Cardinality(E) + 1
    BY <1>1, FS_AddElement
  <1>7. c \in E => Cardinality(E \ {c}) = Cardinality(E) - 1
    BY <1>1, FS_RemoveElement
  <1>8. Entered(c) => active_count > 0
    BY <1>2, <1>3, <1>4, <1>5
  <1> QED
    BY <1>2, <1>3, <1>5, <1>6, <1>7, <1>8 DEF E

-----------------------------------------------------------------------------
(* Each part of the invariant is kept by every step.                       *)

\* Types: the count is never taken below zero.
LEMMA StepTypes == AInv /\ [Next]_vars => TypeOK'
  <1> SUFFICES ASSUME AInv, [Next]_vars PROVE TypeOK'
    OBVIOUS
  <1>1. TypeOK
    BY DEF AInv
  <1>2. CASE Start \/ Exec \/ Finish
    BY <1>1, <1>2 DEF TypeOK, Start, Exec, Finish, fileVars, authVars, statusVars
  <1>3. CASE WriteFile \/ MonitorNotices
    BY <1>1, <1>3 DEF TypeOK, WriteFile, MonitorNotices, authVars, statusVars
  <1>4. CASE OnOnline
    BY <1>1, <1>4 DEF TypeOK, OnOnline, fileVars, authVars
  <1>5. CASE OnAuthFileChange
    <2>1. endpoint' \in Endpoints /\ user' \in Users /\ token' \in Tokens
      BY <1>1, <1>5, FileTypes, NoneTypes DEF TypeOK, OnAuthFileChange
    <2>2. auth' \in [Conns -> Tokens] /\ recipient_q' \in Seq(Conns) /\ refused' \subseteq Conns
      <3>1. CASE UNCHANGED <<recipient_q, auth, refused>>
        BY <1>1, <3>1 DEF TypeOK
      <3>2. CASE SendToQueued
        BY <1>1, <3>2, FileTypes DEF TypeOK, SendToQueued
      <3> QED
        BY <1>5, <3>1, <3>2 DEF OnAuthFileChange
    <2>3. main' \in {"starting", "serving", "running", "exiting", "over"}
      BY <1>1, <1>5 DEF TypeOK, OnAuthFileChange, StopProgram
    <2> QED
      BY <1>1, <1>5, <2>1, <2>2, <2>3 DEF TypeOK, OnAuthFileChange, statusVars
  <1>6. ASSUME NEW c \in Conns,
               OnConnectionStart(c) \/ OnConnectionInit(c) \/ InitAuth(c) \/ InitRefused(c)
        PROVE  TypeOK'
    BY <1>1, <1>6 DEF TypeOK, OnConnectionStart, OnConnectionInit, InitAuth, InitRefused,
       ConnE, fileVars, authVars, statusVars
  <1>7. ASSUME NEW c \in Conns, AuthRefused(c) \/ AuthLost(c) \/ EnterActive(c)
        PROVE  TypeOK'
    <2>1. auth' \in [Conns -> Tokens]
      <3>1. auth' = [auth EXCEPT ![c] = None] \/ auth' = auth
        BY <1>7 DEF AuthRefused, AuthLost, EnterActive
      <3> QED
        BY <1>1, <3>1, NoneTypes DEF TypeOK
    <2>2. recipient_q' \in Seq(Conns)
      <3>1. recipient_q' = Append(recipient_q, c) \/ recipient_q' = recipient_q
        BY <1>7 DEF AuthRefused, AuthLost, EnterActive
      <3> QED
        BY <1>1, <3>1, AppendType DEF TypeOK
    <2>3. conn' \in [Conns -> ConnE] /\ refused' \subseteq Conns
      BY <1>1, <1>7 DEF TypeOK, AuthRefused, AuthLost, EnterActive, ConnE
    <2> QED
      BY <1>1, <1>7, <2>1, <2>2, <2>3 DEF TypeOK, AuthRefused, AuthLost, EnterActive, fileVars,
         authVars, statusVars
  <1>8. ASSUME NEW c \in Conns, AuthAccepted(c) PROVE TypeOK'
    <2>1. auth' \in [Conns -> Tokens]
      BY <1>1, <1>8, NoneTypes DEF TypeOK, AuthAccepted
    <2>2. conn' \in [Conns -> ConnE]
      BY <1>1, <1>8 DEF TypeOK, AuthAccepted, ConnE
    <2>3. active_count' \in Nat
      BY <1>1, <1>8 DEF TypeOK, AuthAccepted
    <2>4. signals' = Append(signals, TRUE) \/ signals' = signals
      BY <1>8 DEF AuthAccepted
    <2>5. signals' \in Seq(BOOLEAN)
      <3>1. TRUE \in BOOLEAN
        OBVIOUS
      <3>2. signals \in Seq(BOOLEAN)
        BY <1>1 DEF TypeOK
      <3>3. Append(signals, TRUE) \in Seq(BOOLEAN)
        BY <3>1, <3>2, AppendType
      <3> QED
        BY <2>4, <3>2, <3>3
    <2> QED
      BY <1>1, <1>8, <2>1, <2>2, <2>3, <2>5 DEF TypeOK, AuthAccepted, fileVars, authVars
  <1>9. ASSUME NEW c \in Conns, OnConnectionStop(c) PROVE TypeOK'
    <2>1. Entered(c) => active_count > 0
      BY CountChange DEF AInv, Counts
    <2>2. conn[c] = "active" => active_count > 0
      BY <2>1 DEF Entered
    <2>3. conn' \in [Conns -> ConnE]
      BY <1>1, <1>9 DEF TypeOK, OnConnectionStop, ConnE
    <2>4. active_count' \in Nat
      <3>1. \/ conn[c] = "active" /\ active_count' = active_count - 1
            \/ active_count' = active_count
        BY <1>9 DEF OnConnectionStop, statusVars
      <3>2. active_count \in Nat
        BY <1>1 DEF TypeOK
      <3> QED
        BY <2>2, <3>1, <3>2
    <2>5. signals' = Append(signals, FALSE) \/ signals' = signals
      BY <1>9 DEF OnConnectionStop, statusVars
    <2>6. signals' \in Seq(BOOLEAN)
      <3>1. FALSE \in BOOLEAN
        OBVIOUS
      <3>2. signals \in Seq(BOOLEAN)
        BY <1>1 DEF TypeOK
      <3>3. Append(signals, FALSE) \in Seq(BOOLEAN)
        BY <3>1, <3>2, AppendType
      <3> QED
        BY <2>5, <3>2, <3>3
    <2>7. UNCHANGED <<main, file, changed, reading, endpoint, user, token, recipient_q,
                      initing, auth, refused, status>>
      BY <1>9 DEF OnConnectionStop, fileVars, authVars
    <2> QED
      BY <1>1, <2>3, <2>4, <2>6, <2>7 DEF TypeOK
  <1>10. CASE UNCHANGED vars
    BY <1>1, <1>10 DEF TypeOK, vars, fileVars, authVars, statusVars
  <1> QED
    BY <1>2, <1>3, <1>4, <1>5, <1>6, <1>7, <1>8, <1>9, <1>10 DEF Next, Monitor, Rpc

\* What a connection does that joins the queue: it was in none of the
\* stages that exclude each other.
LEMMA Joins ==
  ASSUME TypeOK, Paths, NEW c \in Conns, ~Waits(c), auth'[c] = None,
         conn'[c] \in {"passive", "closed"}, c \notin initing',
         recipient_q' = Append(recipient_q, c), initing' \subseteq initing,
         \A d \in Conns \ {c} : conn'[d] = conn[d] /\ auth'[d] = auth[d]
  PROVE  Paths'
  <1>1. Queued' = Queued \cup {c}
    BY AppendQueued DEF TypeOK
  <1>2. (\A j, k \in DOMAIN recipient_q : recipient_q[j] = recipient_q[k] => j = k)'
    BY AppendOnce DEF TypeOK, Paths, OneAuthPath, Waits
  <1>3. \A d \in Conns \ {c} : /\ Waits(d)' <=> Waits(d)
                               /\ InAuth(d)' <=> InAuth(d)
                               /\ Entered(d)' <=> Entered(d)
                               /\ d \in initing' => d \in initing
    BY <1>1 DEF Waits, InAuth, Entered
  <1>4. Waits(c)' /\ ~InAuth(c)' /\ ~Entered(c)'
    BY <1>1 DEF Waits, InAuth, Entered
  <1> QED
    BY <1>2, <1>3, <1>4 DEF Paths, OneAuthPath, Stages

\* A step that leaves the queue alone and moves one connection on.
LEMMA Moves ==
  ASSUME Paths, NEW c \in Conns, recipient_q' = recipient_q,
         \A d \in Conns \ {c} : /\ conn'[d] = conn[d] /\ auth'[d] = auth[d]
                                /\ d \in initing' => d \in initing,
         Entered(c)' => ~Waits(c) /\ ~InAuth(c)',
         c \in initing' => ~Waits(c) /\ ~InAuth(c)' /\ conn'[c] = "passive",
         Waits(c) => ~InAuth(c)',
         Waits(c) \/ InAuth(c)' => conn'[c] \in {"passive", "closed"}
  PROVE  Paths'
  <1>1. Queued' = Queued
    BY DEF Queued
  <1>2. \A d \in Conns \ {c} : /\ Waits(d)' <=> Waits(d)
                               /\ InAuth(d)' <=> InAuth(d)
                               /\ Entered(d)' <=> Entered(d)
    BY <1>1 DEF Waits, InAuth, Entered
  <1>3. Waits(c)' <=> Waits(c)
    BY <1>1 DEF Waits
  <1> QED
    BY <1>2, <1>3 DEF Paths, OneAuthPath, Stages

\* Paths: who waits, who is being authenticated and who has been accepted.
LEMMA StepPaths == AInv /\ [Next]_vars => Paths'
  <1> SUFFICES ASSUME AInv, [Next]_vars PROVE Paths'
    OBVIOUS
  <1>1. TypeOK /\ Paths
    BY DEF AInv
  <1>2. ASSUME UNCHANGED <<recipient_q, conn, initing, auth>> PROVE Paths'
    BY <1>1, <1>2 DEF Paths, OneAuthPath, Stages, Waits, InAuth, Entered, Queued
  <1>3. CASE Start \/ Exec \/ Finish \/ OnOnline \/ WriteFile \/ MonitorNotices \/ UNCHANGED vars
    BY <1>2, <1>3 DEF Start, Exec, Finish, OnOnline, WriteFile, MonitorNotices, vars
  <1>4. CASE OnAuthFileChange
    <2>1. CASE UNCHANGED <<recipient_q, auth, refused>>
      BY <1>2, <1>4, <2>1 DEF OnAuthFileChange
    <2>2. CASE SendToQueued
      <3>1. Queued' = {}
        BY <2>2 DEF SendToQueued, Queued
      <3>2. \A c \in Conns : InAuth(c)' => InAuth(c) \/ Waits(c)
        BY <1>1, <2>2 DEF SendToQueued, InAuth, Waits, TypeOK
      <3>3. UNCHANGED <<conn, initing>> /\ recipient_q' = <<>>
        BY <1>4, <2>2 DEF OnAuthFileChange, SendToQueued
      <3> QED
        BY <1>1, <3>1, <3>2, <3>3 DEF Paths, OneAuthPath, Stages, Waits, InAuth, Entered
    <2> QED
      BY <1>4, <2>1, <2>2 DEF OnAuthFileChange
  <1>5. ASSUME NEW c \in Conns, OnConnectionStart(c) PROVE Paths'
    <2>1. conn[c] = "unborn" /\ conn' = [conn EXCEPT ![c] = "starting"]
          /\ UNCHANGED <<recipient_q, initing, auth>>
      BY <1>5 DEF OnConnectionStart
    <2> QED
      BY <1>1, <2>1, Moves DEF TypeOK, Paths, Stages, Waits, InAuth, Entered
  <1>6. ASSUME NEW c \in Conns, InitRefused(c) PROVE Paths'
    <2>1. conn[c] = "starting" /\ conn' = [conn EXCEPT ![c] = "passive"]
          /\ UNCHANGED <<recipient_q, initing, auth>>
      BY <1>6 DEF InitRefused
    <2> QED
      BY <1>1, <2>1, Moves DEF TypeOK, Paths, Stages, Waits, InAuth, Entered
  <1>7. ASSUME NEW c \in Conns, OnConnectionInit(c) PROVE Paths'
    <2>1. conn[c] = "starting" /\ conn' = [conn EXCEPT ![c] = "passive"]
          /\ auth' = auth /\ initing = {}
      BY <1>7 DEF OnConnectionInit, RpcRuns
    <2>2. ~Waits(c) /\ ~InAuth(c)
      BY <1>1, <2>1 DEF Paths, Stages
    <2>3. CASE recipient_q' = Append(recipient_q, c) /\ initing' = initing
      BY <1>1, <2>1, <2>2, <2>3, Joins DEF TypeOK, InAuth
    <2>4. CASE initing' = {c} /\ recipient_q' = recipient_q
      BY <1>1, <2>1, <2>2, <2>4, Moves DEF TypeOK, InAuth, Entered
    <2> QED
      BY <1>7, <2>3, <2>4 DEF OnConnectionInit
  <1>8. ASSUME NEW c \in Conns, InitAuth(c) PROVE Paths'
    <2>1. c \in initing /\ initing' = {} /\ conn' = conn
      BY <1>8 DEF InitAuth
    <2>2. ~Waits(c) /\ ~InAuth(c) /\ conn[c] = "passive"
      BY <1>1, <2>1 DEF Paths, OneAuthPath, Stages
    <2>3. CASE auth' = [auth EXCEPT ![c] = token] /\ recipient_q' = recipient_q
      BY <1>1, <2>1, <2>2, <2>3, Moves DEF TypeOK, InAuth, Entered
    <2>4. CASE recipient_q' = Append(recipient_q, c) /\ auth' = auth
      BY <1>1, <2>1, <2>2, <2>4, Joins DEF TypeOK, InAuth
    <2> QED
      BY <1>8, <2>3, <2>4 DEF InitAuth
  <1>9. ASSUME NEW c \in Conns, AuthRefused(c) PROVE Paths'
    <2>1. /\ InAuth(c) /\ conn[c] = "passive" /\ initing = {}
          /\ auth' = [auth EXCEPT ![c] = None]
          /\ recipient_q' = Append(recipient_q, c)
          /\ UNCHANGED <<conn, initing>>
      BY <1>9 DEF AuthRefused, RpcRuns, InAuth
    <2>2. ~Waits(c)
      BY <1>1, <2>1 DEF Paths, OneAuthPath
    <2> QED
      BY <1>1, <2>1, <2>2, Joins DEF TypeOK
  <1>10. ASSUME NEW c \in Conns, AuthAccepted(c) PROVE Paths'
    <2>1. /\ InAuth(c) /\ initing = {}
          /\ auth' = [auth EXCEPT ![c] = None]
          /\ conn' = [conn EXCEPT ![c] = "entering"]
          /\ UNCHANGED <<recipient_q, initing>>
      BY <1>10 DEF AuthAccepted, RpcRuns, InAuth
    <2>2. ~Waits(c) /\ ~InAuth(c)'
      BY <1>1, <2>1 DEF TypeOK, Paths, OneAuthPath, InAuth
    <2> QED
      BY <1>1, <2>1, <2>2, Moves DEF TypeOK
  <1>11. ASSUME NEW c \in Conns, AuthLost(c) PROVE Paths'
    <2>1. /\ InAuth(c) /\ conn[c] = "closed" /\ initing = {}
          /\ auth' = [auth EXCEPT ![c] = None]
          /\ UNCHANGED <<recipient_q, conn, initing>>
      BY <1>11 DEF AuthLost, RpcRuns, InAuth
    <2>2. ~Waits(c) /\ ~InAuth(c)' /\ ~Entered(c)'
      BY <1>1, <2>1 DEF TypeOK, Paths, OneAuthPath, InAuth, Entered
    <2> QED
      BY <1>1, <2>1, <2>2, Moves DEF TypeOK
  <1>12. ASSUME NEW c \in Conns, EnterActive(c) PROVE Paths'
    <2>1. /\ conn[c] = "entering" /\ conn' = [conn EXCEPT ![c] = "active"]
          /\ initing = {} /\ UNCHANGED <<recipient_q, initing, auth>>
      BY <1>12 DEF EnterActive, RpcRuns
    <2>2. ~Waits(c) /\ ~InAuth(c) /\ ~InAuth(c)'
      BY <1>1, <2>1 DEF Paths, OneAuthPath, Entered, InAuth
    <2> QED
      BY <1>1, <2>1, <2>2, Moves DEF TypeOK
  <1>13. ASSUME NEW c \in Conns, OnConnectionStop(c) PROVE Paths'
    <2>1. /\ conn' = [conn EXCEPT ![c] = IF @ = "entering" THEN "lost" ELSE "closed"]
          /\ initing = {} /\ UNCHANGED <<recipient_q, initing, auth>>
      BY <1>13 DEF OnConnectionStop, RpcRuns
    <2>2. Entered(c)' => conn[c] = "entering"
      BY <1>1, <2>1 DEF TypeOK, Entered
    <2>3. Entered(c)' => ~Waits(c) /\ ~InAuth(c)'
      BY <1>1, <2>1, <2>2 DEF Paths, OneAuthPath, Entered, InAuth
    <2>4. Waits(c) \/ InAuth(c)' => conn'[c] = "closed"
      BY <1>1, <2>1 DEF TypeOK, Paths, OneAuthPath, Entered, InAuth
    <2>5. Waits(c) => ~InAuth(c)'
      BY <1>1, <2>1 DEF Paths, OneAuthPath, InAuth
    <2> QED
      BY <1>1, <2>1, <2>3, <2>4, <2>5, Moves DEF TypeOK
  <1> QED
    BY <1>3, <1>4, <1>5, <1>6, <1>7, <1>8, <1>9, <1>10, <1>11, <1>12, <1>13
    DEF Next, Monitor, Rpc

\* The last signal is the one appended last.
LEMMA AppendSignal ==
  ASSUME NEW b \in BOOLEAN, signals \in Seq(BOOLEAN), signals' = Append(signals, b)
  PROVE  LastSignal' = b
  <1>1. signals' # <<>> /\ Len(signals') = Len(signals) + 1
    OBVIOUS
  <1>2. signals'[Len(signals) + 1] = b
    OBVIOUS
  <1> QED
    BY <1>1, <1>2 DEF LastSignal

\* onOnline takes the first signal to the status bar, so that what the last
\* one says stays what it was.
LEMMA ShownSignal ==
  ASSUME signals \in Seq(BOOLEAN), signals # <<>>,
         status' = Head(signals), signals' = Tail(signals)
  PROVE  LastSignal' = LastSignal
  <1> DEFINE n == Len(signals)
  <1>1. n \in Nat /\ n > 0 /\ Len(Tail(signals)) = n - 1 /\ Head(signals) = signals[1]
    OBVIOUS
  <1>2. CASE n = 1
    <2>1. Tail(signals) = <<>>
      BY <1>2
    <2> QED
      BY <1>1, <1>2, <2>1 DEF LastSignal
  <1>3. CASE n # 1
    <2>1. n - 1 \in 1..Len(Tail(signals))
      BY <1>1, <1>3
    <2>2. Tail(signals) # <<>> /\ Tail(signals)[n - 1] = signals[n]
      BY <1>1, <2>1
    <2> QED
      BY <1>1, <2>2 DEF LastSignal
  <1> QED
    BY <1>2, <1>3

\* Counts: a connection is counted up when it is accepted and down when it
\* stops as an active one, and the signals follow.
LEMMA StepCounts == AInv /\ [Next]_vars => Counts'
  <1> SUFFICES ASSUME AInv, [Next]_vars PROVE Counts'
    OBVIOUS
  <1> DEFINE E == {c \in Conns : Entered(c)}
  <1>1. TypeOK /\ Counts
    BY DEF AInv
  <1>2. ASSUME UNCHANGED <<active_count, signals, status>>,
               \A c \in Conns : Entered(c)' <=> Entered(c)
        PROVE  Counts'
    <2>1. E' = E
      BY <1>2
    <2>2. CountCoversAccepted'
      BY <1>1, <1>2, <2>1 DEF Counts, CountCoversAccepted
    <2>3. LastSignal' = LastSignal
      BY <1>2 DEF LastSignal
    <2> QED
      BY <1>1, <1>2, <2>2, <2>3 DEF Counts
  <1>3. CASE Start \/ Exec \/ Finish \/ WriteFile \/ MonitorNotices \/ OnAuthFileChange
             \/ UNCHANGED vars
    BY <1>2, <1>3 DEF Start, Exec, Finish, WriteFile, MonitorNotices, OnAuthFileChange, vars,
       statusVars, Entered
  <1>4. CASE OnOnline
    <2>1. LastSignal' = LastSignal
      BY <1>1, <1>4, ShownSignal DEF OnOnline, TypeOK
    <2>2. E' = E /\ active_count' = active_count
      BY <1>4 DEF OnOnline, Entered
    <2> QED
      BY <1>1, <2>1, <2>2 DEF Counts, CountCoversAccepted
  <1>5. ASSUME NEW c \in Conns, InitAuth(c) \/ AuthRefused(c) \/ AuthLost(c) PROVE Counts'
    BY <1>2, <1>5 DEF InitAuth, AuthRefused, AuthLost, statusVars, Entered
  <1>6. ASSUME NEW c \in Conns,
               OnConnectionStart(c) \/ OnConnectionInit(c) \/ InitRefused(c) \/ EnterActive(c)
        PROVE  Counts'
    <2>1. UNCHANGED <<active_count, signals, status>>
      BY <1>6 DEF OnConnectionStart, OnConnectionInit, InitRefused, EnterActive, statusVars
    <2>2. \A d \in Conns : Entered(d)' <=> Entered(d)
      BY <1>1, <1>6 DEF TypeOK, Entered, OnConnectionStart, OnConnectionInit, InitRefused,
         EnterActive
    <2> QED
      BY <1>2, <2>1, <2>2
  <1>7. ASSUME NEW c \in Conns, AuthAccepted(c) PROVE Counts'
    <2>1. ~Entered(c)
      BY <1>7 DEF AuthAccepted, Entered
    <2>2. E' = E \cup {c}
      BY <1>1, <1>7 DEF TypeOK, AuthAccepted, Entered
    <2>3. active_count' = active_count + 1
      BY <1>7 DEF AuthAccepted
    <2>4. CountCoversAccepted'
      BY <1>1, <2>1, <2>2, <2>3, CountChange DEF Counts, CountCoversAccepted
    <2>5. LastSignal'
      <3>1. CASE active_count = 0
        BY <1>1, <1>7, <3>1, AppendSignal DEF TypeOK, AuthAccepted
      <3>2. CASE active_count # 0
        <4>1. LastSignal' = LastSignal
          BY <1>7, <3>2 DEF AuthAccepted, LastSignal
        <4>2. active_count > 0
          BY <1>1, <3>2 DEF TypeOK
        <4> QED
          BY <1>1, <4>1, <4>2 DEF Counts
      <3> QED
        BY <3>1, <3>2
    <2>6. active_count' > 0
      BY <1>1, <2>3 DEF TypeOK
    <2> QED
      BY <2>4, <2>5, <2>6 DEF Counts
  <1>8. ASSUME NEW c \in Conns, OnConnectionStop(c), conn[c] # "active" PROVE Counts'
    <2>1. UNCHANGED <<active_count, signals, status>>
      BY <1>8 DEF OnConnectionStop, statusVars
    <2>2. \A d \in Conns : Entered(d)' <=> Entered(d)
      BY <1>1, <1>8 DEF TypeOK, Entered, OnConnectionStop, Live
    <2> QED
      BY <1>2, <2>1, <2>2
  <1>9. ASSUME NEW c \in Conns, OnConnectionStop(c), conn[c] = "active" PROVE Counts'
    <2>1. Entered(c)
      BY <1>9 DEF Entered
    <2>2. E' = E \ {c}
      BY <1>1, <1>9 DEF TypeOK, OnConnectionStop, Entered
    <2>3. active_count' = active_count - 1 /\ status' = status
          /\ signals' = IF active_count = 1 THEN Append(signals, FALSE) ELSE signals
      BY <1>9 DEF OnConnectionStop
    <2>4. CountCoversAccepted'
      BY <1>1, <2>1, <2>2, <2>3, CountChange DEF Counts, CountCoversAccepted
    <2>5. active_count > 0
      BY <1>1, <2>1, CountChange DEF Counts
    <2>6. CASE active_count = 1
      <3>1. LastSignal' = FALSE
        BY <1>1, <2>3, <2>6, AppendSignal DEF TypeOK
      <3> QED
        BY <2>3, <2>4, <2>6, <3>1 DEF Counts
    <2>7. CASE active_count # 1
      <3>1. LastSignal' = LastSignal
        BY <2>3, <2>7 DEF LastSignal
      <3>2. active_count' > 0
        BY <1>1, <2>3, <2>5, <2>7 DEF TypeOK
      <3> QED
        BY <1>1, <2>4, <2>5, <3>1, <3>2 DEF Counts
    <2> QED
      BY <2>6, <2>7
  <1> QED
    BY <1>3, <1>4, <1>5, <1>6, <1>7, <1>8, <1>9 DEF Next, Monitor, Rpc

\* TokenIsCurrent: onAuthFileChange takes over what the file says, or drops
\* the token, and every later write is noticed.
LEMMA StepToken == AInv /\ [Next]_vars => TokenIsCurrent'
  <1> SUFFICES ASSUME AInv, [Next]_vars PROVE TokenIsCurrent'
    OBVIOUS
  <1>1. TokenIsCurrent
    BY DEF AInv
  <1>2. ASSUME UNCHANGED <<fileVars, authVars>> PROVE TokenIsCurrent'
    BY <1>1, <1>2 DEF TokenIsCurrent, SameAccount, fileVars, authVars
  <1>3. CASE Start \/ Exec \/ Finish \/ OnOnline \/ UNCHANGED vars
    BY <1>2, <1>3 DEF Start, Exec, Finish, OnOnline, vars
  <1>4. CASE WriteFile \/ MonitorNotices
    BY <1>4 DEF WriteFile, MonitorNotices, TokenIsCurrent
  <1>5. CASE OnAuthFileChange
    <2>1. file' = file
      BY <1>5 DEF OnAuthFileChange
    <2>2. CASE SameAccount(file)
      <3>1. endpoint' = file.endpoint /\ user' = file.user /\ token' = file.token
        BY <1>5, <2>2 DEF OnAuthFileChange
      <3> QED
        BY <2>1, <3>1 DEF TokenIsCurrent, SameAccount
    <2>3. CASE ~SameAccount(file)
      <3>1. token' = None /\ endpoint' = endpoint /\ user' = user
        BY <1>5, <2>3 DEF OnAuthFileChange
      <3> QED
        BY <2>1, <2>3, <3>1 DEF TokenIsCurrent, SameAccount
    <2> QED
      BY <2>2, <2>3
  <1>6. ASSUME NEW c \in Conns,
               \/ OnConnectionStart(c) \/ OnConnectionInit(c) \/ InitAuth(c) \/ InitRefused(c)
               \/ AuthAccepted(c) \/ AuthRefused(c) \/ AuthLost(c) \/ EnterActive(c)
               \/ OnConnectionStop(c)
        PROVE  TokenIsCurrent'
    BY <1>2, <1>6 DEF OnConnectionStart, OnConnectionInit, InitAuth, InitRefused, AuthAccepted,
       AuthRefused, AuthLost, EnterActive, OnConnectionStop
  <1> QED
    BY <1>3, <1>4, <1>5, <1>6 DEF Next, Monitor, Rpc

\* WaitsOnlyBehindRefused: the first to wait with a token at hand is one that
\* was refused, and a new token empties the queue.
LEMMA StepFront == AInv /\ [Next]_vars => WaitsOnlyBehindRefused'
  <1> SUFFICES ASSUME AInv, [Next]_vars PROVE WaitsOnlyBehindRefused'
    OBVIOUS
  <1>1. TypeOK /\ WaitsOnlyBehindRefused
    BY DEF AInv
  <1>2. ASSUME UNCHANGED <<recipient_q, token, refused>> PROVE WaitsOnlyBehindRefused'
    BY <1>1, <1>2 DEF WaitsOnlyBehindRefused
  <1>3. CASE Start \/ Exec \/ Finish \/ OnOnline \/ WriteFile \/ MonitorNotices \/ UNCHANGED vars
    BY <1>2, <1>3 DEF Start, Exec, Finish, OnOnline, WriteFile, MonitorNotices, vars, authVars
  <1>4. CASE OnAuthFileChange
    <2>1. token' = None \/ recipient_q' = <<>>
      BY <1>4 DEF OnAuthFileChange, SendToQueued
    <2> QED
      BY <2>1 DEF WaitsOnlyBehindRefused
  <1>5. ASSUME NEW c \in Conns,
               \/ OnConnectionStart(c) \/ InitRefused(c) \/ AuthAccepted(c) \/ AuthLost(c)
               \/ EnterActive(c) \/ OnConnectionStop(c)
        PROVE  WaitsOnlyBehindRefused'
    BY <1>2, <1>5 DEF OnConnectionStart, InitRefused, AuthAccepted, AuthLost, EnterActive,
       OnConnectionStop, authVars
  <1>6. ASSUME NEW c \in Conns, recipient_q' = Append(recipient_q, c), recipient_q # <<>>
        PROVE  recipient_q' # <<>> /\ Head(recipient_q') = Head(recipient_q)
    BY <1>1, <1>6 DEF TypeOK
  <1>7. ASSUME NEW c \in Conns, OnConnectionInit(c) PROVE WaitsOnlyBehindRefused'
    BY <1>1, <1>6, <1>7 DEF OnConnectionInit, WaitsOnlyBehindRefused, authVars
  <1>8. ASSUME NEW c \in Conns, InitAuth(c) PROVE WaitsOnlyBehindRefused'
    BY <1>1, <1>8 DEF InitAuth, WaitsOnlyBehindRefused, authVars
  <1>9. ASSUME NEW c \in Conns, AuthRefused(c) PROVE WaitsOnlyBehindRefused'
    <2>1. CASE recipient_q = <<>>
      <3>1. Head(recipient_q') = c /\ c \in refused'
        BY <1>9, <2>1 DEF AuthRefused
      <3> QED
        BY <3>1 DEF WaitsOnlyBehindRefused
    <2>2. CASE recipient_q # <<>>
      <3>1. Head(recipient_q') = Head(recipient_q)
        BY <1>6, <1>9, <2>2 DEF AuthRefused
      <3> QED
        BY <1>1, <1>9, <2>2, <3>1 DEF AuthRefused, WaitsOnlyBehindRefused, authVars
    <2> QED
      BY <2>1, <2>2
  <1> QED
    BY <1>3, <1>4, <1>5, <1>7, <1>8, <1>9 DEF Next, Monitor, Rpc

-----------------------------------------------------------------------------
(* The theorems.                                                           *)

\* Every reachable state satisfies the invariant.
LEMMA AlwaysAInv == Spec => []AInv
  <1>1. AInv /\ [Next]_vars => AInv'
    BY StepTypes, StepPaths, StepCounts, StepToken, StepFront DEF AInv
  <1> QED
    BY InitAInv, <1>1, PTL DEF Spec

\* Types; in particular active_count_ never wraps below zero, whatever stops.
THEOREM AuthTypes == Spec => []TypeOK
  <1>1. AInv => TypeOK
    BY DEF AInv
  <1> QED
    BY AlwaysAInv, <1>1, PTL

\* A connection waits, is being authenticated or has been accepted, never two
\* of these, for any number of connections and any changes of auth.data.
THEOREM AuthOnePath == Spec => []OneAuthPath
  <1>1. AInv => OneAuthPath
    BY DEF AInv, Paths
  <1> QED
    BY AlwaysAInv, <1>1, PTL

\* active_count_ is the number of connections accepted and not counted down.
THEOREM AuthCount == Spec => []CountCoversAccepted
  <1>1. AInv => CountCoversAccepted
    BY DEF AInv, Counts
  <1> QED
    BY AlwaysAInv, <1>1, PTL

\* With every signal delivered, an offline status bar means that no
\* connection is active: the signals queued on the RPC thread say it in order.
THEOREM AuthOffline == Spec => []OfflineIsTrue
  <1>1. AInv => OfflineIsTrue
    <2> SUFFICES ASSUME AInv, signals = <<>>, ~status, NEW c \in Conns
                 PROVE  conn[c] # "active"
      BY DEF OfflineIsTrue
    <2>1. ~(active_count > 0)
      BY DEF AInv, Counts, LastSignal
    <2>2. Entered(c) => active_count > 0
      BY CountChange DEF AInv, Counts
    <2> QED
      BY <2>1, <2>2 DEF Entered
  <1> QED
    BY AlwaysAInv, <1>1, PTL

\* Once the monitor has caught up, token_ is what auth.data says for the
\* account of the program, or empty.
THEOREM AuthToken == Spec => []TokenIsCurrent
  <1>1. AInv => TokenIsCurrent
    BY DEF AInv
  <1> QED
    BY AlwaysAInv, <1>1, PTL

\* No connection is stranded in the queue by a token that came between the
\* two critical sections of onConnectionInit.
THEOREM AuthWaits == Spec => []WaitsOnlyBehindRefused
  <1>1. AInv => WaitsOnlyBehindRefused
    BY DEF AInv
  <1> QED
    BY AlwaysAInv, <1>1, PTL

-----------------------------------------------------------------------------
(* The account of the requests under way.                                  *)

\* What the program that logs in writes: a token comes with its account.
TokensHaveAccounts ==
    \A data \in AuthData : data.token # None => data.endpoint # None /\ data.user # None

\* The token in use is one of the account of the program.
OnlyPinnedToken ==
    token # None => \E data \in AuthData : /\ data.token = token
                                          /\ data.endpoint = endpoint
                                          /\ data.user = user

Pinned == OnlyPinnedToken /\ OnlyPinnedAccount

\* Once a request is under way the account is known and onAuthFileChange
\* changes neither the endpoint nor the user; a waiting connection is sent the
\* token of the data they were just compared with.
LEMMA StepPinned ==
  ASSUME TokensHaveAccounts, TypeOK, Pinned, [Next]_vars
  PROVE  Pinned'
  <1> DEFINE Mine(t) == \E data \in AuthData : /\ data.token = t
                                             /\ data.endpoint = endpoint
                                             /\ data.user = user
  <1>1. (token # None => Mine(token)) /\ \A c \in Conns : InAuth(c) => Mine(auth[c])
    BY DEF Pinned, OnlyPinnedToken, OnlyPinnedAccount
  <1>2. ASSUME UNCHANGED authVars,
               \A c \in Conns : auth'[c] \in {None, auth[c], token}
        PROVE  Pinned'
    <2>1. UNCHANGED <<endpoint, user, token>>
      BY <1>2 DEF authVars
    <2> QED
      BY <1>1, <1>2, <2>1 DEF Pinned, OnlyPinnedToken, OnlyPinnedAccount, InAuth
  <1>3. CASE Start \/ Exec \/ Finish \/ OnOnline \/ WriteFile \/ MonitorNotices \/ UNCHANGED vars
    BY <1>2, <1>3 DEF Start, Exec, Finish, OnOnline, WriteFile, MonitorNotices, vars
  <1>4. CASE OnAuthFileChange
    <2>1. ASSUME NEW t, t # None, Mine(t)
          PROVE  Mine(t)'
      <3>1. endpoint # None /\ user # None
        BY <2>1 DEF TokensHaveAccounts
      <3>2. endpoint' = endpoint /\ user' = user
        BY <1>4, <3>1 DEF OnAuthFileChange, SameAccount
      <3> QED
        BY <2>1, <3>2
    <2>2. token' # None => /\ file \in AuthData
                           /\ endpoint' = file.endpoint /\ user' = file.user
                           /\ token' = file.token
      BY <1>4 DEF OnAuthFileChange, TypeOK
    <2>3. OnlyPinnedToken'
      BY <2>2 DEF OnlyPinnedToken
    <2>4. ASSUME NEW c \in Conns, auth'[c] # auth[c]
          PROVE  token' # None /\ auth'[c] = token'
      BY <1>4, <2>2, <2>4 DEF OnAuthFileChange, SendToQueued, TypeOK
    <2>5. OnlyPinnedAccount'
      BY <1>1, <2>1, <2>2, <2>4 DEF OnlyPinnedAccount, InAuth
    <2> QED
      BY <2>3, <2>5 DEF Pinned
  <1>5. ASSUME NEW c \in Conns,
               \/ OnConnectionStart(c) \/ OnConnectionInit(c) \/ InitAuth(c) \/ InitRefused(c)
               \/ AuthAccepted(c) \/ AuthRefused(c) \/ AuthLost(c) \/ EnterActive(c)
               \/ OnConnectionStop(c)
        PROVE  Pinned'
    <2>1. UNCHANGED authVars
      BY <1>5 DEF OnConnectionStart, OnConnectionInit, InitAuth, InitRefused, AuthAccepted,
         AuthRefused, AuthLost, EnterActive, OnConnectionStop
    <2>2. \E t \in {None, token} : auth' = [auth EXCEPT ![c] = t] \/ auth' = auth
      BY <1>5 DEF OnConnectionStart, OnConnectionInit, InitAuth, InitRefused, AuthAccepted,
         AuthRefused, AuthLost, EnterActive, OnConnectionStop
    <2> QED
      BY <1>2, <2>1, <2>2 DEF TypeOK
  <1> QED
    BY <1>3, <1>4, <1>5 DEF Next, Monitor, Rpc

\* An AuthRequest under way always carries a token of the account the program
\* was started for, whatever other accounts auth.data named since.
THEOREM AuthPinned ==
  ASSUME TokensHaveAccounts
  PROVE  Spec => []OnlyPinnedAccount
  <1>1. Init => TypeOK /\ Pinned
    <2>1. Init => Pinned
      BY DEF Init, Pinned, OnlyPinnedToken, OnlyPinnedAccount, InAuth
    <2> QED
      BY <2>1, InitAInv DEF AInv
  <1>2. TypeOK /\ Pinned /\ [Next]_vars => Pinned'
    BY StepPinned
  <1>3. Pinned => OnlyPinnedAccount
    BY DEF Pinned
  <1> QED
    BY AuthTypes, <1>1, <1>2, <1>3, PTL DEF Spec

-----------------------------------------------------------------------------
(* The authenticator implements Session: each action is a step of it, or   *)
(* leaves what it is about alone.                                          *)

In == {c \in Conns : Entered(c)}

\* A step that changes none of what Session sees.
LEMMA QuietSession ==
  ASSUME UNCHANGED <<token, recipient_q, auth, signals, status>>,
         \A c \in Conns : Entered(c)' <=> Entered(c)
  PROVE  UNCHANGED Promised!vars
  <1>1. Queued' = Queued /\ In' = In
    BY DEF Queued, In
  <1> QED
    BY <1>1 DEF Promised!vars, In

\* The counter is zero exactly when no connection is in.
LEMMA CountEmpty ==
  ASSUME CountCoversAccepted
  PROVE  active_count = 0 <=> In = {}
  <1>1. IsFiniteSet(In)
    BY AuthenticatorAssumption, FS_Subset DEF In
  <1>2. active_count = Cardinality(In)
    BY DEF CountCoversAccepted, In
  <1> QED
    BY <1>1, <1>2, FS_EmptySet

\* onOnline is what the user hears.
LEMMA OnOnlineHears == OnOnline => Promised!Hear
  <1> SUFFICES ASSUME OnOnline PROVE Promised!Hear
    OBVIOUS
  <1>1. UNCHANGED <<token, recipient_q, auth, conn>>
    BY DEF OnOnline, authVars
  <1>2. Queued' = Queued /\ In' = In
    BY <1>1 DEF Queued, In, Entered
  <1> QED
    BY <1>1, <1>2 DEF OnOnline, Promised!Hear, In

\* What onAuthFileChange does to the token in use and to all who wait.
LEMMA FileChangeSession ==
  ASSUME AInv, OnAuthFileChange
  PROVE  Promised!NewToken \/ Promised!LogOut
  <1>1. UNCHANGED <<conn, signals, status>>
    BY DEF OnAuthFileChange, statusVars
  <1>2. In' = In
    BY <1>1 DEF In, Entered
  <1>3. CASE token' = None
    <2>1. UNCHANGED <<recipient_q, auth>>
      BY <1>3 DEF OnAuthFileChange
    <2>2. Queued' = Queued
      BY <2>1 DEF Queued
    <2> QED
      BY <1>1, <1>2, <1>3, <2>1, <2>2 DEF Promised!LogOut, In
  <1>4. CASE token' # None
    <2>1. token' = file.token
      BY <1>4 DEF OnAuthFileChange
    <2>2. token' \in Tokens \ {None}
      BY <1>4, <2>1, FileTypes DEF AInv, TypeOK
    <2>3. SendToQueued
      BY <1>4 DEF OnAuthFileChange
    <2>4. Queued' = {}
      BY <2>3 DEF SendToQueued, Queued
    <2>5. auth' = [c \in Conns |-> IF c \in Queued THEN token' ELSE auth[c]]
      BY <2>1, <2>3 DEF SendToQueued
    <2> QED
      BY <1>1, <1>2, <2>2, <2>4, <2>5 DEF Promised!NewToken, In
  <1> QED
    BY <1>3, <1>4

\* A connection that joins the queue waits, if it may.
LEMMA JoinsWaiting ==
  ASSUME TypeOK, NEW c \in Conns, ~Waits(c), ~InAuth(c), ~Entered(c),
         token = None \/ recipient_q # <<>>,
         recipient_q' = Append(recipient_q, c),
         UNCHANGED <<token, auth, signals, status>>,
         \A d \in Conns : Entered(d)' <=> Entered(d)
  PROVE  Promised!Wait(c)
  <1>1. Queued' = Queued \cup {c}
    BY AppendQueued DEF TypeOK
  <1>2. In' = In
    BY DEF In
  <1>3. token = None \/ Queued # {}
    <2>1. recipient_q # <<>> => 1 \in DOMAIN recipient_q
      BY DEF TypeOK
    <2> QED
      BY <2>1 DEF Queued
  <1>4. Promised!Out(c)
    BY DEF Promised!Out, Waits, InAuth
  <1> QED
    BY <1>1, <1>2, <1>3, <1>4 DEF Promised!Wait, In

\* Both critical sections of onConnectionInit: the connection is asked for
\* with the token in use, or waits where it may, or nothing is seen of it.
LEMMA InitSession ==
  ASSUME AInv, NEW c \in Conns, OnConnectionInit(c) \/ InitAuth(c)
  PROVE  Promised!Ask(c) \/ Promised!Wait(c) \/ UNCHANGED Promised!vars
  <1>1. TypeOK /\ OneAuthPath /\ Stages
    BY DEF AInv, Paths
  <1>2. CASE OnConnectionInit(c)
    <2>1. ~Waits(c) /\ ~InAuth(c) /\ ~Entered(c)
      BY <1>1, <1>2 DEF OnConnectionInit, Stages, Entered
    <2>2. UNCHANGED <<token, auth, signals, status>>
      BY <1>2 DEF OnConnectionInit, authVars, statusVars
    <2>3. \A d \in Conns : Entered(d)' <=> Entered(d)
      BY <1>1, <1>2 DEF OnConnectionInit, TypeOK, Entered
    <2>4. CASE recipient_q # <<>>
      <3>1. recipient_q' = Append(recipient_q, c)
        BY <1>2, <2>4 DEF OnConnectionInit
      <3> QED
        BY <1>1, <2>1, <2>2, <2>3, <2>4, <3>1, JoinsWaiting
    <2>5. CASE recipient_q = <<>>
      <3>1. recipient_q' = recipient_q
        BY <1>2, <2>5 DEF OnConnectionInit
      <3> QED
        BY <2>2, <2>3, <3>1, QuietSession
    <2> QED
      BY <2>4, <2>5
  <1>3. CASE InitAuth(c)
    <2>1. ~Waits(c) /\ ~InAuth(c) /\ ~Entered(c)
      BY <1>1, <1>3 DEF InitAuth, Stages, OneAuthPath, Entered
    <2>2. UNCHANGED <<token, conn, signals, status>>
      BY <1>3 DEF InitAuth, authVars, statusVars
    <2>3. \A d \in Conns : Entered(d)' <=> Entered(d)
      BY <2>2 DEF Entered
    <2>4. CASE token = None
      <3>1. recipient_q' = Append(recipient_q, c) /\ auth' = auth
        BY <1>3, <2>4 DEF InitAuth
      <3> QED
        BY <1>1, <2>1, <2>2, <2>3, <2>4, <3>1, JoinsWaiting
    <2>5. CASE token # None
      <3>1. recipient_q' = recipient_q /\ auth' = [auth EXCEPT ![c] = token]
        BY <1>3, <2>5 DEF InitAuth
      <3>2. Queued' = Queued /\ In' = In
        BY <2>3, <3>1 DEF Queued, In
      <3>3. Promised!Out(c)
        BY <2>1 DEF Promised!Out, Waits, InAuth
      <3> QED
        BY <2>2, <2>5, <3>1, <3>2, <3>3 DEF Promised!Ask, In
    <2> QED
      BY <2>4, <2>5
  <1> QED
    BY <1>2, <1>3

\* The three ends of an AuthRequest.
LEMMA AnswerSession ==
  ASSUME AInv, NEW c \in Conns, AuthAccepted(c) \/ AuthRefused(c) \/ AuthLost(c)
  PROVE  Promised!Accept(c) \/ Promised!Refuse(c) \/ Promised!Lose(c)
  <1>1. TypeOK /\ CountCoversAccepted
    BY DEF AInv, Counts
  <1>2. Promised!Answered(c)
    BY DEF AuthAccepted, AuthRefused, AuthLost, Promised!Answered
  <1>3. UNCHANGED <<token, status>>
    BY DEF AuthAccepted, AuthRefused, AuthLost, authVars
  <1>4. CASE AuthAccepted(c)
    <2>1. Queued' = Queued
      BY <1>4 DEF AuthAccepted, Queued
    <2>2. In' = In \cup {c}
      BY <1>1, <1>4 DEF AuthAccepted, In, Entered, TypeOK
    <2>3. signals' = IF In = {} THEN Append(signals, TRUE) ELSE signals
      BY <1>1, <1>4, CountEmpty DEF AuthAccepted
    <2> QED
      BY <1>2, <1>3, <2>1, <2>2, <2>3 DEF Promised!Accept, In
  <1>5. CASE AuthRefused(c)
    <2>1. Queued' = Queued \cup {c}
      BY <1>1, <1>5, AppendQueued DEF AuthRefused, TypeOK
    <2>2. UNCHANGED <<conn, signals>>
      BY <1>5 DEF AuthRefused, statusVars
    <2>3. In' = In
      BY <2>2 DEF In, Entered
    <2> QED
      BY <1>2, <1>3, <2>1, <2>2, <2>3 DEF Promised!Refuse, In
  <1>6. CASE AuthLost(c)
    <2>1. UNCHANGED <<recipient_q, conn, signals>>
      BY <1>6 DEF AuthLost, statusVars
    <2>2. Queued' = Queued /\ In' = In
      BY <2>1 DEF Queued, In, Entered
    <2> QED
      BY <1>2, <1>3, <2>1, <2>2 DEF Promised!Lose, In
  <1> QED
    BY <1>4, <1>5, <1>6

\* A connection that stops leaves if it was active.
LEMMA StopSession ==
  ASSUME AInv, NEW c \in Conns, OnConnectionStop(c)
  PROVE  Promised!Leave(c) \/ UNCHANGED Promised!vars
  <1>1. TypeOK /\ CountCoversAccepted
    BY DEF AInv, Counts
  <1>2. UNCHANGED <<token, recipient_q, auth, status>>
    BY DEF OnConnectionStop, authVars
  <1>3. conn \in [Conns -> ConnE]
    BY <1>1 DEF TypeOK
  <1>4. CASE conn[c] = "active"
    <2>1. conn' = [conn EXCEPT ![c] = "closed"]
      BY <1>4 DEF OnConnectionStop
    <2>2. In' = In \ {c} /\ c \in In
      BY <1>3, <1>4, <2>1 DEF In, Entered
    <2>3. active_count = 1 <=> In' = {}
      <3>1. Cardinality(In \ {c}) = active_count - 1 /\ active_count \in Nat
        BY <1>1, <2>2, CountChange DEF In
      <3>2. IsFiniteSet(In \ {c})
        BY AuthenticatorAssumption, FS_Subset DEF In
      <3>3. Cardinality(In \ {c}) = 0 <=> In \ {c} = {}
        BY <3>2, FS_EmptySet
      <3> QED
        BY <2>2, <3>1, <3>3
    <2>4. signals' = IF In' = {} THEN Append(signals, FALSE) ELSE signals
      BY <1>4, <2>3 DEF OnConnectionStop
    <2>5. Queued' = Queued
      BY <1>2 DEF Queued
    <2> QED
      BY <1>2, <2>2, <2>4, <2>5 DEF Promised!Leave, In
  <1>5. CASE conn[c] # "active"
    <2>1. signals' = signals
      BY <1>5 DEF OnConnectionStop, statusVars
    <2>2. \A d \in Conns \ {c} : conn'[d] = conn[d]
      BY <1>3 DEF OnConnectionStop
    <2>3. /\ conn[c] \in {"starting", "passive", "entering"}
          /\ conn'[c] = IF conn[c] = "entering" THEN "lost" ELSE "closed"
      BY <1>3, <1>5 DEF OnConnectionStop, Live
    <2>4. \A d \in Conns : Entered(d)' <=> Entered(d)
      BY <2>2, <2>3 DEF Entered
    <2> QED
      BY <1>2, <2>1, <2>4, QuietSession
  <1> QED
    BY <1>4, <1>5

\* Every step of the authenticator is a step that Session allows.
LEMMA StepSession == AInv /\ [Next]_vars => [Promised!Next]_(Promised!vars)
  <1> SUFFICES ASSUME AInv, [Next]_vars PROVE [Promised!Next]_(Promised!vars)
    OBVIOUS
  <1>1. CASE Start \/ Exec \/ Finish \/ WriteFile \/ MonitorNotices \/ UNCHANGED vars
    <2>1. UNCHANGED <<token, recipient_q, auth, conn, signals, status>>
      BY <1>1 DEF Start, Exec, Finish, WriteFile, MonitorNotices, vars, authVars, statusVars
    <2>2. \A c \in Conns : Entered(c)' <=> Entered(c)
      BY <2>1 DEF Entered
    <2> QED
      BY <2>1, <2>2, QuietSession
  <1>2. CASE OnOnline
    BY <1>2, OnOnlineHears DEF Promised!Next
  <1>3. CASE OnAuthFileChange
    BY <1>3, FileChangeSession DEF Promised!Next
  <1>4. ASSUME NEW c \in Conns, OnConnectionInit(c) \/ InitAuth(c)
        PROVE  [Promised!Next]_(Promised!vars)
    BY <1>4, InitSession DEF Promised!Next
  <1>5. ASSUME NEW c \in Conns, AuthAccepted(c) \/ AuthRefused(c) \/ AuthLost(c)
        PROVE  [Promised!Next]_(Promised!vars)
    BY <1>5, AnswerSession DEF Promised!Next
  <1>6. ASSUME NEW c \in Conns, OnConnectionStop(c) PROVE [Promised!Next]_(Promised!vars)
    BY <1>6, StopSession DEF Promised!Next
  <1>7. ASSUME NEW c \in Conns, OnConnectionStart(c) \/ InitRefused(c) \/ EnterActive(c)
        PROVE  [Promised!Next]_(Promised!vars)
    <2>1. UNCHANGED <<token, recipient_q, auth, signals, status>>
      BY <1>7 DEF OnConnectionStart, InitRefused, EnterActive, authVars, statusVars
    <2>2. \A d \in Conns : Entered(d)' <=> Entered(d)
      BY <1>7 DEF OnConnectionStart, InitRefused, EnterActive, AInv, TypeOK, Entered
    <2> QED
      BY <2>1, <2>2, QuietSession
  <1> QED
    BY <1>1, <1>2, <1>3, <1>4, <1>5, <1>6, <1>7 DEF Next, Monitor, Rpc

\* Whatever comes in whatever order, for any number of connections: nobody
\* overtakes those who wait, a new token reaches all of them at once, and the
\* user is told of the first connection in and of the last one out.
THEOREM AuthImplementsSession == Spec => ImplementsSession
  <1>1. Init => Promised!Init
    <2> SUFFICES ASSUME Init PROVE Promised!Init
      OBVIOUS
    <2>1. Queued = {}
      BY EmptyQueue DEF Init
    <2>2. In = {}
      BY DEF Init, In, Entered
    <2> QED
      BY <2>1, <2>2 DEF Init, Promised!Init, In
  <1> QED
    BY <1>1, AlwaysAInv, StepSession, PTL DEF Spec, ImplementsSession, Promised!Spec
=============================================================================
