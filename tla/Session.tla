------------------------------ MODULE Session ------------------------------
(***************************************************************************)
(* What the authenticator promises the connections and the user: there is  *)
(* one token in use; a connection is asked for with that token, or waits   *)
(* for one, but only if there is none or it would overtake others; a new   *)
(* token reaches all who wait, at once; who is accepted is in until it     *)
(* leaves; and the user hears of the first one in and of the last one out, *)
(* in that order.                                                          *)
(***************************************************************************)
EXTENDS Sequences

CONSTANTS
    Conns,    \* connections
    Tokens,   \* tokens the service may be asked with
    None      \* no token

VARIABLES
    token,    \* the token in use, or None
    waiting,  \* connections that wait for another token
    asked,    \* the token the service was asked with for a connection, or None
    in,       \* connections accepted
    news,     \* what the user is still to hear: TRUE is online
    shown     \* what the user has heard last

vars == <<token, waiting, asked, in, news, shown>>

Init ==
    /\ token = None
    /\ waiting = {}
    /\ asked = [c \in Conns |-> None]
    /\ in = {}
    /\ news = <<>>
    /\ shown = FALSE

Out(c)      == c \notin waiting \cup in /\ asked[c] = None
Answered(c) == asked[c] # None /\ asked' = [asked EXCEPT ![c] = None]

-----------------------------------------------------------------------------
Ask(c) ==
    /\ Out(c)
    /\ token # None
    /\ asked' = [asked EXCEPT ![c] = token]
    /\ UNCHANGED <<token, waiting, in, news, shown>>

Wait(c) ==
    /\ Out(c)
    /\ token = None \/ waiting # {}
    /\ waiting' = waiting \cup {c}
    /\ UNCHANGED <<token, asked, in, news, shown>>

Accept(c) ==
    /\ Answered(c)
    /\ in' = in \cup {c}
    /\ news' = IF in = {} THEN Append(news, TRUE) ELSE news
    /\ UNCHANGED <<token, waiting, shown>>

Refuse(c) ==
    /\ Answered(c)
    /\ waiting' = waiting \cup {c}
    /\ UNCHANGED <<token, in, news, shown>>

Lose(c) ==
    /\ Answered(c)
    /\ UNCHANGED <<token, waiting, in, news, shown>>

Leave(c) ==
    /\ c \in in
    /\ in' = in \ {c}
    /\ news' = IF in' = {} THEN Append(news, FALSE) ELSE news
    /\ UNCHANGED <<token, waiting, asked, shown>>

-----------------------------------------------------------------------------
NewToken ==
    /\ token' \in Tokens \ {None}
    /\ asked' = [c \in Conns |-> IF c \in waiting THEN token' ELSE asked[c]]
    /\ waiting' = {}
    /\ UNCHANGED <<in, news, shown>>

LogOut ==
    /\ token' = None
    /\ UNCHANGED <<waiting, asked, in, news, shown>>

Hear ==
    /\ news # <<>>
    /\ shown' = Head(news)
    /\ news' = Tail(news)
    /\ UNCHANGED <<token, waiting, asked, in>>

Next ==
    \/ NewToken \/ LogOut \/ Hear
    \/ \E c \in Conns : Ask(c) \/ Wait(c) \/ Accept(c) \/ Refuse(c) \/ Lose(c) \/ Leave(c)

Spec == Init /\ [][Next]_vars
=============================================================================
