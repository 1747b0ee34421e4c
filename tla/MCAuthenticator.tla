-------------------------- MODULE MCAuthenticator --------------------------
(***************************************************************************)
(* Instances of Authenticator: two tokens of one account, a logged out     *)
(* file of that account, a file of another account, and no file at all.    *)
(***************************************************************************)
EXTENDS Authenticator, TLC

CONSTANTS c1, c2, c3

Data(e, u, t) == [endpoint |-> e, user |-> u, token |-> t]

MCAuthData == {Data("e1", "u1", "t1"), Data("e1", "u1", "t2"), Data("e1", "u1", ""),
               Data("e1", "u2", "t3"), Data("", "", "")}
SmallAuthData == {Data("e1", "u1", "t1"), Data("e1", "u1", ""), Data("e1", "u2", "t3")}

ConnSymmetry == Permutations(Conns)
=============================================================================
