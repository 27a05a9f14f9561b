---------------------------- MODULE SignInOnce ----------------------------
(***************************************************************************)
(* What browser sessions promise: a link signs in once; a sign-in is held  *)
(* by one session at a time, which hands it on to one heir while it is     *)
(* accepted and the deadline of the sign-in has not passed; a session that *)
(* has ended, by sign-out or otherwise, is not accepted again and has no   *)
(* heir from then on.                                                      *)
(***************************************************************************)
CONSTANTS Id, Flow, None

VARIABLES
  live,   \* the sessions that are not revoked
  heir,   \* the session that replaced one
  root,   \* the session of the sign-in a session descends from
  over,   \* the sign-ins, by that session, whose deadline has passed
  made,   \* the sessions the link of a flow has made
  ended   \* the sessions whose sign-out was confirmed

vars == <<live, heir, root, over, made, ended>>

\* The browser is signed in.
Init ==
  /\ \E i \in Id :
       /\ live = {i}
       /\ root = [j \in Id |-> IF j = i THEN i ELSE None]
  /\ heir = [i \in Id |-> None]
  /\ over = {}
  /\ made = [f \in Flow |-> {}]
  /\ ended = {}

New(i) == root[i] = None
Accepted(i) == i \in live /\ root[i] \notin over

\* The link is opened; the session the browser came with, if any, is replaced.
SignIn(f, n, i) ==
  /\ made[f] = {}
  /\ New(n)
  /\ i = None \/ Accepted(i)
  /\ live' = (live \ {i}) \cup {n}
  /\ heir' = [j \in Id |-> IF j = i THEN n ELSE heir[j]]
  /\ root' = [root EXCEPT ![n] = n]
  /\ made' = [made EXCEPT ![f] = {n}]
  /\ UNCHANGED <<over, ended>>

Renew(i, n) ==
  /\ Accepted(i)
  /\ New(n)
  /\ live' = (live \ {i}) \cup {n}
  /\ heir' = [heir EXCEPT ![i] = n]
  /\ root' = [root EXCEPT ![n] = root[i]]
  /\ UNCHANGED <<over, made, ended>>

\* A session may end at any time, ...
Revoke ==
  /\ live' \in SUBSET live
  /\ UNCHANGED <<heir, root, over, made, ended>>

\* ... and does so when its sign-out is confirmed.
SignOut(i) ==
  /\ ~New(i)
  /\ live' = live \ {i}
  /\ ended' = ended \cup {i}
  /\ UNCHANGED <<heir, root, over, made>>

Pass(i) ==
  /\ over' = over \cup {i}
  /\ UNCHANGED <<live, heir, root, made, ended>>

Next ==
  \/ Revoke
  \/ \E i \in Id : SignOut(i) \/ Pass(i)
  \/ \E i, n \in Id : Renew(i, n)
  \/ \E f \in Flow, n \in Id, i \in Id \cup {None} : SignIn(f, n, i)

Spec == Init /\ [][Next]_vars
=============================================================================
