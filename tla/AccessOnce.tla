----------------------------- MODULE AccessOnce -----------------------------
(***************************************************************************)
(* What the access of external participants promises: a grant admits one   *)
(* visitor, who may hand the access on to a browser; when the grant is     *)
(* withdrawn nobody is left in; and nothing reaches a target but from      *)
(* members of the organisation and from visitors who asked in time, once   *)
(* somebody was admitted.                                                  *)
(***************************************************************************)
CONSTANTS Grant, Target, Visit, TargetOf

VARIABLES
  access,    \* of a grant: "absent", "active" or "revoked"
  expired,   \* the grants whose time is over
  asked,     \* the visits that asked for a grant's access in time
  members,   \* the visits by members of the organisation
  admitted,  \* the visits a grant admitted
  inside,    \* those that have not been sent out again
  handed,    \* those whose access a browser has
  evidence   \* what has been submitted to a target

vars == <<access, expired, asked, members, admitted, inside, handed, evidence>>

Init ==
  /\ access = [g \in Grant |-> "absent"]
  /\ expired = {} /\ members = {} /\ inside = {} /\ handed = {}
  /\ asked = [g \in Grant |-> {}]
  /\ admitted = [g \in Grant |-> {}]
  /\ evidence = [t \in Target |-> {}]

Give(g) ==
  /\ access[g] = "absent"
  /\ access' = [access EXCEPT ![g] = "active"]
  /\ UNCHANGED <<expired, asked, members, admitted, inside, handed, evidence>>

Expire(g) ==
  /\ expired' = expired \cup {g}
  /\ UNCHANGED <<access, asked, members, admitted, inside, handed, evidence>>

Ask(v, g) ==
  /\ access[g] = "active" /\ g \notin expired
  /\ asked' = [asked EXCEPT ![g] = @ \cup {v}]
  /\ UNCHANGED <<access, expired, members, admitted, inside, handed, evidence>>

Join(v) ==
  /\ members' = members \cup {v}
  /\ UNCHANGED <<access, expired, asked, admitted, inside, handed, evidence>>

Admit(v, g) ==
  /\ access[g] = "active" /\ admitted[g] = {}
  /\ v \in asked[g]
  /\ admitted' = [admitted EXCEPT ![g] = {v}]
  /\ inside' = inside \cup {v}
  /\ UNCHANGED <<access, expired, asked, members, handed, evidence>>

HandOver(v) ==
  /\ \E g \in Grant : v \in admitted[g]
  /\ handed' = handed \cup {v}
  /\ UNCHANGED <<access, expired, asked, members, admitted, inside, evidence>>

\* Whether v may submit to t
Entitled(v, t) ==
  \/ v \in members
  \/ \E g \in Grant : /\ TargetOf[g] = t
                      /\ v \in asked[g]
                      /\ admitted[g] \cap handed # {}

Submit(v, t) ==
  /\ Entitled(v, t)
  /\ evidence' = [evidence EXCEPT ![t] = @ \cup {v}]
  /\ UNCHANGED <<access, expired, asked, members, admitted, inside, handed>>

Withdraw(g) ==
  /\ access[g] # "absent"
  /\ access' = [access EXCEPT ![g] = "revoked"]
  /\ inside' = inside \ admitted[g]
  /\ UNCHANGED <<expired, asked, members, admitted, handed, evidence>>

Next ==
  \/ \E g \in Grant : Give(g) \/ Expire(g) \/ Withdraw(g)
  \/ \E v \in Visit : Join(v) \/ HandOver(v)
  \/ \E v \in Visit, g \in Grant : Ask(v, g) \/ Admit(v, g)
  \/ \E v \in Visit, t \in Target : Submit(v, t)

Spec == Init /\ [][Next]_vars
=============================================================================
