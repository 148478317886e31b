---------------------------- MODULE Confirmations ----------------------------
(***************************************************************************)
(* What the two-step gate for ballistic motions promises: every request is *)
(* a token, at most one of which is open.  Opening a token closes the one  *)
(* that was open; an open token is redeemed for one performance of the     *)
(* motion it was issued for, or lapses; and that is all that ever happens  *)
(* to it.                                                                  *)
(***************************************************************************)
EXTENDS Naturals

CONSTANTS Requests,  \* identities of requests
          Ballistic, \* the motions behind the gate
          NoMotion   \* the motion of a request not made yet

VARIABLES status,    \* of each request
          motion     \* the motion each request is for

Issue(r, m) ==
    /\ status[r] = "new"
    /\ status' = [q \in Requests |->
                     CASE q = r -> "open"
                       [] q # r /\ status[q] = "open" -> "lapsed"
                       [] OTHER -> status[q]]
    /\ motion' = [motion EXCEPT ![r] = m]

(* A confirmation takes the token out of reach of every other one ... *)
Take(r, next) ==
    /\ status[r] = "open"
    /\ status' = [status EXCEPT ![r] = next]
    /\ UNCHANGED motion

(* ... and uses it once, or not at all. *)
Use(r, next) ==
    /\ status[r] = "taken"
    /\ status' = [status EXCEPT ![r] = next]
    /\ UNCHANGED motion

Init ==
    /\ status = [r \in Requests |-> "new"]
    /\ motion = [r \in Requests |-> NoMotion]

Next == \E r \in Requests :
    \/ \E m \in Ballistic : Issue(r, m)
    \/ Take(r, "taken")
    \/ Use(r, "performed")
    \/ Use(r, "lapsed")

Spec == Init /\ [][Next]_<<status, motion>>

=============================================================================
