---------------------------- MODULE DangerousGate ----------------------------
(***************************************************************************)
(* The two-step confirmation of flips, jumps and pounces in the tool layer *)
(* (voice_agent/tools.py): one slot for the outstanding request, guarded   *)
(* by a lock that covers the swap alone, a deadline on the monotonic clock *)
(* and the robot client behind it.  Tool calls run on any number of        *)
(* threads; a call that confirms reads the slot, the name and the clock in *)
(* steps of their own.                                                     *)
(***************************************************************************)
EXTENDS Naturals

CONSTANTS
    Callers,      \* threads on which tool calls run
    Names,        \* the names a call may give
    Ballistic,    \* DANGEROUS_ACTIONS, names in lower case
    Motions,      \* the keys of perform_special_motion's table, in lower case
    lower,        \* str.lower on Names
    None,
    Window,       \* DANGEROUS_CONFIRM_SECONDS
    MaxTime,      \* bound on the clock
    MaxRequests   \* bound on the requests made

ASSUME GateAssumption ==
    /\ Ballistic \subseteq Motions
    /\ Motions \subseteq Names
    /\ lower \in [Names -> Names]
    /\ \A n \in Motions : lower[n] = n
    /\ None \notin Names
    /\ Window \in Nat /\ MaxTime \in Nat /\ MaxRequests \in Nat

Requests == 1..MaxRequests

VARIABLES
    now,       \* time.monotonic()
    pending,   \* _pending_dangerous: the request in the slot, 0 for None
    issued,    \* how many requests have been made; a request is its number
    action,    \* what each request names
    expires,   \* when each request lapses
    pc,        \* where each thread is in its call
    name,      \* the argument of its call
    claimed,   \* the request its call has swapped out of the slot, 0 for None
    performed, \* how often each request led to a motion
    robot      \* the last motion published, and the request behind it

vars == <<now, pending, issued, action, expires, pc, name, claimed, performed, robot>>
slotVars == <<pending, issued, action, expires>>

Init ==
    /\ now = 0
    /\ pending = 0
    /\ issued = 0
    /\ action = [r \in Requests |-> None]
    /\ expires = [r \in Requests |-> 0]
    /\ pc = [c \in Callers |-> "idle"]
    /\ name = [c \in Callers |-> None]
    /\ claimed = [c \in Callers |-> 0]
    /\ performed = [r \in Requests |-> 0]
    /\ robot = [motion |-> None, request |-> 0]

Tick ==
    /\ now < MaxTime
    /\ now' = now + 1
    /\ UNCHANGED <<slotVars, pc, name, claimed, performed, robot>>

(* Mutant: the time the request was made is stored as its deadline. *)
ArmForever(c, n) ==
    /\ pc[c] = "idle"
    /\ n \in Ballistic
    /\ issued < MaxRequests
    /\ issued' = issued + 1
    /\ pending' = issued'
    /\ action' = [action EXCEPT ![issued'] = n]
    /\ expires' = [expires EXCEPT ![issued'] = MaxTime]
    /\ UNCHANGED <<now, pc, name, claimed, performed, robot>>

(* request_dangerous_action: any other name is refused and changes nothing. *)
Request(c, n) ==
    /\ pc[c] = "idle"
    /\ n \in Ballistic
    /\ issued < MaxRequests
    /\ issued' = issued + 1
    /\ pending' = issued'
    /\ action' = [action EXCEPT ![issued'] = n]
    /\ expires' = [expires EXCEPT ![issued'] = now + Window]
    /\ UNCHANGED <<now, pc, name, claimed, performed, robot>>

(* Mutant: the slot is read and not cleared. *)
ClaimWithoutSwap(c, n) ==
    /\ pc[c] = "idle"
    /\ claimed' = [claimed EXCEPT ![c] = pending]
    /\ name' = [name EXCEPT ![c] = n]
    /\ pc' = [pc EXCEPT ![c] = "claimed"]
    /\ UNCHANGED <<now, slotVars, performed, robot>>

(* confirm_dangerous_action: the locked swap of _claim_dangerous. *)
Claim(c, n) ==
    /\ pc[c] = "idle"
    /\ claimed' = [claimed EXCEPT ![c] = pending]
    /\ pending' = 0
    /\ name' = [name EXCEPT ![c] = n]
    /\ pc' = [pc EXCEPT ![c] = "claimed"]
    /\ UNCHANGED <<now, issued, action, expires, performed, robot>>

Finish(c) ==
    /\ pc' = [pc EXCEPT ![c] = "idle"]
    /\ name' = [name EXCEPT ![c] = None]
    /\ claimed' = [claimed EXCEPT ![c] = 0]

(* Mutant: any outstanding request will do. *)
RedeemableAny(c) ==
    /\ claimed[c] # 0
    /\ now <= expires[claimed[c]]

Redeemable(c) ==
    /\ claimed[c] # 0
    /\ action[claimed[c]] = name[c]
    /\ now <= expires[claimed[c]]

(* The rest of _claim_dangerous, after the lock is released. *)
Accept(c) ==
    /\ pc[c] = "claimed"
    /\ Redeemable(c)
    /\ pc' = [pc EXCEPT ![c] = "accepted"]
    /\ UNCHANGED <<now, slotVars, name, claimed, performed, robot>>

Reject(c) ==
    /\ pc[c] = "claimed"
    /\ ~Redeemable(c)
    /\ Finish(c)
    /\ UNCHANGED <<now, slotVars, performed, robot>>

(* perform_special_motion publishes the motion, or raises when the client  *)
(* is not connected.                                                       *)
Perform(c) ==
    /\ pc[c] = "accepted"
    /\ performed' = [performed EXCEPT ![claimed[c]] = @ + 1]
    /\ robot' = [motion |-> lower[name[c]], request |-> claimed[c]]
    /\ Finish(c)
    /\ UNCHANGED <<now, slotVars>>

PerformFails(c) ==
    /\ pc[c] = "accepted"
    /\ Finish(c)
    /\ UNCHANGED <<now, slotVars, performed, robot>>

(* perform_action: refuses a name of Ballistic, performs a known motion.   *)
(* The refusal compares the name as given, the table the name lowered.     *)
PerformAction(c, n) ==
    /\ pc[c] = "idle"
    /\ n \notin Ballistic
    /\ lower[n] \in Motions
    /\ robot' = [motion |-> lower[n], request |-> 0]
    /\ UNCHANGED <<now, slotVars, pc, name, claimed, performed>>

Next ==
    \/ Tick
    \/ \E c \in Callers, n \in Names :
          Request(c, n) \/ Claim(c, n) \/ PerformAction(c, n)
    \/ \E c \in Callers : Accept(c) \/ Reject(c) \/ Perform(c) \/ PerformFails(c)

Spec == Init /\ [][Next]_vars

-----------------------------------------------------------------------------
TypeOK ==
    /\ now \in 0..MaxTime
    /\ pending \in 0..issued
    /\ issued \in 0..MaxRequests
    /\ action \in [Requests -> Ballistic \cup {None}]
    /\ expires \in [Requests -> 0..(MaxTime + Window)]
    /\ pc \in [Callers -> {"idle", "claimed", "accepted"}]
    /\ name \in [Callers -> Names \cup {None}]
    /\ claimed \in [Callers -> 0..issued]
    /\ performed \in [Requests -> Nat]
    /\ robot \in [motion : Motions \cup {None}, request : 0..issued]

(* A confirmation cannot be replayed: however calls interleave, a request  *)
(* leads to at most one motion ("Single-use whatever the outcome").        *)
SingleUse == \A r \in Requests : performed[r] <= 1

(* A confirmation cannot be redirected: what a confirmation performs is    *)
(* what its own request named, even when another request replaced it in    *)
(* the slot between the swap and the motion.                               *)
Undirected ==
    robot.request # 0 => robot.motion = action[robot.request]

(* A request that nobody confirmed inside its window never leads to a      *)
(* motion: a call that gets to perform it had accepted it in time.         *)
AcceptedInTime ==
    [][\A c \in Callers :
          pc[c] # "accepted" /\ pc'[c] = "accepted" =>
              \E r \in 1..issued : /\ claimed[c] = r
                                   /\ now <= expires[r]
                                   /\ expires[r] <= now + Window
                                   /\ \A d \in Callers \ {c} : claimed[d] # r]_vars

(* The tokens of Confirmations. *)
Token(r) ==
    CASE r > issued -> "new"
      [] r <= issued /\ performed[r] > 0 -> "performed"
      [] r <= issued /\ performed[r] = 0 /\ pending = r -> "open"
      [] r <= issued /\ performed[r] = 0 /\ pending # r
           /\ \E c \in Callers : claimed[c] = r -> "taken"
      [] OTHER -> "lapsed"

Tokens == INSTANCE Confirmations
    WITH status <- [r \in Requests |-> Token(r)], motion <- action, NoMotion <- None

(* The gate implements the token discipline. *)
TokenSpec == Tokens!Spec

(* Why the swap is enough: a request is either in the slot or with one     *)
(* call, not both, and has led to no motion as long as it is.              *)
OneOwner ==
    /\ \A c \in Callers : pc[c] = "idle" => claimed[c] = 0
    /\ \A c \in Callers : claimed[c] # 0 =>
          /\ claimed[c] # pending
          /\ performed[claimed[c]] = 0
          /\ \A d \in Callers \ {c} : claimed[d] # claimed[c]
    /\ pending # 0 => performed[pending] = 0
    /\ \A r \in Requests : r > issued => performed[r] = 0

-----------------------------------------------------------------------------
(* What a docstring says of the code, and it does not do.                  *)

(* perform_action: "Flips, jumps and pounces are NOT available here - they *)
(* go through request_dangerous_action instead.  This tool will refuse     *)
(* them."  The robot performs a ballistic motion only for a request.       *)
BallisticIsConfirmed ==
    robot.motion \in Ballistic => robot.request # 0

=============================================================================
