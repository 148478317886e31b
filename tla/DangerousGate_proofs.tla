------------------------ MODULE DangerousGate_proofs ------------------------
(***************************************************************************)
(* Proofs about DangerousGate, for any number of tool threads, names,      *)
(* requests and any window.                                                *)
(***************************************************************************)
EXTENDS DangerousGate, TLAPS

(* What a call got past the checks with, and what requests look like. *)
Checked ==
    /\ \A c \in Callers : pc[c] = "accepted" =>
          claimed[c] # 0 /\ name[c] = action[claimed[c]]
    /\ \A r \in 1..issued :
          action[r] \in Ballistic /\ expires[r] <= now + Window

IInv == TypeOK /\ OneOwner /\ Checked

-----------------------------------------------------------------------------
(* A thread's step, and the clock's, keep the types. *)
LEMMA NextType ==
  ASSUME IInv, [Next]_vars
  PROVE  TypeOK'
<1> USE GateAssumption DEF IInv, TypeOK, slotVars, Requests
<1>1. CASE Tick
  BY <1>1 DEF Tick
<1>2. ASSUME NEW c \in Callers, NEW n \in Names, Request(c, n)
      PROVE  TypeOK'
  <2>1. issued' \in 1..MaxRequests /\ pending' = issued' /\ issued' = issued + 1
    BY <1>2 DEF Request
  <2>2. action' \in [Requests -> Ballistic \cup {None}]
    BY <1>2, <2>1 DEF Request
  <2>3. expires' \in [Requests -> 0..(MaxTime + Window)]
    <3>1. now + Window \in 0..(MaxTime + Window)
      OBVIOUS
    <3>2. QED
      BY <1>2, <2>1, <3>1 DEF Request
  <2>4. /\ claimed' \in [Callers -> 0..issued']
        /\ robot' \in [motion : Motions \cup {None}, request : 0..issued']
    <3>1. 0..issued \subseteq 0..issued'
      BY <2>1
    <3>2. QED
      BY <1>2, <3>1 DEF Request
  <2>5. /\ now' \in 0..MaxTime
        /\ pc' \in [Callers -> {"idle", "claimed", "accepted"}]
        /\ name' \in [Callers -> Names \cup {None}]
        /\ performed' \in [Requests -> Nat]
    BY <1>2 DEF Request
  <2>6. issued' \in 0..MaxRequests /\ pending' \in 0..issued'
    BY <2>1
  <2>7. QED
    BY <2>2, <2>3, <2>4, <2>5, <2>6, ZenonT(30)
<1>3. ASSUME NEW c \in Callers, NEW n \in Names, Claim(c, n)
      PROVE  TypeOK'
  BY <1>3 DEF Claim
<1>4. ASSUME NEW c \in Callers, NEW n \in Names, PerformAction(c, n)
      PROVE  TypeOK'
  BY <1>4 DEF PerformAction
<1>5. ASSUME NEW c \in Callers, Accept(c)
      PROVE  TypeOK'
  BY <1>5 DEF Accept
<1>6. ASSUME NEW c \in Callers, Reject(c)
      PROVE  TypeOK'
  BY <1>6 DEF Reject, Finish
<1>7. ASSUME NEW c \in Callers, Perform(c)
      PROVE  TypeOK'
  <2>1. claimed[c] \in 1..issued /\ lower[name[c]] \in Motions
    BY <1>7 DEF Perform, Checked
  <2>2. performed' \in [Requests -> Nat]
    <3>1. claimed[c] \in Requests /\ performed[claimed[c]] + 1 \in Nat
      BY <2>1
    <3>2. QED
      BY <1>7, <3>1 DEF Perform
  <2>3. robot' \in [motion : Motions \cup {None}, request : 0..issued]
    BY <1>7, <2>1 DEF Perform
  <2>4. QED
    BY <1>7, <2>2, <2>3, SMTT(30) DEF Perform, Finish
<1>8. ASSUME NEW c \in Callers, PerformFails(c)
      PROVE  TypeOK'
  BY <1>8 DEF PerformFails, Finish
<1>9. CASE UNCHANGED vars
  BY <1>9 DEF vars
<1>10. QED
  BY <1>1, <1>2, <1>3, <1>4, <1>5, <1>6, <1>7, <1>8, <1>9 DEF Next

(* The swap keeps every request with one owner. *)
LEMMA NextOwner ==
  ASSUME IInv, [Next]_vars
  PROVE  OneOwner'
<1> USE GateAssumption DEF IInv, OneOwner, slotVars, Requests
<1>1. ASSUME NEW c \in Callers, NEW n \in Names, Request(c, n)
      PROVE  OneOwner'
  <2>1. \A d \in Callers : claimed[d] \in 0..issued /\ claimed[d] # issued'
    BY <1>1 DEF Request, TypeOK
  <2>2. issued' \in Requests /\ performed[issued'] = 0 /\ issued' > issued
    BY <1>1 DEF Request, TypeOK
  <2>3. QED
    BY <1>1, <2>1, <2>2 DEF Request, TypeOK
<1>2. ASSUME NEW c \in Callers, NEW n \in Names, Claim(c, n)
      PROVE  OneOwner'
  BY <1>2 DEF Claim, TypeOK
<1>3. ASSUME NEW c \in Callers, Perform(c)
      PROVE  OneOwner'
  <2>1. /\ claimed' = [claimed EXCEPT ![c] = 0]
        /\ performed' = [performed EXCEPT ![claimed[c]] = @ + 1]
        /\ pc' = [pc EXCEPT ![c] = "idle"]
        /\ pending' = pending /\ issued' = issued
    BY <1>3 DEF Perform, Finish
  <2>2. claimed[c] \in 1..issued
    BY <1>3 DEF Perform, Checked, TypeOK
  <2>3. \A r \in Requests : r # claimed[c] => performed'[r] = performed[r]
    BY <2>1 DEF TypeOK
  <2>4. \A d \in Callers : d # c => claimed'[d] = claimed[d] /\ pc'[d] = pc[d]
    BY <2>1 DEF TypeOK
  <2>5. claimed'[c] = 0
    BY <2>1 DEF TypeOK
  <2>6. issued \in 0..MaxRequests /\ pending \in 0..issued
        /\ \A d \in Callers : claimed[d] \in 0..issued
    BY DEF TypeOK
  <2>7. QED
    BY <2>1, <2>2, <2>3, <2>4, <2>5, <2>6
<1>4. ASSUME NEW c \in Callers, Accept(c)
      PROVE  OneOwner'
  BY <1>4 DEF Accept, TypeOK
<1>5. ASSUME NEW c \in Callers, Reject(c) \/ PerformFails(c)
      PROVE  OneOwner'
  <2>1. /\ claimed' = [claimed EXCEPT ![c] = 0]
        /\ pc' = [pc EXCEPT ![c] = "idle"]
        /\ UNCHANGED <<pending, issued, performed>>
    BY <1>5 DEF Reject, PerformFails, Finish
  <2>2. \A d \in Callers : d # c => claimed'[d] = claimed[d] /\ pc'[d] = pc[d]
    BY <2>1 DEF TypeOK
  <2>3. claimed'[c] = 0
    BY <2>1 DEF TypeOK
  <2>4. QED
    BY <2>1, <2>2, <2>3
<1>6. CASE Tick
  <2>1. UNCHANGED <<pending, issued, pc, claimed, performed>>
    BY <1>6 DEF Tick
  <2>2. QED
    BY <2>1
<1>7. ASSUME NEW c \in Callers, NEW n \in Names, PerformAction(c, n)
      PROVE  OneOwner'
  BY <1>7 DEF PerformAction
<1>8. CASE UNCHANGED vars
  BY <1>8 DEF vars
<1>9. QED
  BY <1>1, <1>2, <1>3, <1>4, <1>5, <1>6, <1>7, <1>8 DEF Next

(* What was checked stays so: a request is written once. *)
LEMMA NextChecked ==
  ASSUME IInv, [Next]_vars
  PROVE  Checked'
<1> USE GateAssumption DEF IInv, Checked, slotVars, Requests, TypeOK
<1>1. CASE Tick
  BY <1>1 DEF Tick
<1>2. ASSUME NEW c \in Callers, NEW n \in Names, Request(c, n)
      PROVE  Checked'
  <2>1. issued' \in 1..MaxRequests /\ issued' = issued + 1 /\ now' = now
    BY <1>2 DEF Request
  <2>2. \A r \in 1..issued : action'[r] = action[r] /\ expires'[r] = expires[r]
    BY <1>2, <2>1 DEF Request
  <2>3. action'[issued'] \in Ballistic /\ expires'[issued'] = now + Window
    BY <1>2, <2>1 DEF Request
  <2>4. \A r \in 1..issued' : r \in 1..issued \/ r = issued'
    BY <2>1
  <2>5. \A d \in Callers : pc'[d] = "accepted" =>
           claimed'[d] # 0 /\ name'[d] = action'[claimed'[d]]
    <3>1. \A d \in Callers : pc[d] = "accepted" => claimed[d] \in 1..issued
      OBVIOUS
    <3>2. pc' = pc /\ claimed' = claimed /\ name' = name
      BY <1>2 DEF Request
    <3>3. QED
      BY <2>2, <3>1, <3>2
  <2>6. \A r \in 1..issued' : action'[r] \in Ballistic /\ expires'[r] <= now' + Window
    <3>1. ASSUME NEW r \in 1..issued
          PROVE  action'[r] \in Ballistic /\ expires'[r] <= now' + Window
      BY <2>1, <2>2
    <3>2. now + Window <= now' + Window
      BY <2>1
    <3>3. QED
      BY <2>3, <2>4, <3>1, <3>2
  <2>7. QED
    BY <2>5, <2>6
<1>3. ASSUME NEW c \in Callers, NEW n \in Names, Claim(c, n)
      PROVE  Checked'
  BY <1>3 DEF Claim
<1>4. ASSUME NEW c \in Callers, Accept(c)
      PROVE  Checked'
  BY <1>4 DEF Accept, Redeemable
<1>5. ASSUME NEW c \in Callers, Reject(c) \/ Perform(c) \/ PerformFails(c)
      PROVE  Checked'
  <2>1. /\ pc' = [pc EXCEPT ![c] = "idle"]
        /\ name' = [name EXCEPT ![c] = None]
        /\ claimed' = [claimed EXCEPT ![c] = 0]
        /\ UNCHANGED <<now, issued, action, expires>>
    BY <1>5 DEF Reject, Perform, PerformFails, Finish
  <2>2. \A r \in 1..issued' : action'[r] \in Ballistic /\ expires'[r] <= now' + Window
    BY <2>1
  <2>3. ASSUME NEW d \in Callers, pc'[d] = "accepted"
        PROVE  claimed'[d] # 0 /\ name'[d] = action'[claimed'[d]]
    <3>1. d # c /\ pc[d] = "accepted" /\ claimed'[d] = claimed[d] /\ name'[d] = name[d]
      BY <2>1, <2>3
    <3>2. QED
      BY <2>1, <3>1
  <2>4. QED
    BY <2>2, <2>3
<1>6. CASE (\E c \in Callers, n \in Names : PerformAction(c, n)) \/ UNCHANGED vars
  BY <1>6 DEF PerformAction, vars
<1>7. QED
  BY <1>1, <1>2, <1>3, <1>4, <1>5, <1>6 DEF Next

LEMMA InitIInv == Init => IInv
  BY GateAssumption DEF Init, IInv, TypeOK, OneOwner, Checked, Requests

(* The inductive invariant of the gate. *)
THEOREM GateInvariant == Spec => []IInv
<1>1. IInv /\ [Next]_vars => IInv'
  BY NextType, NextOwner, NextChecked DEF IInv
<1>2. QED
  BY InitIInv, <1>1, PTL DEF Spec

(* Fields hold what their writers put there. *)
THEOREM TypeCorrect == Spec => []TypeOK
<1>1. IInv => TypeOK
  BY DEF IInv
<1>2. QED
  BY GateInvariant, <1>1, PTL

(* A confirmation cannot be replayed.  _claim_dangerous empties the slot   *)
(* whatever the outcome, so no second call can hold the same request.      *)
THEOREM NoReplay == Spec => []SingleUse
<1>1. Init => SingleUse
  BY DEF Init, SingleUse
<1>2. IInv /\ SingleUse /\ [Next]_vars => SingleUse'
  <2> SUFFICES ASSUME IInv, SingleUse, [Next]_vars
               PROVE  SingleUse'
    OBVIOUS
  <2>1. ASSUME NEW c \in Callers, Perform(c)
        PROVE  SingleUse'
    <3>1. performed[claimed[c]] = 0
      BY <2>1 DEF Perform, IInv, OneOwner, Checked
    <3>2. performed' = [performed EXCEPT ![claimed[c]] = @ + 1]
      BY <2>1 DEF Perform
    <3>3. QED
      BY <3>1, <3>2 DEF SingleUse, IInv, TypeOK
  <2>2. CASE UNCHANGED performed
    BY <2>2 DEF SingleUse
  <2>3. QED
    BY <2>1, <2>2
    DEF Next, vars, Tick, Request, Claim, PerformAction, Accept, Reject, PerformFails
<1>3. QED
  BY <1>1, <1>2, GateInvariant, PTL DEF Spec

(* A confirmation cannot be redirected: between the swap and the motion    *)
(* other requests come and go, and the motion is still the confirmed one.  *)
THEOREM NoRedirection == Spec => []Undirected
<1>1. Init => Undirected
  BY DEF Init, Undirected
<1>2. IInv /\ Undirected /\ [Next]_vars => Undirected'
  <2> SUFFICES ASSUME IInv, Undirected, [Next]_vars
               PROVE  Undirected'
    OBVIOUS
  <2>1. ASSUME NEW c \in Callers, Perform(c)
        PROVE  Undirected'
    <3>1. claimed[c] \in 1..issued /\ name[c] = action[claimed[c]]
      BY <2>1 DEF Perform, IInv, TypeOK, Checked
    <3>2. lower[name[c]] = name[c]
      BY <3>1, GateAssumption DEF IInv, Checked
    <3>3. QED
      BY <2>1, <3>1, <3>2 DEF Perform, Undirected, slotVars
  <2>2. ASSUME NEW c \in Callers, NEW n \in Names, Request(c, n)
        PROVE  Undirected'
    <3>1. robot.request \in 0..issued
      BY DEF IInv, TypeOK
    <3>2. issued' = issued + 1 /\ issued' \in Requests
      BY <2>2, GateAssumption DEF Request, IInv, TypeOK, Requests
    <3>3. action'[robot.request] = action[robot.request]
      BY <2>2, <3>1, <3>2 DEF Request, IInv, TypeOK
    <3>4. QED
      BY <2>2, <3>3 DEF Request, Undirected
  <2>3. ASSUME NEW c \in Callers, NEW n \in Names, PerformAction(c, n)
        PROVE  Undirected'
    BY <2>3 DEF PerformAction, Undirected
  <2>4. CASE UNCHANGED <<robot, action>>
    BY <2>4 DEF Undirected
  <2>5. QED
    BY <2>1, <2>2, <2>3, <2>4
    DEF Next, vars, slotVars, Tick, Claim, Accept, Reject, PerformFails
<1>3. QED
  BY <1>1, <1>2, GateInvariant, PTL DEF Spec

(* Nobody acts on a request after its window, and no two calls accept the  *)
(* same one.                                                               *)
THEOREM Timely == Spec => AcceptedInTime
<1> DEFINE OnlyInTime ==
        \A c \in Callers :
          pc[c] # "accepted" /\ pc'[c] = "accepted" =>
              \E r \in 1..issued : /\ claimed[c] = r
                                   /\ now <= expires[r]
                                   /\ expires[r] <= now + Window
                                   /\ \A d \in Callers \ {c} : claimed[d] # r
<1>1. IInv /\ [Next]_vars => [OnlyInTime]_vars
  <2> SUFFICES ASSUME IInv, Next, NEW c \in Callers,
                      pc[c] # "accepted", pc'[c] = "accepted"
               PROVE  \E r \in 1..issued : /\ claimed[c] = r
                                           /\ now <= expires[r]
                                           /\ expires[r] <= now + Window
                                           /\ \A d \in Callers \ {c} : claimed[d] # r
    OBVIOUS
  <2>1. PICK d \in Callers : Accept(d)
    BY DEF Next, Tick, Request, Claim, PerformAction, Reject, Perform, PerformFails,
           Finish, IInv, TypeOK
  <2>2. c = d
    BY <2>1 DEF Accept, IInv, TypeOK
  <2>3. claimed[c] \in 1..issued
    BY <2>1, <2>2 DEF Accept, Redeemable, IInv, TypeOK
  <2>4. QED
    BY <2>1, <2>2, <2>3 DEF Accept, Redeemable, IInv, OneOwner, Checked
<1>2. QED
  BY GateInvariant, <1>1, PTL DEF Spec, AcceptedInTime

-----------------------------------------------------------------------------
(* The tokens of Confirmations, read off the gate's state. *)
LEMMA TokenCases ==
  ASSUME IInv, NEW r \in Requests
  PROVE  /\ Token(r) = "new" <=> r > issued
         /\ Token(r) = "performed" <=> r <= issued /\ performed[r] > 0
         /\ Token(r) = "open" <=> pending = r
         /\ Token(r) = "taken" <=> \E c \in Callers : claimed[c] = r
         /\ Token(r) \in {"new", "performed", "open", "taken", "lapsed"}
<1>1. /\ issued \in Nat /\ pending \in 0..issued /\ r \in Nat \ {0}
      /\ performed[r] \in Nat
      /\ \A c \in Callers : claimed[c] \in 0..issued
  BY GateAssumption DEF IInv, TypeOK, Requests
<1>2. pending = r => r <= issued /\ performed[r] = 0
  BY <1>1 DEF IInv, OneOwner
<1>3. ASSUME NEW c \in Callers, claimed[c] = r
      PROVE  r <= issued /\ performed[r] = 0 /\ pending # r
  BY <1>1, <1>3 DEF IInv, OneOwner
<1>4. QED
  BY <1>1, <1>2, <1>3 DEF Token

(* A step that leaves the slot, the owners and the counts alone is none of *)
(* the tokens' business.                                                   *)
LEMMA TokensStutter ==
  ASSUME UNCHANGED <<pending, issued, action, claimed, performed>>
  PROVE  UNCHANGED <<[r \in Requests |-> Token(r)], action>>
<1>1. \A r \in Requests : Token(r)' = Token(r)
  BY DEF Token
<1>2. QED
  BY <1>1

(* The step that makes a call let go of the request it holds. *)
LEMMA Release ==
  ASSUME IInv, IInv', NEW c \in Callers, NEW r \in Requests, claimed[c] = r,
         claimed' = [claimed EXCEPT ![c] = 0],
         UNCHANGED <<pending, issued, action>>,
         \A q \in Requests : q # r => performed'[q] = performed[q],
         NEW next \in {"performed", "lapsed"},
         next = "performed" <=> performed'[r] > 0
  PROVE  Tokens!Use(r, next)
<1>1. r \in Nat \ {0} /\ r <= issued /\ pending # r
  BY GateAssumption, SMTT(30) DEF IInv, TypeOK, Requests, OneOwner
<1>2. Token(r) = "taken"
  BY TokenCases
<1>3. \A d \in Callers : claimed'[d] # r
  BY <1>1 DEF IInv, TypeOK, OneOwner
<1>4. Token(r)' = next
  <2>1. performed'[r] \in Nat
    BY DEF IInv, TypeOK
  <2>2. CASE next = "performed"
    BY <1>1, <2>2 DEF Token
  <2>3. CASE next = "lapsed"
    <3>1. performed'[r] = 0
      BY <2>1, <2>3
    <3>2. ~(r > issued')
      BY <1>1 DEF IInv, TypeOK
    <3>3. QED
      BY <1>1, <1>3, <2>3, <3>1, <3>2 DEF Token
  <2>4. QED
    BY <2>2, <2>3
<1>5. ASSUME NEW q \in Requests, q # r
      PROVE  Token(q)' = Token(q)
  <2>1. q # 0
    BY GateAssumption DEF Requests
  <2>2. (\E d \in Callers : claimed'[d] = q) <=> \E d \in Callers : claimed[d] = q
    BY <1>5, <2>1 DEF IInv, TypeOK
  <2>3. QED
    BY <1>5, <2>2 DEF Token
<1>6. QED
  BY <1>2, <1>4, <1>5 DEF Tokens!Use

LEMMA RequestIssues ==
  ASSUME IInv, IInv', NEW c \in Callers, NEW n \in Names, Request(c, n),
         NEW r \in Requests, r = issued + 1
  PROVE  Tokens!Issue(r, n)
<1>1. /\ issued' = r /\ pending' = r
      /\ issued \in Nat /\ pending \in 0..issued
      /\ action' = [action EXCEPT ![r] = n]
      /\ UNCHANGED <<claimed, performed>>
  BY GateAssumption DEF Request, IInv, TypeOK, Requests
<1>2. Token(r) = "new"
  BY <1>1, TokenCases
<1>3. Token(r)' = "open"
  <2>1. performed'[r] = 0
    BY <1>1 DEF IInv, OneOwner
  <2>2. r <= issued' /\ ~(r > issued') /\ ~(performed'[r] > 0)
    BY <1>1, <2>1
  <2>3. QED
    BY <1>1, <2>1, <2>2 DEF Token
<1>4. ASSUME NEW q \in Requests, q # r
      PROVE  Token(q)' = IF Token(q) = "open" THEN "lapsed" ELSE Token(q)
  <2>1. CASE pending = q
    <3>1. \A d \in Callers : claimed[d] # q
      BY <2>1 DEF IInv, OneOwner, Requests
    <3>2. q <= issued' /\ performed[q] = 0
      BY <1>1, <2>1 DEF IInv, OneOwner, Requests
    <3>3. ~(q > issued') /\ performed'[q] = 0 /\ pending' # q
          /\ \A d \in Callers : claimed'[d] # q
      BY <1>1, <1>4, <3>1, <3>2 DEF Requests
    <3>4. Token(q)' = "lapsed"
      BY <3>2, <3>3 DEF Token
    <3>5. QED
      BY <2>1, <3>4, TokenCases
  <2>2. CASE pending # q
    <3>1. Token(q) # "open"
      BY <2>2, TokenCases
    <3>2. (q > issued' <=> q > issued) /\ (q <= issued' <=> q <= issued)
      BY <1>1, <1>4 DEF Requests
    <3>3. Token(q)' = Token(q)
      BY <1>1, <1>4, <2>2, <3>2 DEF Token
    <3>4. QED
      BY <3>1, <3>3
  <2>3. QED
    BY <2>1, <2>2
<1>5. [q \in Requests |-> Token(q)]' =
        [q \in Requests |->
            CASE q = r -> "open"
              [] q # r /\ Token(q) = "open" -> "lapsed"
              [] OTHER -> Token(q)]
  <2>1. ASSUME NEW q \in Requests
        PROVE  Token(q)' = CASE q = r -> "open"
                             [] q # r /\ Token(q) = "open" -> "lapsed"
                             [] OTHER -> Token(q)
    <3>1. CASE q = r
      BY <1>3, <3>1
    <3>2. CASE q # r
      BY <1>4, <3>2
    <3>3. QED
      BY <3>1, <3>2
  <2>2. QED
    BY <2>1
<1>6. QED
  BY <1>1, <1>2, <1>5 DEF Tokens!Issue

LEMMA ClaimTakes ==
  ASSUME IInv, IInv', NEW c \in Callers, NEW n \in Names, Claim(c, n), pending # 0
  PROVE  Tokens!Take(pending, "taken")
<1>1. /\ pending \in Requests /\ pending <= issued
      /\ claimed' = [claimed EXCEPT ![c] = pending] /\ pending' = 0
      /\ claimed[c] = 0
      /\ UNCHANGED <<issued, action, performed>>
  BY GateAssumption DEF Claim, IInv, TypeOK, Requests, OneOwner
<1>2. Token(pending) = "open"
  BY <1>1, TokenCases
<1>3. \A q \in Requests : q = pending => Token(q)' = "taken"
  <2>1. claimed'[c] = pending
    BY <1>1 DEF IInv, TypeOK
  <2>2. ~(pending > issued') /\ performed'[pending] = 0 /\ pending' # pending
    BY <1>1 DEF IInv, TypeOK, OneOwner, Requests
  <2>3. QED
    BY <1>1, <2>1, <2>2 DEF Token
<1>4. ASSUME NEW q \in Requests, q # pending
      PROVE  Token(q)' = Token(q)
  <2>1. q # 0
    BY DEF Requests
  <2>2. (\E d \in Callers : claimed'[d] = q) <=> \E d \in Callers : claimed[d] = q
    BY <1>1, <1>4, <2>1 DEF IInv, TypeOK
  <2>3. QED
    BY <1>1, <1>4, <2>1, <2>2 DEF Token
<1>5. QED
  BY <1>1, <1>2, <1>3, <1>4 DEF Tokens!Take

(* The gate implements Confirmations: what happens to the slot and to the  *)
(* calls is, for each request, the life of a token.                        *)
THEOREM GateIsTokens == Spec => TokenSpec
<1>1. Init => Tokens!Init
  <2> SUFFICES ASSUME Init
               PROVE  Tokens!Init
    OBVIOUS
  <2>1. \A r \in Requests : Token(r) = "new"
    BY DEF Init, Token, Requests
  <2>2. QED
    BY <2>1 DEF Init, Tokens!Init
<1>2. ASSUME IInv, IInv', [Next]_vars
      PROVE  [Tokens!Next]_<<[r \in Requests |-> Token(r)], action>>
  <2>1. ASSUME NEW c \in Callers, NEW n \in Names, Request(c, n)
        PROVE  Tokens!Next
    <3>1. PICK r \in Requests : r = issued + 1
      <4>1. issued \in Nat /\ issued < MaxRequests
        BY <1>2, <2>1, GateAssumption DEF Request, IInv, TypeOK
      <4>2. issued + 1 \in Requests
        BY <4>1, GateAssumption DEF Requests
      <4>3. QED
        BY <4>2
    <3>2. Tokens!Issue(r, n) /\ n \in Ballistic
      BY <1>2, <2>1, <3>1, RequestIssues DEF Request
    <3>3. QED
      BY <3>2 DEF Tokens!Next
  <2>2. ASSUME NEW c \in Callers, NEW n \in Names, Claim(c, n), pending # 0
        PROVE  Tokens!Next
    <3>1. pending \in Requests
      BY <1>2, <2>2, GateAssumption DEF IInv, TypeOK, Requests
    <3>2. QED
      BY <1>2, <2>2, <3>1, ClaimTakes DEF Tokens!Next
  <2>3. ASSUME NEW c \in Callers, Perform(c)
        PROVE  Tokens!Next
    <3>1. PICK r \in Requests : claimed[c] = r
      BY <1>2, <2>3, GateAssumption DEF Perform, Checked, IInv, TypeOK, Requests
    <3>2. /\ \A q \in Requests : q # r => performed'[q] = performed[q]
          /\ performed'[r] > 0
      BY <1>2, <2>3, <3>1 DEF Perform, IInv, TypeOK
    <3>3. Tokens!Use(r, "performed")
      BY <1>2, <2>3, <3>1, <3>2, Release DEF Perform, Finish, slotVars
    <3>4. QED
      BY <3>3 DEF Tokens!Next
  <2>4. ASSUME NEW c \in Callers, Reject(c) \/ PerformFails(c), claimed[c] # 0
        PROVE  Tokens!Next
    <3>1. PICK r \in Requests : claimed[c] = r
      <4>1. claimed[c] \in 0..issued /\ issued \in 0..MaxRequests
        BY <1>2 DEF IInv, TypeOK
      <4>2. claimed[c] \in Requests
        BY <2>4, <4>1, GateAssumption DEF Requests
      <4>3. QED
        BY <4>2
    <3>2. performed' = performed /\ performed[r] = 0
      BY <1>2, <2>4, <3>1 DEF Reject, PerformFails, IInv, OneOwner
    <3>3. Tokens!Use(r, "lapsed")
      BY <1>2, <2>4, <3>1, <3>2, Release DEF Reject, PerformFails, Finish, slotVars
    <3>4. QED
      BY <3>3 DEF Tokens!Next
  <2>5. ASSUME NEW c \in Callers,
               \/ Reject(c) /\ claimed[c] = 0
               \/ PerformFails(c) /\ claimed[c] = 0
               \/ \E n \in Names : Claim(c, n) /\ pending = 0
        PROVE  UNCHANGED <<pending, issued, action, claimed, performed>>
    BY <1>2, <2>5
    DEF Reject, PerformFails, Claim, Finish, slotVars, IInv, TypeOK, OneOwner
  <2>6. CASE \/ Tick
             \/ \E c \in Callers : Accept(c)
             \/ \E c \in Callers, n \in Names : PerformAction(c, n)
             \/ UNCHANGED vars
    <3>1. UNCHANGED <<pending, issued, action, claimed, performed>>
      BY <2>6 DEF Tick, Accept, PerformAction, vars, slotVars
    <3>2. QED
      BY <3>1, TokensStutter
  <2>7. QED
    BY <1>2, <2>1, <2>2, <2>3, <2>4, <2>5, <2>6, TokensStutter DEF Next
<1>3. QED
  BY <1>1, <1>2, GateInvariant, PTL DEF Spec, TokenSpec, Tokens!Spec

=============================================================================
