------------------------------ MODULE Reconnect ------------------------------
(***************************************************************************)
(* How the driver gets and keeps its robots: the account token of          *)
(* Unitree's cloud, the attempts of Go2Connection.connect, the adapter's   *)
(* table of connections, and the control loop of each robot, which watches *)
(* the data channel and dials again, slowly when the cloud refused.        *)
(*                                                                         *)
(* Everything runs on one event loop, so a step below goes from one await  *)
(* to the next.  The login is in the constructor of the library's          *)
(* connection object and blocks the loop: it is part of the step that      *)
(* starts an attempt.  Which answers the cloud gives, and when a robot     *)
(* drops its channel, is up to the environment.                            *)
(***************************************************************************)
EXTENDS Integers, FiniteSets, FiniteSetsExt

CONSTANTS
    Robot,      \* 0..n-1, the order of robot_ip_list
    Attempts,   \* of one connect(): 5
    MaxTroubles,  \* bound on what goes wrong outside the driver
    Expiry      \* what the cloud answers to an expired token: "rejected"
                \* (429, 5xx, no JSON), "refused" (anything else), or "never"
                \* when tokens do not expire

ASSUME ReconnectAssumption ==
    /\ IsFiniteSet(Robot) /\ Robot = 0..(Cardinality(Robot) - 1)
    /\ Attempts \in Nat \ {0} /\ MaxTroubles \in Nat
    /\ Expiry \in {"never", "rejected", "refused"}

VARIABLES
    token,    \* _TOKEN_CACHE for the account: "none", "good" or "expired"
    flag,     \* _cloud_blocked, one for the node
    turn,     \* whose first connect connect_robots is in; past the last: all done
    stage,    \* where the coroutine that looks after r waits
    attempt,  \* the attempt of the connect() under way
    chan,     \* data_channel of connections[r]: "none", "open" or "closed"
    peer,     \* peer connections to r that nobody has closed
    left,     \* those among them whose disconnect raised: the reference is gone
    backoff,  \* the loop's own variable, in seconds
    asleep,   \* how long the sleep is that the loop is in
    own,      \* why the last reconnect of r failed
    treated,  \* what the loop took it for
    blocked,  \* the cloud is refusing the account
    logins,   \* password logins that gave a token
    dropped,  \* tokens invalidated
    troubles,
    up        \* main_async: "running", "cleaning", "gone"

watchVars == <<backoff, asleep, own, treated>>
cloudVars == <<token, logins, dropped>>
peerVars == <<peer, left>>
linkingVars == <<cloudVars, flag, turn, stage, attempt, chan, peerVars, watchVars, blocked,
                 troubles, up>>

Stages == {"idle", "closing", "dialling", "retrying", "asleep", "cancelled"}
Whys == {"none", "cloud", "other"}

Started == turn \notin Robot

ReconnectInit ==
    /\ token = "none" /\ flag = FALSE
    /\ turn = 0
    /\ stage = [r \in Robot |-> "idle"]
    /\ attempt = [r \in Robot |-> 0]
    /\ chan = [r \in Robot |-> "none"]
    /\ peer = [r \in Robot |-> 0] /\ left = [r \in Robot |-> 0]
    /\ backoff = [r \in Robot |-> 1]
    /\ asleep = [r \in Robot |-> 0]
    /\ own = [r \in Robot |-> "none"]
    /\ treated = [r \in Robot |-> "none"]
    /\ blocked = FALSE
    /\ logins = 0 /\ dropped = 0
    /\ troubles = 0
    /\ up = "running"

-----------------------------------------------------------------------------
(* A failed reconnect, and what the loop makes of it before it yields.     *)

Slower(b) == Min({Max({b, 15}) * 2, 300})
Quicker(b) == Min({b * 2, 15})

(* Mutant: the token is kept. *)
InvalidateNot == UNCHANGED cloudVars

(* The token goes when the cloud refused. *)
Invalidate ==
    /\ token' = "none"
    /\ dropped' = dropped + (IF token = "none" THEN 0 ELSE 1)
    /\ UNCHANGED logins

(* Mutant: a refusal is retried like a dropped channel. *)
BackOffAlike(r, f) ==
    /\ asleep' = [asleep EXCEPT ![r] = backoff[r]]
    /\ backoff' = [backoff EXCEPT ![r] = Quicker(@)]
    /\ treated' = [treated EXCEPT ![r] = IF f THEN "cloud" ELSE "other"]

(* run_robot_control_loop on _reconnect_robot's False: _cloud_blocked, f    *)
(* here, decides, whoever set it.                                          *)
BackOff(r, f) ==
    /\ asleep' = [asleep EXCEPT ![r] = IF f THEN Slower(backoff[r]) ELSE backoff[r]]
    /\ backoff' = [backoff EXCEPT ![r] = IF f THEN Slower(@) ELSE Quicker(@)]
    /\ treated' = [treated EXCEPT ![r] = IF f THEN "cloud" ELSE "other"]

(* connect() raised.  connect_robots logs it and goes on to the next robot; *)
(* _reconnect_robot classifies it and the control loop sleeps.             *)
Failed(r, why) ==
    IF Started
    THEN /\ stage' = [stage EXCEPT ![r] = "asleep"]
         /\ own' = [own EXCEPT ![r] = why]
         /\ flag' = (flag \/ why = "cloud")
         /\ IF why = "cloud" THEN Invalidate ELSE UNCHANGED cloudVars
         /\ BackOff(r, flag \/ why = "cloud")
         /\ UNCHANGED turn
    ELSE /\ stage' = [stage EXCEPT ![r] = "idle"]
         /\ turn' = turn + 1
         /\ UNCHANGED <<flag, cloudVars, watchVars>>

-----------------------------------------------------------------------------
(* Go2Connection.connect.                                                  *)

(* Mutant: the token of a login is not kept. *)
LoginForOnce ==
    /\ ~blocked
    /\ logins' = logins + 1
    /\ UNCHANGED <<token, dropped>>

(* _build_connection logs in when the cache has no token. *)
Login ==
    /\ ~blocked
    /\ token' = IF token = "none" THEN "good" ELSE token
    /\ logins' = logins + (IF token = "none" THEN 1 ELSE 0)
    /\ UNCHANGED dropped

LoginRejected == blocked /\ token = "none"

(* An attempt up to its first await: a connection object with a token, and  *)
(* a peer on its way to the robot.  gone of the peers r had are closed.     *)
Attempt(r, n, gone) ==
    \/ /\ LoginRejected
       /\ Failed(r, "cloud")
       /\ peer' = [peer EXCEPT ![r] = @ - gone]
       /\ attempt' = [attempt EXCEPT ![r] = n]
    \/ /\ ~LoginRejected
       /\ IF token = "none" THEN Login ELSE UNCHANGED cloudVars
       /\ peer' = [peer EXCEPT ![r] = @ - gone + 1]
       /\ attempt' = [attempt EXCEPT ![r] = n]
       /\ stage' = [stage EXCEPT ![r] = "dialling"]
       /\ UNCHANGED <<flag, turn, watchVars>>

(* connect_robots comes to the next robot. *)
FirstConnect(r) ==
    /\ turn = r /\ stage[r] = "idle"
    /\ Attempt(r, 1, 0)
    /\ UNCHANGED <<chan, left, blocked, troubles, up>>

(* The library's connect returns: callbacks, topics and traffic saving     *)
(* follow without a step of anybody else.                                  *)
Opens(r) ==
    /\ stage[r] = "dialling" /\ ~blocked /\ token # "expired"
    /\ chan' = [chan EXCEPT ![r] = "open"]
    /\ stage' = [stage EXCEPT ![r] = "idle"]
    /\ IF Started
       THEN /\ backoff' = [backoff EXCEPT ![r] = 1]
            /\ own' = [own EXCEPT ![r] = "none"]
            /\ treated' = [treated EXCEPT ![r] = "none"]
            /\ UNCHANGED <<turn, asleep>>
       ELSE turn' = turn + 1 /\ UNCHANGED watchVars
    /\ UNCHANGED <<cloudVars, flag, attempt, peerVars, blocked, troubles, up>>

(* The cloud answers the dial with a refusal, or with the page that is no  *)
(* JSON: handed straight to the caller, the connection object left behind. *)
Rejected(r) ==
    /\ stage[r] = "dialling"
    /\ blocked \/ (token = "expired" /\ Expiry = "rejected")
    /\ Failed(r, "cloud")
    /\ UNCHANGED <<attempt, chan, peerVars, blocked, troubles, up>>

(* Any other exception that connect() does not retry. *)
Raises(r) ==
    /\ stage[r] = "dialling" /\ ~blocked
    /\ \/ token = "expired" /\ Expiry = "refused" /\ UNCHANGED troubles
       \/ troubles < MaxTroubles /\ troubles' = troubles + 1
    /\ Failed(r, "other")
    /\ UNCHANGED <<attempt, chan, peerVars, blocked, up>>

(* Mutant: a failed attempt leaves its peer connection. *)
LeavesPeer(r) == UNCHANGED peerVars

(* The failed attempt's connection is disconnected.  Whether or not that   *)
(* raises, the driver forgets the connection; if it does, the peer may     *)
(* still be there.                                                         *)
ClosesPeer(r) ==
    \/ peer' = [peer EXCEPT ![r] = @ - 1] /\ UNCHANGED left
    \/ left' = [left EXCEPT ![r] = @ + 1] /\ UNCHANGED peer

(* No answer, a busy robot, a data channel that does not open in time: the *)
(* peer is closed and the attempt repeated, or connect() gives up.         *)
Retryable(r) ==
    /\ stage[r] = "dialling"
    /\ ClosesPeer(r)
    /\ troubles' = troubles + 1 + (left'[r] - left[r]) /\ troubles' <= MaxTroubles
    /\ IF attempt[r] < Attempts
       THEN /\ stage' = [stage EXCEPT ![r] = "retrying"]
            /\ asleep' = [asleep EXCEPT ![r] = Min({15, 5 * attempt[r]})]
            /\ UNCHANGED <<flag, turn, cloudVars, backoff, own, treated>>
       ELSE Failed(r, "other")
    /\ UNCHANGED <<attempt, chan, blocked, up>>

NextAttempt(r) ==
    /\ stage[r] = "retrying"
    /\ Attempt(r, attempt[r] + 1, 0)
    /\ UNCHANGED <<chan, left, blocked, troubles, up>>

-----------------------------------------------------------------------------
(* run_robot_control_loop.                                                 *)

Wakes(r) ==
    /\ stage[r] = "asleep"
    /\ stage' = [stage EXCEPT ![r] = "idle"]
    /\ asleep' = [asleep EXCEPT ![r] = 0]
    /\ UNCHANGED <<cloudVars, flag, turn, attempt, chan, peerVars, backoff, own, treated,
                   blocked, troubles, up>>

(* The loop finds no open channel: _reconnect_robot resets the flag and    *)
(* awaits the disconnect of what there is.                                 *)
Notices(r) ==
    /\ Started /\ stage[r] = "idle" /\ chan[r] # "open"
    /\ flag' = FALSE
    /\ stage' = [stage EXCEPT ![r] = "closing"]
    /\ UNCHANGED <<cloudVars, turn, attempt, chan, peerVars, watchVars, blocked, troubles, up>>

(* What disconnect finds of r to close: the one peer it has a reference to. *)
Referred(r) == Min({1, peer[r] - left[r]})

(* The entry is gone, with its peer unless closing that raised; a new      *)
(* entry, attempt 1.                                                       *)
Redials(r) ==
    /\ stage[r] = "closing"
    /\ chan' = [chan EXCEPT ![r] = "none"]
    /\ \E gone \in 0..Referred(r) :
          /\ Attempt(r, 1, gone)
          /\ left' = [left EXCEPT ![r] = @ + (Referred(r) - gone)]
          /\ troubles' = troubles + (Referred(r) - gone) /\ troubles' <= MaxTroubles
    /\ UNCHANGED <<blocked, up>>

-----------------------------------------------------------------------------
(* main_async: one of its two tasks ends, the other is cancelled, and the  *)
(* robots are disconnected.  The loop over adapter.connections deletes     *)
(* from the dict it goes through, which ends it after the first robot.     *)

Exit ==
    /\ up = "running"
    /\ up' = "cleaning"
    /\ stage' = [r \in Robot |-> "cancelled"]
    /\ UNCHANGED <<cloudVars, flag, turn, attempt, chan, peerVars, watchVars, blocked, troubles>>

CleansUp ==
    /\ up = "cleaning"
    /\ up' = "gone"
    /\ \E r \in Robot, gone \in {0, 1} :
          /\ gone <= Referred(r)
          /\ peer' = [peer EXCEPT ![r] = @ - gone]
          /\ left' = [left EXCEPT ![r] = @ + (Referred(r) - gone)]
          /\ chan' = [chan EXCEPT ![r] = "none"]
    /\ UNCHANGED <<cloudVars, flag, turn, stage, attempt, watchVars, blocked, troubles>>

-----------------------------------------------------------------------------
(* The robots and the cloud.                                               *)

Trouble == up = "running" /\ troubles < MaxTroubles /\ troubles' = troubles + 1

Drops(r) ==
    /\ Trouble /\ chan[r] = "open"
    /\ chan' = [chan EXCEPT ![r] = "closed"]
    /\ UNCHANGED <<cloudVars, flag, turn, stage, attempt, peerVars, watchVars, blocked, up>>

CloudBlocks ==
    /\ Trouble /\ ~blocked
    /\ blocked' = TRUE
    /\ UNCHANGED <<cloudVars, flag, turn, stage, attempt, chan, peerVars, watchVars, up>>

CloudRelents ==
    /\ blocked
    /\ blocked' = FALSE
    /\ UNCHANGED <<cloudVars, flag, turn, stage, attempt, chan, peerVars, watchVars, troubles, up>>

Expires ==
    /\ Trouble /\ Expiry # "never" /\ token = "good"
    /\ token' = "expired"
    /\ UNCHANGED <<logins, dropped, flag, turn, stage, attempt, chan, peerVars, watchVars,
                   blocked, up>>

Ends(r) == Opens(r) \/ Rejected(r) \/ Raises(r) \/ Retryable(r)
Watching(r) == Wakes(r) \/ Notices(r) \/ Redials(r) \/ NextAttempt(r) \/ FirstConnect(r)

ReconnectNext ==
    \/ \E r \in Robot : Watching(r) \/ Ends(r) \/ Drops(r)
    \/ CloudBlocks \/ CloudRelents \/ Expires
    \/ Exit \/ CleansUp

ReconnectSpec == ReconnectInit /\ [][ReconnectNext]_linkingVars

(* The event loop runs what is ready, a dial ends one way or another (the   *)
(* library has its own timeouts), and a block ages out.                    *)
ReconnectFairness ==
    /\ \A r \in Robot : WF_linkingVars(Watching(r)) /\ WF_linkingVars(Ends(r))
    /\ WF_linkingVars(CloudRelents)

FairReconnectSpec == ReconnectSpec /\ ReconnectFairness

-----------------------------------------------------------------------------
ReconnectTypeOK ==
    /\ token \in {"none", "good", "expired"} /\ flag \in BOOLEAN
    /\ turn \in Nat
    /\ stage \in [Robot -> Stages]
    /\ attempt \in [Robot -> 0..Attempts]
    /\ chan \in [Robot -> {"none", "open", "closed"}]
    /\ peer \in [Robot -> Nat] /\ left \in [Robot -> Nat]
    /\ backoff \in [Robot -> 1..300] /\ asleep \in [Robot -> 0..300]
    /\ own \in [Robot -> Whys] /\ treated \in [Robot -> Whys]
    /\ blocked \in BOOLEAN
    /\ logins \in Nat /\ dropped \in Nat /\ troubles \in 0..MaxTroubles
    /\ up \in {"running", "cleaning", "gone"}

(* "The token is reusable, so fetch it once": however the reconnects of    *)
(* the robots interleave, there is one password login per token the cloud  *)
(* made the driver drop, and the first (go2_connection.py, _TOKEN_CACHE).  *)
OneLoginPerToken == logins <= 1 + dropped

(* A robot has room for one peer.  Whatever attempt failed how, the driver *)
(* dials it only when every earlier peer has been told to close: what is   *)
(* there besides the peer of this dial, or of the open channel, is only    *)
(* what was told to and raised (connect and disconnect of Go2Connection    *)
(* swallow that and drop the reference: nobody closes such a peer again).  *)
OnePeer ==
    \A r \in Robot :
        /\ peer[r] <= left[r] + 1
        /\ chan[r] = "open" \/ stage[r] = "dialling" => peer[r] = left[r] + 1
        /\ stage[r] = "retrying" => peer[r] = left[r]

(* A robot whose reconnect the cloud refused is left alone for at least    *)
(* half a minute before the cloud is asked again for it, though the flag   *)
(* that says so is shared and every other reconnect resets it.             *)
LeftAlone ==
    \A r \in Robot :
        stage[r] = "asleep" /\ own[r] = "cloud" => asleep[r] >= 30

(* What _reconnect_robot's docstring says of _cloud_blocked, for each      *)
(* robot: it is set "when the failure came from Unitree's cloud".          *)
OwnRejection ==
    \A r \in Robot : stage[r] = "asleep" => treated[r] = own[r]

(* Once nothing more goes wrong, every robot comes back, whatever state    *)
(* the token, the back-off and a cancelled handshake were left in.         *)
ComesBack == \A r \in Robot : <>[](chan[r] = "open" \/ up # "running")
=============================================================================
