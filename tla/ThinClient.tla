----------------------------- MODULE ThinClient -----------------------------
(***************************************************************************)
(* The terminal client of the hosted agent (voice_agent/                   *)
(* agentcore_client.py): the microphone of module Microphone, a speaker    *)
(* whose buffer an interruption empties, a keyboard, and one pump per      *)
(* direction and device.  The first pump to end ends the session.          *)
(*                                                                         *)
(* The server is the environment: it sends audio, in answers that an       *)
(* interruption ends, and it or the network closes the connection.  The    *)
(* speaker's buffer is filled and emptied by the event loop and played by  *)
(* the audio thread, which copies a chunk and then deletes it.             *)
(***************************************************************************)
EXTENDS Microphone

CONSTANTS
    Pumps,      \* the tasks of run()
    MaxAnswers, \* bound: answers the server gives
    MaxAudio    \* bound: chunks of audio it sends

ASSUME ThinClientAssumption ==
    /\ Pumps = {"server", "keyboard", "sound"}
    /\ MaxAnswers \in Nat /\ MaxAudio \in Nat

NoAudio == 0

VARIABLES
    run,         \* how far run() is
    sock,        \* the connection
    sentAudio,   \* chunks the server has sent
    answer,      \* the answer the server is giving
    downlink,    \* frames on their way from the server
    buf,         \* Speaker._buf, a chunk named by its answer
    copied,      \* the chunk the audio thread has copied and not deleted
    interrupted, \* answers the client was told are interrupted
    pump         \* which pumps run

thinVars == <<run, sock, sentAudio, answer, downlink, buf, copied, interrupted, pump>>
clientVars == <<thinVars, micVars>>

ThinInit ==
    /\ MicInit
    /\ run = "connecting" /\ sock = "none"
    /\ sentAudio = 0 /\ answer = 1 /\ downlink = << >>
    /\ buf = << >> /\ copied = NoAudio /\ interrupted = 0
    /\ pump = [p \in Pumps |-> FALSE]

(* The handshake is answered within OPEN_TIMEOUT; the pumps start. *)
Open ==
    /\ run = "connecting"
    /\ run' = "open" /\ sock' = "up"
    /\ pump' = [p \in Pumps |-> TRUE]
    /\ UNCHANGED <<sentAudio, answer, downlink, buf, copied, interrupted>>

(* It is refused, or not answered in time: SystemExit. *)
OpenFails ==
    /\ run = "connecting"
    /\ run' = "left"
    /\ UNCHANGED <<sock, sentAudio, answer, downlink, buf, copied, interrupted, pump>>

(* The server sends a chunk of its answer, or is interrupted in it. *)
ServerSpeaks ==
    /\ sock = "up" /\ sentAudio < MaxAudio
    /\ sentAudio' = sentAudio + 1
    /\ downlink' = Append(downlink, [kind |-> "audio", answer |-> answer])
    /\ UNCHANGED <<run, sock, answer, buf, copied, interrupted, pump>>

ServerInterrupted ==
    /\ sock = "up" /\ answer < MaxAnswers
    /\ answer' = answer + 1
    /\ downlink' = Append(downlink, [kind |-> "interruption", answer |-> answer])
    /\ UNCHANGED <<run, sock, sentAudio, buf, copied, interrupted, pump>>

ConnectionGoes ==
    /\ sock = "up"
    /\ sock' = "gone"
    /\ UNCHANGED <<run, sentAudio, answer, downlink, buf, copied, interrupted, pump>>

(* Mutant: only what is played next is dropped. *)
HandleDroppingOne(frame) ==
    IF frame.kind = "audio"
    THEN buf' = Append(buf, frame.answer) /\ UNCHANGED interrupted
    ELSE /\ buf' = IF buf = << >> THEN buf ELSE Tail(buf)
         /\ interrupted' = frame.answer

(* What _pump_server does with a frame: Speaker.play, Speaker.clear. *)
Handle(frame) ==
    IF frame.kind = "audio"
    THEN buf' = Append(buf, frame.answer) /\ UNCHANGED interrupted
    ELSE buf' = << >> /\ interrupted' = frame.answer

(* _pump_server: the next frame; it ends behind the last one. *)
PumpServer ==
    /\ run = "open" /\ pump["server"]
    /\ IF downlink # << >>
       THEN /\ Handle(Head(downlink))
            /\ downlink' = Tail(downlink)
            /\ UNCHANGED pump
       ELSE /\ sock = "gone"
            /\ pump' = [pump EXCEPT !["server"] = FALSE]
            /\ UNCHANGED <<downlink, buf, interrupted>>
    /\ UNCHANGED <<run, sock, sentAudio, answer, copied>>

(* _pump_keyboard, _pump_mic, _pump_silence: a send raises once the        *)
(* connection is gone.                                                     *)
PumpRaises(p) ==
    /\ run = "open" /\ sock = "gone" /\ pump[p]
    /\ p # "server"
    /\ pump' = [pump EXCEPT ![p] = FALSE]
    /\ UNCHANGED <<run, sock, sentAudio, answer, downlink, buf, copied, interrupted>>

(* _on_output on the audio thread: a copy of the first chunk, ... *)
CopyChunk ==
    /\ run = "open" /\ copied = NoAudio /\ buf # << >>
    /\ copied' = Head(buf)
    /\ UNCHANGED <<run, sock, sentAudio, answer, downlink, buf, interrupted, pump>>

(* ... then the deletion of what is then first. *)
DeleteChunk ==
    /\ copied # NoAudio
    /\ copied' = NoAudio
    /\ buf' = IF buf = << >> THEN buf ELSE Tail(buf)
    /\ UNCHANGED <<run, sock, sentAudio, answer, downlink, interrupted, pump>>

(* asyncio.wait: the first pump to end ends the session. *)
APumpEnds ==
    /\ run = "open" /\ \E p \in Pumps : ~pump[p]
    /\ run' = "closing"
    /\ UNCHANGED <<sock, sentAudio, answer, downlink, buf, copied, interrupted, pump>>

(* Ctrl-C. *)
Quit ==
    /\ run = "open"
    /\ run' = "closing"
    /\ UNCHANGED <<sock, sentAudio, answer, downlink, buf, copied, interrupted, pump>>

(* run's finally: cancel the pumps, restore the terminal, stop the devices,*)
(* send a close frame if it goes out, close the connection.                *)
CloseUp ==
    /\ run = "closing"
    /\ pump' = [p \in Pumps |-> FALSE]
    /\ sock' = "gone"
    /\ run' = "left"
    /\ UNCHANGED <<sentAudio, answer, downlink, buf, copied, interrupted>>

ThinStep ==
    \/ Open \/ OpenFails \/ ServerSpeaks \/ ServerInterrupted \/ ConnectionGoes
    \/ PumpServer \/ (\E p \in Pumps : PumpRaises(p))
    \/ CopyChunk \/ DeleteChunk \/ APumpEnds \/ Quit \/ CloseUp

ThinNext ==
    \/ ThinStep /\ UNCHANGED micVars
    \/ run = "open" /\ MicNext(TRUE) /\ UNCHANGED thinVars

ThinTypeOK ==
    /\ MicTypeOK
    /\ run \in {"connecting", "open", "closing", "left"}
    /\ sock \in {"none", "up", "gone"}
    /\ sentAudio \in Nat /\ answer \in 1..MaxAnswers
    /\ downlink \in Seq([kind : {"audio", "interruption"}, answer : Nat])
    /\ buf \in Seq(1..MaxAnswers) /\ copied \in 0..MaxAnswers
    /\ interrupted \in Nat
    /\ pump \in [Pumps -> BOOLEAN]

-----------------------------------------------------------------------------
(* When the user has interrupted an answer, nothing of it is left to be    *)
(* played but the chunk the audio thread already had (Speaker.clear).      *)
BargeIn == \A i \in 1..Len(buf) : buf[i] > interrupted

=============================================================================
