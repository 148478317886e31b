----------------------------- MODULE Microphone -----------------------------
(***************************************************************************)
(* The microphone switched with SPACE: ToggleMicInput and StdinKeyInput of *)
(* voice_agent/session.py, Microphone and Keyboard of                      *)
(* voice_agent/agentcore_client.py.                                        *)
(*                                                                         *)
(* Three parties: the terminal (SPACE), the audio thread, which hands      *)
(* chunks to the event loop, and the event loop, which runs what it was    *)
(* handed in that order.  The two programs differ in how a switch-on       *)
(* empties the queue of the previous utterance: session.py schedules it    *)
(* behind what the loop was handed before, agentcore_client.py (thin) does *)
(* it at once.                                                             *)
(***************************************************************************)
EXTENDS Integers, Sequences, FiniteSets, SequencesExt

CONSTANTS
    MicSize,    \* capacity of the queue of chunks
    MaxPresses, \* bound: times SPACE is pressed
    MaxChunks   \* bound: chunks captured

ASSUME MicrophoneAssumption ==
    /\ MicSize \in Nat \ {0}
    /\ MaxPresses \in Nat /\ MaxChunks \in Nat

VARIABLES
    streaming, \* _streaming
    toggling,  \* toggle is between switching on and scheduling the drain
    talk,      \* utterances begun
    ready,     \* what the event loop has been handed and not run yet
    held,      \* the chunk _on_audio found the switch on for
    mic,       \* the queue of chunks
    heard,     \* the last chunk the agent was given
    presses,   \* times SPACE was pressed
    captured   \* chunks captured

micVars == <<streaming, toggling, talk, ready, held, mic, heard, presses, captured>>

Chunk == [talk : Nat, n : Nat]
Silence == [talk |-> 0, n |-> 0]
Callback == [run : {"toggle", "drain", "put"}, chunk : Chunk]
Space == [run |-> "toggle", chunk |-> Silence]
Drain == [run |-> "drain", chunk |-> Silence]
NextIs(name) == ~toggling /\ ready # << >> /\ Head(ready).run = name

MicInit ==
    /\ streaming = FALSE /\ toggling = FALSE
    /\ talk = 0
    /\ ready = << >>
    /\ held = Silence
    /\ mic = << >>
    /\ heard = Silence
    /\ presses = 0
    /\ captured = 0

(* The terminal has a SPACE for the loop's reader, on an empty line. *)
Press ==
    /\ presses < MaxPresses
    /\ presses' = presses + 1
    /\ ready' = Append(ready, Space)
    /\ UNCHANGED <<streaming, toggling, talk, held, mic, heard, captured>>

(* _on_audio, on the audio thread: it looks at the switch, ... *)
Capture ==
    /\ held = Silence
    /\ captured < MaxChunks
    /\ streaming
    /\ captured' = captured + 1
    /\ held' = [talk |-> talk, n |-> captured']
    /\ UNCHANGED <<streaming, toggling, talk, ready, mic, heard, presses>>

(* ... and hands the chunk to the event loop. *)
HandOver ==
    /\ held # Silence
    /\ ready' = Append(ready, [run |-> "put", chunk |-> held])
    /\ held' = Silence
    /\ UNCHANGED <<streaming, toggling, talk, mic, heard, presses, captured>>

(* toggle, switching off: what is queued is still to be sent. *)
SwitchOff ==
    /\ streaming
    /\ streaming' = FALSE
    /\ UNCHANGED <<toggling, talk, mic>>

(* Mutant: session.py empties the queue at once, as the thin client does. *)
SwitchOnAtOnce ==
    /\ ~streaming
    /\ streaming' = TRUE /\ talk' = talk + 1
    /\ mic' = << >>
    /\ UNCHANGED toggling

(* toggle, switching on: from here the audio thread hands over chunks, ... *)
SwitchOn ==
    /\ ~streaming
    /\ streaming' = TRUE /\ talk' = talk + 1
    /\ toggling' = TRUE
    /\ UNCHANGED mic

(* toggle of the thin client, switching on: nothing is put between its two *)
(* statements, as that is the loop's own work.                             *)
SwitchOnThin ==
    /\ ~streaming
    /\ streaming' = TRUE /\ talk' = talk + 1
    /\ mic' = << >>
    /\ UNCHANGED toggling

(* _handle_byte on a SPACE. *)
Toggle(thin) ==
    /\ NextIs("toggle")
    /\ ready' = Tail(ready)
    /\ SwitchOff \/ (~thin /\ SwitchOn) \/ (thin /\ SwitchOnThin)
    /\ UNCHANGED <<held, heard, presses, captured>>

(* ... and here the emptying is scheduled, behind the chunks handed over    *)
(* before, those of the new utterance among them.                          *)
ScheduleDrain ==
    /\ toggling
    /\ toggling' = FALSE
    /\ ready' = Append(ready, Drain)
    /\ UNCHANGED <<streaming, talk, held, mic, heard, presses, captured>>

(* _drain_agent. *)
DrainAgent ==
    /\ NextIs("drain")
    /\ mic' = << >>
    /\ ready' = Tail(ready)
    /\ UNCHANGED <<streaming, toggling, talk, held, heard, presses, captured>>

(* Mutant: a full queue refuses the new chunk. *)
PutRefuses(chunk) == mic' = IF Len(mic) < MicSize THEN Append(mic, chunk) ELSE mic

(* A full queue drops its oldest chunk. *)
Put(chunk) ==
    mic' = Append(IF Len(mic) < MicSize THEN mic ELSE Tail(mic), chunk)

(* _safe_put_agent. *)
SafePutAgent ==
    /\ NextIs("put")
    /\ Put(Head(ready).chunk)
    /\ ready' = Tail(ready)
    /\ UNCHANGED <<streaming, toggling, talk, held, heard, presses, captured>>

(* __call__: the next chunk, or silence when none comes within 0.1 s. *)
Hear ==
    /\ ~toggling
    /\ IF mic = << >>
       THEN heard' = Silence /\ UNCHANGED mic
       ELSE heard' = Head(mic) /\ mic' = Tail(mic)
    /\ UNCHANGED <<streaming, toggling, talk, ready, held, presses, captured>>

Loop(thin) == Toggle(thin) \/ ScheduleDrain \/ DrainAgent \/ SafePutAgent
MicNext(thin) == Press \/ Capture \/ HandOver \/ Loop(thin) \/ Hear

MicTypeOK ==
    /\ streaming \in BOOLEAN /\ toggling \in BOOLEAN
    /\ talk \in Nat /\ presses \in Nat /\ captured \in Nat
    /\ ready \in Seq(Callback)
    /\ mic \in Seq(Chunk)
    /\ held \in Chunk
    /\ heard \in Chunk

-----------------------------------------------------------------------------
(* The chunks on their way to the agent. *)
OnTheWay == (ToSet(mic) \cup {ready[i].chunk : i \in 1..Len(ready)} \cup {held}) \ {Silence}

(* The queue has been emptied for the utterance. *)
Emptied == ~toggling /\ Drain \notin ToSet(ready)
=============================================================================
