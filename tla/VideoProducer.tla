---------------------------- MODULE VideoProducer ----------------------------
(***************************************************************************)
(* kvs_producer_node.py: the executor keeps the newest camera image, one   *)
(* thread samples it at the frame rate of the video, another takes what    *)
(* was sampled, encodes it and uploads it segment by segment.              *)
(*                                                                         *)
(* An image is its number.  The lock is taken for what a step does.        *)
(***************************************************************************)
EXTENDS Integers, Sequences, SequencesExt

CONSTANTS MaxImages, MaxSamples   \* bounds on the images and on the samples

ASSUME VideoAssumption == MaxImages \in Nat /\ MaxSamples \in Nat

VARIABLES
    latest,   \* _latest_frame, 0 for None
    images,   \* the images published so far
    frames,   \* _frames
    upload,   \* the upload thread: "starts", "gone", "waits", "copied", "encodes", "sends"
    batch,    \* its local batch
    samples,  \* everything sampled so far
    past      \* how much of it belongs to segments that are over

videoVars == <<latest, images, frames, upload, batch, samples, past>>

VideoInit ==
    /\ latest = 0 /\ images = 0
    /\ frames = << >> /\ batch = << >>
    /\ upload = "starts"
    /\ samples = << >> /\ past = 0

(* _on_image; the subscription may have dropped images before this one. *)
OnImage ==
    /\ images < MaxImages
    /\ images' \in images + 1..MaxImages
    /\ latest' = images'
    /\ UNCHANGED <<frames, upload, batch, samples, past>>

(* _sample_loop: nothing is sampled before the first image. *)
Sample ==
    /\ latest # 0
    /\ Len(samples) < MaxSamples
    /\ frames' = Append(frames, latest)
    /\ samples' = Append(samples, latest)
    /\ UNCHANGED <<latest, images, upload, batch, past>>

(* _get_endpoint.  When it fails the thread returns, once and for all. *)
Endpoint ==
    /\ upload = "starts"
    /\ upload' \in {"waits", "gone"}
    /\ UNCHANGED <<latest, images, frames, batch, samples, past>>

(* Mutant: the frames are copied and cleared under two locks. *)
TakeInTwoSteps ==
    \/ /\ upload = "waits"
       /\ batch' = frames
       /\ upload' = "copied"
       /\ UNCHANGED <<latest, images, frames, samples, past>>
    \/ /\ upload = "copied"
       /\ frames' = << >>
       /\ upload' = IF batch = << >> THEN "waits" ELSE "encodes"
       /\ UNCHANGED <<latest, images, batch, samples, past>>

(* The segment's time is over: its frames are copied and cleared at once. *)
TakeBatch ==
    /\ upload = "waits"
    /\ batch' = frames
    /\ frames' = << >>
    /\ upload' = IF frames = << >> THEN "waits" ELSE "encodes"
    /\ UNCHANGED <<latest, images, samples, past>>

(* Uploaded, or lost to an exception or an empty file: the thread goes on. *)
SegmentEnds ==
    /\ upload' = "waits"
    /\ past' = past + Len(batch)
    /\ batch' = << >>
    /\ UNCHANGED <<latest, images, frames, samples>>

EncodeFrames ==
    /\ upload = "encodes"
    /\ \/ /\ upload' = "sends"
          /\ UNCHANGED <<latest, images, frames, batch, samples, past>>
       \/ SegmentEnds

UploadMkv ==
    /\ upload = "sends"
    /\ SegmentEnds

VideoNext ==
    OnImage \/ Sample \/ Endpoint \/ TakeBatch \/ EncodeFrames \/ UploadMkv

(* "continuous, gap-free video" (_on_image): what was sampled is in the     *)
(* segments that are over, in the one being uploaded and in the next one,  *)
(* in this order, nothing twice and nothing dropped between two segments,  *)
(* while the sampler goes on during the encoding and the upload.           *)
GapFree ==
    SubSeq(samples, past + 1, Len(samples)) = batch \o frames
=============================================================================
