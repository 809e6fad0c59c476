------------------------------- MODULE Media -------------------------------
(* The media of a client: one that is controlled captures, one that controls plays. *)
EXTENDS Player, Capture

VARIABLE type   \* m_type

mediaVars == <<type, playerVars, captureVars>>

MediaInit == type \in {"CONTROLLED", "CONTROLLING"} /\ PlayerInit /\ CaptureInit

MediaNext ==
  /\ UNCHANGED type
  /\ \/ type = "CONTROLLING" /\ PlayerNext /\ UNCHANGED captureVars
     \/ type = "CONTROLLED" /\ CaptureNext /\ UNCHANGED playerVars

MediaSpec ==
  /\ MediaInit /\ [][MediaNext]_mediaVars
  /\ (type = "CONTROLLING" => PlayerFairness)
  /\ (type = "CONTROLLED" => CaptureFairness)

\* What was captured, or sent, first is heard or seen first.
MediaInOrder == PlaysInOrder /\ SamplesInOrder

\* No thread uses what another has freed.
NothingIsFreedInUse == PlayerIsAlive /\ CaptureIsAlive

\* Closing a player or a capture joins all its threads and returns.
MediaCloses == PlayerCloses /\ CaptureCloses
=============================================================================
