------------------------------ MODULE Capture ------------------------------
(***************************************************************************)
(* What the client that is controlled captures: the WASAPI thread that     *)
(* writes samples into the AudioBuffer, the GDI thread that keeps the last *)
(* picture of the screen, the two encoder threads of CRtmpPushManager that *)
(* take from them, and how its bInit and Close start and stop all four.    *)
(*                                                                         *)
(* A byte is a sample's number and its place in the sample; a picture is   *)
(* its number.  Each call of the buffer and each change of the picture     *)
(* holds a mutex and is one step.  Encoding and pushing are Publish's.     *)
(***************************************************************************)
EXTENDS Naturals, Sequences, SequencesExt

CONSTANTS
  BufferSize,     \* of the AudioBuffer, in bytes
  BlockAlign,     \* bytes of a sample, of all its channels
  FrameSamples,   \* samples that the AAC encoder takes at once
  MaxSamples,     \* samples that the device captures (a bound for TLC)
  MaxPictures     \* pictures that are taken (a bound for TLC)

ASSUME BufferAssumption == BlockAlign \in Nat \ {0} /\ BufferSize \in Nat
ASSUME SampleCounts == FrameSamples \in Nat /\ MaxSamples \in Nat

VARIABLES
  manager,    \* where bOpen or Close of the manager is
  exit,       \* m_bExit, or no longer m_bIsConnect
  enabled,    \* m_bIsEnabeld of the WASAPI client
  wasapi,     \* its thread: none, top, write or done
  buffer,     \* the AudioBuffer from its reader to its writer index
  halted,     \* m_bStop of the screen's capture
  screen,     \* its thread: none, top, grab or done
  picture,    \* the last picture, 0 for none
  audio, video,   \* the encoder threads: none, top, read and done
  grabber, recorder,   \* the contexts of the screen, and the audio buffer: none, open or freed
  captured, lost, taken, shots   \* history: samples captured, those lost, bytes read, pictures taken

captureVars ==
  <<manager, exit, enabled, wasapi, buffer, halted, screen, picture, audio, video, grabber, recorder,
    captured, lost, taken, shots>>

heard == <<captured, lost, taken>>

CaptureInit ==
  /\ manager = "new"
  /\ exit = FALSE /\ enabled = FALSE /\ halted = FALSE
  /\ wasapi = "none" /\ screen = "none" /\ audio = "none" /\ video = "none"
  /\ buffer = <<>>
  /\ picture = 0
  /\ grabber = "none" /\ recorder = "none"
  /\ captured = 0 /\ lost = {} /\ taken = <<>> /\ shots = 0

-----------------------------------------------------------------------------
(* AudioBuffer *)

Bytes(first, n) == [i \in 1 .. n * BlockAlign |-> <<first + (i - 1) \div BlockAlign, (i - 1) % BlockAlign>>]

\* write: what does not fit is cut off.
Fits(bytes) == SubSeq(bytes, 1, Min({Len(bytes), BufferSize - Len(buffer)}))

\* retrieve: what is left moves to the front.
Retrieve(n) == SubSeq(buffer, n + 1, Len(buffer))

\* read: all that is asked for, or nothing.
ReadBuffer(n) ==
  IF n > Len(buffer) THEN UNCHANGED <<buffer, taken>>
  ELSE taken' = taken \o SubSeq(buffer, 1, n) /\ buffer' = Retrieve(n)

\* A full buffer ends with a sample, which nothing in the code sees to: 20480 bytes hold whole samples of 1, 2,
\* 4 or 8 channels of 16 bits, but not of 6.
WholeSamples == BufferSize % BlockAlign = 0

\* nGetSamples.
Samples == Len(buffer) \div BlockAlign

-----------------------------------------------------------------------------
(* The threads that capture *)

\* The loop of nStart; nCapture finds a packet, none, or fails and ends the thread.
WasapiLoop ==
  /\ wasapi = "top"
  /\ \/ wasapi' = "done"
     \/ enabled /\ captured < MaxSamples /\ wasapi' = "write"
  /\ UNCHANGED <<manager, exit, enabled, buffer, halted, screen, picture, audio, video, grabber, recorder, heard, shots>>

\* One round of nCapture: the callback writes n samples, and the next packet is asked for.
WasapiWrite(n) ==
  LET kept == Fits(Bytes(captured + 1, n))
  IN  /\ wasapi = "write" /\ captured + n <= MaxSamples
      /\ buffer' = buffer \o kept
      /\ captured' = captured + n
      /\ lost' = lost \cup ((captured + 1 .. captured + n) \ {kept[i][1] : i \in DOMAIN kept})
      /\ wasapi' \in IF captured + n < MaxSamples THEN {"top", "write", "done"} ELSE {"top", "done"}
      /\ UNCHANGED <<manager, exit, enabled, halted, screen, picture, audio, video, grabber, recorder, taken, shots>>

WasapiWorks == (wasapi = "top" /\ ~enabled /\ WasapiLoop) \/ (\E n \in 1 .. MaxSamples : WasapiWrite(n))

\* run, which looks at m_bStop again in bGetOneFrame.
ScreenLoop ==
  /\ screen = "top"
  /\ screen' = IF halted THEN "done" ELSE "grab"
  /\ UNCHANGED <<manager, exit, enabled, wasapi, buffer, halted, picture, audio, video, grabber, recorder, heard, shots>>

\* bGetOneFrame and bDecode: a picture, unless reading or decoding fails.
ScreenGrab ==
  /\ screen = "grab"
  /\ screen' = "top"
  /\ picture' \in {picture} \cup {p \in {shots + 1} : p <= MaxPictures}
  /\ shots' = IF picture' = picture THEN shots ELSE picture'
  /\ UNCHANGED <<manager, exit, enabled, wasapi, buffer, halted, audio, video, grabber, recorder, heard>>

ScreenWorks == ScreenLoop \/ ScreenGrab

-----------------------------------------------------------------------------
(* The encoder threads *)

\* EncodeAudio waits for enough samples.
AudioLoop ==
  /\ audio = "top"
  /\ \/ exit /\ audio' = "done"
     \/ ~exit /\ Samples >= FrameSamples /\ audio' = "read"
  /\ UNCHANGED <<manager, exit, enabled, wasapi, buffer, halted, screen, picture, video, grabber, recorder, heard, shots>>

\* nRead: the samples are counted again; what the buffer's read answers is not looked at.
AudioRead ==
  /\ audio = "read"
  /\ audio' = "top"
  /\ IF FrameSamples > Samples THEN UNCHANGED <<buffer, taken>> ELSE ReadBuffer(FrameSamples * BlockAlign)
  /\ UNCHANGED <<manager, exit, enabled, wasapi, halted, screen, picture, video, grabber, recorder, captured, lost, shots>>

AudioWorks == AudioLoop \/ AudioRead

\* EncodeVideo.
VideoLoop ==
  /\ video = "top"
  /\ video' = IF exit THEN "done" ELSE "read"
  /\ UNCHANGED <<manager, exit, enabled, wasapi, buffer, halted, screen, picture, audio, grabber, recorder, heard, shots>>

\* bCaptureFrame copies the picture that there is, if any.
VideoRead ==
  /\ video = "read"
  /\ video' = "top"
  /\ UNCHANGED <<manager, exit, enabled, wasapi, buffer, halted, screen, picture, audio, grabber, recorder, heard, shots>>

VideoWorks == VideoLoop \/ VideoRead

-----------------------------------------------------------------------------
(* Starting and stopping *)

\* bInit of the screen's capture; it may fail with or without its contexts.
InitScreen(ok) ==
  /\ manager = "new"
  /\ grabber' \in IF ok THEN {"open"} ELSE {"none", "open"}
  /\ screen' = IF ok THEN "top" ELSE "none"
  /\ manager' = IF ok THEN "audio" ELSE "open"
  /\ UNCHANGED <<exit, enabled, wasapi, buffer, halted, picture, audio, video, recorder, heard, shots>>

\* bInit of the audio capture: nInit of the device, and the buffer.
InitAudio(ok) ==
  /\ manager = "audio"
  /\ recorder' = IF ok THEN "open" ELSE "none"
  /\ manager' = IF ok THEN "start" ELSE "open"
  /\ UNCHANGED <<exit, enabled, wasapi, buffer, halted, screen, picture, audio, video, grabber, heard, shots>>

\* nStartCapture: the buffer is cleared and the WASAPI thread started.
StartCapture(ok) ==
  /\ manager = "start"
  /\ buffer' = <<>>
  /\ enabled' = ok
  /\ wasapi' = IF ok THEN "top" ELSE "none"
  /\ manager' = IF ok THEN "threads" ELSE "open"
  /\ UNCHANGED <<exit, halted, screen, picture, audio, video, grabber, recorder, heard, shots>>

\* The end of bOpen, when the rest of bInit and nOpenUrl went well.
StartEncoders(ok) ==
  /\ manager = "threads"
  /\ manager' = "open"
  /\ audio' = (IF ok THEN "top" ELSE "none") /\ video' = audio'
  /\ UNCHANGED <<exit, enabled, wasapi, buffer, halted, screen, picture, grabber, recorder, heard, shots>>

\* Close: m_bExit, and m_bIsConnect is cleared.
CloseCapture ==
  /\ manager = "open"
  /\ manager' = "encoders" /\ exit' = TRUE
  /\ UNCHANGED <<enabled, wasapi, buffer, halted, screen, picture, audio, video, grabber, recorder, heard, shots>>

\* StopEncoder joins the threads that it has.
JoinEncoders ==
  /\ manager = "encoders" /\ {audio, video} \subseteq {"none", "done"}
  /\ manager' = "recorder" /\ enabled' = FALSE
  /\ UNCHANGED <<exit, wasapi, buffer, halted, screen, picture, audio, video, grabber, recorder, heard, shots>>

\* nStop has joined the WASAPI thread; the buffer goes, and the screen's capture is told to stop.
JoinWasapi ==
  /\ manager = "recorder" /\ wasapi \in {"none", "done"}
  /\ manager' = "screen" /\ halted' = TRUE
  /\ recorder' = IF recorder = "none" THEN "none" ELSE "freed"
  /\ UNCHANGED <<exit, enabled, wasapi, buffer, screen, picture, audio, video, grabber, heard, shots>>

\* StopCapture has joined the GDI thread and clears the picture.
JoinScreen ==
  /\ manager = "screen" /\ screen \in {"none", "done"}
  /\ manager' = "contexts" /\ picture' = 0
  /\ UNCHANGED <<exit, enabled, wasapi, buffer, halted, screen, audio, video, grabber, recorder, heard, shots>>

\* The rest of bClose frees the contexts.
CloseScreen ==
  /\ manager = "contexts"
  /\ manager' = "closed"
  /\ grabber' = IF grabber = "none" THEN "none" ELSE "freed"
  /\ UNCHANGED <<exit, enabled, wasapi, buffer, halted, screen, picture, audio, video, recorder, heard, shots>>

ManagerWorks == JoinEncoders \/ JoinWasapi \/ JoinScreen \/ CloseScreen

CaptureNext ==
  \/ \E ok \in BOOLEAN : InitScreen(ok) \/ InitAudio(ok) \/ StartCapture(ok) \/ StartEncoders(ok)
  \/ CloseCapture \/ ManagerWorks
  \/ WasapiLoop \/ (\E n \in 1 .. MaxSamples : WasapiWrite(n))
  \/ ScreenWorks \/ AudioWorks \/ VideoWorks

\* All five threads go on; a device need not capture.
CaptureFairness ==
  /\ WF_captureVars(ManagerWorks) /\ WF_captureVars(WasapiWorks) /\ WF_captureVars(ScreenWorks)
  /\ WF_captureVars(AudioWorks) /\ WF_captureVars(VideoWorks)

-----------------------------------------------------------------------------
(* Properties *)

\* The encoder gets the bytes of samples in the order in which they were captured, none twice and none missing but
\* those that did not fit: after a byte comes the next one of its sample, or the first one of a later sample.  A
\* sample begins where the encoder takes one to begin, unless a full buffer has cut one.
SamplesInOrder ==
  LET all == taken \o buffer
  IN  /\ \A i \in 1 .. Len(all) - 1 :
           all[i + 1] = <<all[i][1], all[i][2] + 1>> \/ (all[i + 1][1] > all[i][1] /\ all[i + 1][2] = 0)
      /\ {all[i][1] : i \in DOMAIN all} \cup lost = 1 .. captured
      /\ WholeSamples => \A i \in DOMAIN all : all[i][2] = (i - 1) % BlockAlign

\* No thread captures into, or takes from, what has been freed.
CaptureIsAlive ==
  /\ wasapi \in {"top", "write"} \/ audio \in {"top", "read"} => recorder = "open"
  /\ screen \in {"top", "grab"} \/ video \in {"top", "read"} => grabber = "open"

\* Close returns.
CaptureCloses == manager = "encoders" ~> manager = "closed"
=============================================================================
