---------------------------- MODULE StudioPipeline ----------------------------
(***************************************************************************)
(* The pipeline of the Go virtual studio (cmd/virtual-studio, pkg/capture, *)
(* pkg/encoder, pkg/recorder, pkg/streamer): frames go from the capture    *)
(* device through an encoder to the components that share encodedFrames,   *)
(* and main shuts everything down.                                         *)
(*                                                                         *)
(* Goroutines communicate over channels of capacity Framerate and pipes to *)
(* ffmpeg processes.  A raw frame is counted, not named: what comes out of *)
(* the encoder are chunks, numbered in the order they are produced.        *)
(* Startup errors, which also make main cancel, are part of Cancel.        *)
(***************************************************************************)
EXTENDS Naturals, Sequences, FiniteSets

CONSTANTS
  Framerate,   \* capacity of the channels
  Consumers,   \* the components started: "server", "recorder", "streamer"
  MaxChunks,   \* bound: chunks the encoder makes of one frame
  PipeCap      \* bound: chunks in the encoder and its pipes

(* The server is PreviewServer; the others feed a process of their own. *)
Processes == {"capture", "encoder"} \cup (Consumers \ {"server"})

ASSUME PipelineAssumption ==
  /\ Framerate \in Nat \ {0} /\ MaxChunks \in Nat /\ PipeCap \in Nat
  /\ Consumers \subseteq {"server", "recorder", "streamer"}

VARIABLES
  main,          \* running, cancelled (asleep, then closing), exited, panicked
  closed,        \* how many of Channels main has closed
  hurried,       \* history: it woke before the goroutines had stopped
  up,            \* the ffmpeg processes that run
  capture,       \* StartCapture's goroutine
  frameTimings,  \* how many timestamps are in the channel
  rawFrames,     \* how many frames are in the channel
  writer,        \* EncodeFrames' goroutine that feeds the encoder
  encoded,       \* chunks the encoder has produced: the last one's number
  reader,        \* EncodeFrames' goroutine that reads the encoder
  read,          \* the chunk it read last
  encodedFrames, \* the channel of chunks
  dropped,       \* chunks counted by stats.FramesDropped
  consumer,      \* consumer[c]: the goroutine of component c
  taken          \* history: taken[c]: the chunks c received

vars == <<main, closed, hurried, up, capture, frameTimings, rawFrames, writer,
          encoded, reader, read, encodedFrames, dropped, consumer, taken>>

(* The channels, in the order in which main closes them. *)
Channels == <<"rawFrames", "encodedFrames", "frameTimings">>

TypeOK ==
  /\ main \in {"running", "cancelled", "exited", "panicked"}
  /\ closed \in 0 .. Len(Channels) /\ hurried \in BOOLEAN
  /\ up \in SUBSET Processes
  /\ capture \in {"reading", "stamping", "sending", "done"}
  /\ frameTimings \in 0 .. Framerate /\ rawFrames \in 0 .. Framerate
  /\ writer \in {"waiting", "writing", "done"}
  /\ reader \in {"reading", "sending", "done"}
  /\ encoded \in Nat /\ read \in 0 .. encoded
  /\ encodedFrames \in Seq(Nat) /\ Len(encodedFrames) <= Framerate
  /\ dropped \in SUBSET Nat
  /\ consumer \in [Consumers -> {"waiting", "writing", "finalizing", "done"}]
  /\ taken \in [Consumers -> Seq(Nat)]

Init ==
  /\ main = "running" /\ closed = 0 /\ hurried = FALSE
  /\ up = Processes
  /\ capture = "reading" /\ frameTimings = 0 /\ rawFrames = 0
  /\ writer = "waiting" /\ encoded = 0
  /\ reader = "reading" /\ read = 0
  /\ encodedFrames = <<>> /\ dropped = {}
  /\ consumer = [c \in Consumers |-> "waiting"]
  /\ taken = [c \in Consumers |-> <<>>]

captureVars  == <<capture, frameTimings>>
encoderVars  == <<writer, encoded, reader, read, dropped>>
consumerVars == <<consumer, taken>>

mainVars     == <<main, closed, hurried>>

Cancelled == main # "running"
Closed(channel) == \E k \in 1 .. closed : Channels[k] = channel

-----------------------------------------------------------------------------
(* StartCapture.                                                           *)

(* A frame is read from ffmpeg, or from what it left in the pipe. *)
ReadFrame ==
  /\ capture = "reading"
  /\ capture' = "stamping"
  /\ UNCHANGED <<mainVars, up, frameTimings, rawFrames, encoderVars, encodedFrames,
                 consumerVars>>

(* Its time is sent, and waits for room in the channel.  No component      *)
(* receives from frameTimings.                                             *)
Stamp ==
  /\ capture = "stamping"
  /\ frameTimings < Framerate /\ ~ Closed("frameTimings")
  /\ frameTimings' = frameTimings + 1
  /\ capture' = "sending"
  /\ UNCHANGED <<mainVars, up, rawFrames, encoderVars, encodedFrames, consumerVars>>

(* The frame is sent, or dropped when the channel is full.  The goroutine  *)
(* reads the next one, or returns and kills ffmpeg if the context is done. *)
SendFrame ==
  /\ capture = "sending" /\ ~ Closed("rawFrames")
  /\ rawFrames' = IF rawFrames < Framerate THEN rawFrames + 1 ELSE rawFrames
  /\ IF Cancelled THEN capture' = "done" /\ up' = up \ {"capture"}
                  ELSE capture' = "reading" /\ UNCHANGED up
  /\ UNCHANGED <<mainVars, frameTimings, encoderVars, encodedFrames, consumerVars>>

(* ReadFull fails. *)
ReadFrameFails ==
  /\ capture = "reading" /\ "capture" \notin up
  /\ capture' = "done"
  /\ UNCHANGED <<mainVars, up, frameTimings, rawFrames, encoderVars, encodedFrames,
                 consumerVars>>

-----------------------------------------------------------------------------
(* EncodeFrames.                                                           *)

TakeFrame ==
  /\ writer = "waiting" /\ rawFrames > 0
  /\ rawFrames' = rawFrames - 1
  /\ writer' = "writing"
  /\ UNCHANGED <<mainVars, up, captureVars, encoded, reader, read, dropped,
                 encodedFrames, consumerVars>>

(* stdin.Write gives a frame to the encoder, which makes chunks of it.     *)
WriteFrame ==
  /\ writer = "writing" /\ "encoder" \in up
  /\ \E n \in 0 .. MaxChunks :
       /\ encoded + n - read <= PipeCap
       /\ encoded' = encoded + n
  /\ writer' = "waiting"
  /\ UNCHANGED <<mainVars, up, captureVars, rawFrames, reader, read, dropped,
                 encodedFrames, consumerVars>>

(* The context is done, rawFrames may be closed too, or the write fails. *)
WriterReturns ==
  /\ \/ writer = "waiting" /\ Cancelled
     \/ writer = "writing" /\ "encoder" \notin up
  /\ writer' = "done"
  /\ UNCHANGED <<mainVars, up, captureVars, rawFrames, encoded, reader, read, dropped,
                 encodedFrames, consumerVars>>

ReadChunk ==
  /\ reader = "reading" /\ read < encoded
  /\ read' = read + 1
  /\ reader' = "sending"
  /\ UNCHANGED <<mainVars, up, captureVars, rawFrames, writer, encoded, dropped,
                 encodedFrames, consumerVars>>

(* The goroutine reads on, or returns and kills the encoder if the context *)
(* is done.                                                                *)
ReadOn ==
  IF Cancelled THEN reader' = "done" /\ up' = up \ {"encoder"}
               ELSE reader' = "reading" /\ UNCHANGED up

(* Mutants: a dropped chunk is not counted; no chunk is dropped.           *)
SendChunk_Uncounted ==
  /\ reader = "sending" /\ ~ Closed("encodedFrames")
  /\ encodedFrames' = IF Len(encodedFrames) < Framerate
                        THEN Append(encodedFrames, read) ELSE encodedFrames
  /\ ReadOn
  /\ UNCHANGED <<mainVars, captureVars, rawFrames, writer, encoded, read, dropped,
                 consumerVars>>

SendChunk_Always ==
  /\ reader = "sending" /\ ~ Closed("encodedFrames")
  /\ encodedFrames' = Append(encodedFrames, read)
  /\ ReadOn
  /\ UNCHANGED <<mainVars, captureVars, rawFrames, writer, encoded, read, dropped,
                 consumerVars>>

(* The chunk is sent, or dropped and counted when the channel is full. *)
SendChunk ==
  /\ reader = "sending" /\ ~ Closed("encodedFrames")
  /\ IF Len(encodedFrames) < Framerate
       THEN encodedFrames' = Append(encodedFrames, read) /\ UNCHANGED dropped
       ELSE dropped' = dropped \cup {read} /\ UNCHANGED encodedFrames
  /\ ReadOn
  /\ UNCHANGED <<mainVars, captureVars, rawFrames, writer, encoded, read, consumerVars>>

(* Read fails: the encoder is gone and its output has been read. *)
ReadChunkFails ==
  /\ reader = "reading" /\ "encoder" \notin up /\ read = encoded
  /\ reader' = "done"
  /\ UNCHANGED <<mainVars, up, captureVars, rawFrames, writer, encoded, read, dropped,
                 encodedFrames, consumerVars>>

-----------------------------------------------------------------------------
(* The components that share encodedFrames: broadcastFrames, and the       *)
(* goroutines of StartRecording and StartStreaming.                        *)

Receive(c) ==
  /\ consumer[c] = "waiting"
  /\ encodedFrames # <<>>
  /\ taken' = [taken EXCEPT ![c] = Append(@, Head(encodedFrames))]
  /\ encodedFrames' = Tail(encodedFrames)
  /\ consumer' = [consumer EXCEPT ![c] = "writing"]
  /\ UNCHANGED <<mainVars, up, captureVars, rawFrames, encoderVars>>

(* Mutant: the goroutine ends with its first chunk. *)
Write_Once(c) ==
  /\ consumer[c] = "writing" /\ (c = "server" \/ c \in up)
  /\ consumer' = [consumer EXCEPT ![c] = "finalizing"]
  /\ UNCHANGED <<mainVars, up, captureVars, rawFrames, encoderVars, encodedFrames, taken>>

(* The chunk is broadcast, or written to the component's ffmpeg. *)
Write(c) ==
  /\ consumer[c] = "writing" /\ (c = "server" \/ c \in up)
  /\ consumer' = [consumer EXCEPT ![c] = "waiting"]
  /\ UNCHANGED <<mainVars, up, captureVars, rawFrames, encoderVars, encodedFrames, taken>>

(* The write fails: the goroutine logs it and returns.  The error channels *)
(* of main only hear of what failed at the start.                          *)
WriteFails(c) ==
  /\ consumer[c] = "writing" /\ c \in Processes \ up
  /\ consumer' = [consumer EXCEPT ![c] = "done"]
  /\ UNCHANGED <<mainVars, up, captureVars, rawFrames, encoderVars, encodedFrames, taken>>

(* The context is done.  The streamer waits for its ffmpeg and returns;    *)
(* the recorder sleeps before it closes the input of its own, waits for it *)
(* and uploads the file, if main leaves it the time.                       *)
ConsumerStops(c) ==
  /\ consumer[c] = "waiting" /\ Cancelled
  /\ IF c = "recorder"
       THEN consumer' = [consumer EXCEPT ![c] = "finalizing"] /\ UNCHANGED up
       ELSE consumer' = [consumer EXCEPT ![c] = "done"] /\ up' = up \ {c}
  /\ UNCHANGED <<mainVars, captureVars, rawFrames, encoderVars, encodedFrames, taken>>

(* The channel is closed and empty: the goroutine returns at once, the     *)
(* recorder too.                                                           *)
ChannelEnds(c) ==
  /\ consumer[c] = "waiting" /\ Closed("encodedFrames") /\ encodedFrames = <<>>
  /\ consumer' = [consumer EXCEPT ![c] = "done"]
  /\ up' = up \ {c}
  /\ UNCHANGED <<mainVars, captureVars, rawFrames, encoderVars, encodedFrames, taken>>

RecorderFinishes(c) ==
  /\ consumer[c] = "finalizing"
  /\ consumer' = [consumer EXCEPT ![c] = "done"]
  /\ up' = up \ {c}
  /\ UNCHANGED <<mainVars, captureVars, rawFrames, encoderVars, encodedFrames, taken>>

-----------------------------------------------------------------------------
(* Processes and main.                                                     *)

(* ffmpeg fails: the device is unplugged, the disk full, the server away. *)
ProcessDies(p) ==
  /\ p \in up
  /\ up' = up \ {p}
  /\ UNCHANGED <<mainVars, captureVars, rawFrames, encoderVars, encodedFrames,
                 consumerVars>>

(* Mutant: the encoder is not a command of the context. *)
Kill_SparesEncoder(p) ==
  /\ Cancelled /\ p \in up \ {"encoder"}
  /\ up' = up \ {p}
  /\ UNCHANGED <<mainVars, captureVars, rawFrames, encoderVars, encodedFrames,
                 consumerVars>>

(* exec.CommandContext kills the process of a context that is done. *)
Kill(p) ==
  /\ Cancelled /\ p \in up
  /\ up' = up \ {p}
  /\ UNCHANGED <<mainVars, captureVars, rawFrames, encoderVars, encodedFrames,
                 consumerVars>>

(* A signal, or an error of a component that could not be started. *)
Cancel ==
  /\ main = "running"
  /\ main' = "cancelled"
  /\ UNCHANGED <<closed, hurried, up, captureVars, rawFrames, encoderVars,
                 encodedFrames, consumerVars>>

(* What can return has returned, but for the recorder, which may be asleep *)
(* as long as main.  Main hopes for it, and does not look.                 *)
Stopped ==
  /\ capture = "done" \/ (capture = "stamping" /\ frameTimings = Framerate)
  /\ writer = "done" /\ reader = "done"
  /\ \A c \in Consumers : consumer[c] \in {"finalizing", "done"}
  /\ up \subseteq Consumers

(* main wakes after 500 ms, whatever the goroutines have come to by then,  *)
(* and closes one channel after the other.                                 *)
Close ==
  /\ main = "cancelled" /\ closed < Len(Channels)
  /\ closed' = closed + 1
  /\ hurried' = IF closed = 0 THEN ~ Stopped ELSE hurried
  /\ UNCHANGED <<main, up, captureVars, rawFrames, encoderVars, encodedFrames,
                 consumerVars>>

(* main returns, and the program ends with whatever still runs in it. *)
Exit ==
  /\ main = "cancelled" /\ closed = Len(Channels)
  /\ main' = "exited"
  /\ UNCHANGED <<closed, hurried, up, captureVars, rawFrames, encoderVars,
                 encodedFrames, consumerVars>>

(* A goroutine sends on a closed channel, or is blocked in a send when it  *)
(* is closed: the program panics.  A select with a default does not help.  *)
Panic ==
  /\ \/ capture = "stamping" /\ Closed("frameTimings")
     \/ capture = "sending" /\ Closed("rawFrames")
     \/ reader = "sending" /\ Closed("encodedFrames")
  /\ main' = "panicked"
  /\ UNCHANGED <<closed, hurried, up, captureVars, rawFrames, encoderVars,
                 encodedFrames, consumerVars>>

Goroutine ==
  \/ ReadFrame \/ Stamp \/ SendFrame \/ ReadFrameFails
  \/ TakeFrame \/ WriteFrame \/ WriterReturns
  \/ ReadChunk \/ SendChunk \/ ReadChunkFails
  \/ \E c \in Consumers :
       \/ Receive(c) \/ Write(c) \/ WriteFails(c)
       \/ ConsumerStops(c) \/ ChannelEnds(c) \/ RecorderFinishes(c)
  \/ Panic

Alive == main \notin {"exited", "panicked"}

Next ==
  \/ Alive /\ Goroutine
  \/ \E p \in Processes : Alive /\ (ProcessDies(p) \/ Kill(p))
  \/ Cancel \/ Close \/ Exit

Spec == Init /\ [][Next]_vars

(* Goroutines run, writes end, and commands are killed; a select chooses   *)
(* ctx.Done() sooner or later.  Nothing makes the device deliver frames or *)
(* somebody stop the studio.  How long 500 ms are is left open: main may   *)
(* wake at any time, and is only sure to once the goroutines have stopped. *)
FairSpec ==
  /\ Spec
  /\ WF_vars(Alive /\ (Stamp \/ SendFrame \/ ReadFrameFails))
  /\ WF_vars(Alive /\ (TakeFrame \/ WriteFrame)) /\ SF_vars(Alive /\ WriterReturns)
  /\ WF_vars(Alive /\ (ReadChunk \/ SendChunk \/ ReadChunkFails))
  /\ \A c \in Consumers :
       /\ WF_vars(Alive /\ (Receive(c) \/ Write(c) \/ WriteFails(c)))
       /\ SF_vars(Alive /\ ConsumerStops(c))
  /\ \A p \in Processes : WF_vars(Alive /\ Kill(p))
  /\ WF_vars(((closed > 0 \/ Stopped) /\ Close) \/ Exit)

-----------------------------------------------------------------------------
(* Properties.                                                             *)

Elements(q) == {q[k] : k \in DOMAIN q}
Increasing(q) == \A j, k \in DOMAIN q : j < k => q[j] < q[k]

Places == {"reader", "channel", "dropped"} \cup Consumers
ChunksAt(p) ==
  CASE p = "reader"  -> IF reader = "sending" THEN {read} ELSE {}
    [] p = "channel" -> Elements(encodedFrames)
    [] p = "dropped" -> dropped
    [] OTHER         -> Elements(taken[p])

(* Every chunk read from the encoder is in exactly one place: with the     *)
(* reader, in the channel, counted as dropped, or taken by one component;  *)
(* and every component gets its chunks in order (EncodeFrames and the      *)
(* receivers of encodedFrames).                                            *)
ChunksAccounted ==
  /\ \A k \in 1 .. read : \E p \in Places : k \in ChunksAt(p)
  /\ \A p, q \in Places : p # q => ChunksAt(p) \cap ChunksAt(q) = {}
  /\ Increasing(encodedFrames)
  /\ \A c \in Consumers : Increasing(taken[c])

(* The chunks the reader has done with. *)
Offered == IF reader = "sending" THEN read - 1 ELSE read

Feed == INSTANCE SharedFeed WITH
          Takers <- Consumers, Room <- Framerate,
          offered <- Offered, waiting <- Elements(encodedFrames), lost <- dropped,
          had <- [c \in Consumers |-> Elements(taken[c])]

(* The components share one feed: a chunk is dropped, and then counted,    *)
(* only when the channel is full, and otherwise goes to one of them, the   *)
(* oldest first (EncodeFrames and the receivers of encodedFrames).         *)
ImplementsSharedFeed == Feed!Spec

(* While the studio runs and a component is left, no chunk waits for ever. *)
ChunksAreTaken ==
  encodedFrames # <<>>
    ~> \/ encodedFrames = <<>>
       \/ \A c \in Consumers : consumer[c] = "done"
       \/ Cancelled

(* Whatever pipe a goroutine is blocked on when the context is cancelled,  *)
(* it returns, and the program gets through its shutdown.  Two things only *)
(* end it otherwise: main waking before the goroutines have stopped, which *)
(* nothing but its 500 ms of sleep prevents, and the capture goroutine     *)
(* that found frameTimings full (setup-via-tee-v2.sh:668), which no sleep  *)
(* helps: it can panic as soon as main closes that channel (305).          *)
ShutdownCompletes ==
  main = "cancelled"
    ~> \/ main = "exited" \/ hurried
       \/ main = "panicked" /\ capture = "stamping" /\ frameTimings = Framerate

(* What the comments say, and the code does not do.                        *)

(* "drop frame to avoid blocking": capture goes on reading frames.         *)
CaptureNeverBlocks == capture = "stamping" ~> capture # "stamping"
=============================================================================
