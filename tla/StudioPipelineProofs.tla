------------------------ MODULE StudioPipelineProofs ------------------------
(***************************************************************************)
(* Theorems about StudioPipeline, for any frame rate, any set of consumers *)
(* and any encoder.                                                        *)
(***************************************************************************)
EXTENDS StudioPipeline, FiniteSetTheorems, FunctionTheorems, TLAPS

-----------------------------------------------------------------------------
(* Types.                                                                  *)

LEMMA TypeStep ==
  ASSUME PipelineAssumption, TypeOK, [Next]_vars
  PROVE  TypeOK'
<1> USE DEF TypeOK, mainVars, captureVars, encoderVars, consumerVars
<1>1. CASE ReadFrame \/ Stamp \/ SendFrame \/ ReadFrameFails
  <2>1. UNCHANGED <<main, closed, hurried, writer, encoded, reader, read, dropped, encodedFrames,
                    consumer, taken>>
    BY <1>1 DEF ReadFrame, Stamp, SendFrame, ReadFrameFails
  <2>2. /\ capture' \in {"reading", "stamping", "sending", "done"}
        /\ frameTimings' \in 0 .. Framerate /\ rawFrames' \in 0 .. Framerate
        /\ up' \in SUBSET Processes
    BY <1>1 DEF ReadFrame, Stamp, SendFrame, ReadFrameFails, PipelineAssumption
  <2> QED
    BY <2>1, <2>2
<1>2. CASE TakeFrame \/ WriteFrame \/ WriterReturns
  <2>1. UNCHANGED <<main, closed, hurried, up, capture, frameTimings, reader, read, dropped,
                    encodedFrames, consumer, taken>>
    BY <1>2 DEF TakeFrame, WriteFrame, WriterReturns
  <2>2. /\ writer' \in {"waiting", "writing", "done"}
        /\ rawFrames' \in 0 .. Framerate
        /\ encoded' \in Nat /\ encoded <= encoded'
    BY <1>2 DEF TakeFrame, WriteFrame, WriterReturns, PipelineAssumption
  <2> QED
    BY <2>1, <2>2
<1>3. CASE ReadChunk \/ ReadChunkFails
  <2>1. UNCHANGED <<main, closed, hurried, up, capture, frameTimings, rawFrames, writer, encoded,
                    dropped, encodedFrames, consumer, taken>>
    BY <1>3 DEF ReadChunk, ReadChunkFails
  <2>2. reader' \in {"reading", "sending", "done"} /\ read' \in 0 .. encoded
    BY <1>3 DEF ReadChunk, ReadChunkFails
  <2> QED
    BY <2>1, <2>2
<1>4. CASE SendChunk
  <2>1. /\ encodedFrames' \in Seq(Nat) /\ Len(encodedFrames') <= Framerate
        /\ dropped' \in SUBSET Nat
    <3>1. CASE Len(encodedFrames) < Framerate
      <4>1. /\ Append(encodedFrames, read) \in Seq(Nat)
            /\ Len(Append(encodedFrames, read)) <= Framerate
        BY <3>1 DEF PipelineAssumption
      <4> QED
        BY <1>4, <3>1, <4>1 DEF SendChunk
    <3>2. CASE ~ Len(encodedFrames) < Framerate
      <4>1. /\ UNCHANGED encodedFrames /\ dropped' = dropped \cup {read}
            /\ read \in Nat
        BY <1>4, <3>2 DEF SendChunk
      <4> QED
        BY <4>1
    <3> QED
      BY <3>1, <3>2
  <2>2. reader' \in {"reading", "sending", "done"} /\ up' \in SUBSET Processes
    BY <1>4 DEF SendChunk, ReadOn
  <2> QED
    BY <1>4, <2>1, <2>2 DEF SendChunk
<1>5. ASSUME NEW c \in Consumers, Receive(c)
      PROVE  TypeOK'
  <2>1. /\ Head(encodedFrames) \in Nat /\ Tail(encodedFrames) \in Seq(Nat)
        /\ Len(Tail(encodedFrames)) <= Framerate
    BY <1>5 DEF Receive, PipelineAssumption
  <2>2. Append(taken[c], Head(encodedFrames)) \in Seq(Nat)
    BY <2>1
  <2>3. taken' \in [Consumers -> Seq(Nat)]
    BY <1>5, <2>2 DEF Receive
  <2> QED
    BY <1>5, <2>1, <2>3 DEF Receive
<1>6. ASSUME NEW c \in Consumers,
             \/ Write(c) \/ WriteFails(c)
             \/ ConsumerStops(c) \/ ChannelEnds(c) \/ RecorderFinishes(c)
      PROVE  TypeOK'
  BY <1>6 DEF Write, WriteFails, ConsumerStops, ChannelEnds, RecorderFinishes
<1>7. ASSUME NEW p \in Processes, ProcessDies(p) \/ Kill(p)
      PROVE  TypeOK'
  BY <1>7 DEF ProcessDies, Kill
<1>8. CASE Cancel \/ Close \/ Exit \/ Panic
  <2>1. /\ main' \in {"running", "cancelled", "exited", "panicked"}
        /\ closed' \in 0 .. Len(Channels) /\ hurried' \in BOOLEAN
    <3>1. Len(Channels) = 3
      BY DEF Channels
    <3>2. CASE Close
      <4>1. main' = main /\ closed' = closed + 1 /\ closed < 3 /\ closed \in 0 .. 3
        BY <3>1, <3>2 DEF Close
      <4>2. hurried' \in BOOLEAN
        <5>1. Stopped \in BOOLEAN
          BY DEF Stopped
        <5> QED
          BY <3>2, <5>1, Zenon DEF Close
      <4> QED
        BY <3>1, <4>1, <4>2
    <3>3. CASE Cancel \/ Exit \/ Panic
      BY <3>3 DEF Cancel, Exit, Panic
    <3> QED
      BY <1>8, <3>2, <3>3
  <2>2. UNCHANGED <<up, capture, frameTimings, rawFrames, writer, encoded, reader, read,
                    dropped, encodedFrames, consumer, taken>>
    BY <1>8 DEF Cancel, Close, Exit, Panic
  <2> QED
    BY <2>1, <2>2
<1>9. CASE UNCHANGED vars
  BY <1>9 DEF vars
<1> QED
  BY <1>1, <1>2, <1>3, <1>4, <1>5, <1>6, <1>7, <1>8, <1>9 DEF Next, Goroutine

(* Every variable of the pipeline keeps its type, and the channels their   *)
(* capacity (make(chan ..., cfg.Framerate) in main).                       *)
THEOREM TypeCorrect == Spec => []TypeOK
<1>1. PipelineAssumption /\ Init => TypeOK
  <2> SUFFICES ASSUME PipelineAssumption, Init
               PROVE  TypeOK
    OBVIOUS
  <2>1. <<>> \in Seq(Nat) /\ Len(<<>>) = 0 /\ Framerate \in Nat \ {0}
    BY DEF PipelineAssumption
  <2>2. closed \in 0 .. Len(Channels)
    <3>1. Len(Channels) = 3 /\ closed = 0
      BY DEF Channels, Init
    <3> QED
      BY <3>1
  <2>3. /\ frameTimings \in 0 .. Framerate /\ rawFrames \in 0 .. Framerate
        /\ encoded \in Nat /\ read \in 0 .. encoded
        /\ encodedFrames \in Seq(Nat) /\ Len(encodedFrames) <= Framerate
    BY <2>1 DEF Init
  <2>4. /\ main \in {"running", "cancelled", "exited", "panicked"} /\ hurried \in BOOLEAN
        /\ up \in SUBSET Processes
        /\ capture \in {"reading", "stamping", "sending", "done"}
        /\ writer \in {"waiting", "writing", "done"}
        /\ reader \in {"reading", "sending", "done"}
        /\ dropped \in SUBSET Nat
        /\ consumer \in [Consumers -> {"waiting", "writing", "finalizing", "done"}]
        /\ taken \in [Consumers -> Seq(Nat)]
    BY <2>1 DEF Init
  <2> QED
    BY <2>2, <2>3, <2>4 DEF TypeOK
<1> QED
  BY <1>1, TypeStep, PipelineAssumption, PTL DEF Spec

-----------------------------------------------------------------------------
(* Increasing sequences and their elements.                                *)

LEMMA ElementsOfAppend ==
  ASSUME NEW q \in Seq(Nat), NEW k \in Nat
  PROVE  Elements(Append(q, k)) = Elements(q) \cup {k}
<1> DEFINE r == Append(q, k)
<1>1. /\ DOMAIN r = 1 .. Len(q) + 1 /\ r[Len(q) + 1] = k
      /\ \A j \in DOMAIN q : r[j] = q[j]
  OBVIOUS
<1>2. DOMAIN q = 1 .. Len(q) /\ Len(q) \in Nat
  OBVIOUS
<1> QED
  BY <1>1, <1>2 DEF Elements

LEMMA AppendIncreases ==
  ASSUME NEW q \in Seq(Nat), NEW k \in Nat, Increasing(q),
         \A e \in Elements(q) : e < k
  PROVE  Increasing(Append(q, k))
<1> DEFINE r == Append(q, k)
<1>1. /\ DOMAIN r = 1 .. Len(q) + 1 /\ r[Len(q) + 1] = k
      /\ \A j \in DOMAIN q : r[j] = q[j]
  OBVIOUS
<1>2. DOMAIN q = 1 .. Len(q) /\ Len(q) \in Nat
  OBVIOUS
<1>3. \A j \in DOMAIN q : q[j] < k
  BY DEF Elements
<1> HIDE DEF r
<1>4. Increasing(r)
  BY <1>1, <1>2, <1>3 DEF Increasing
<1> QED
  BY <1>4 DEF r

LEMMA HeadAndTail ==
  ASSUME NEW q \in Seq(Nat), q # <<>>, Increasing(q)
  PROVE  /\ Increasing(Tail(q))
         /\ Elements(q) = Elements(Tail(q)) \cup {Head(q)}
         /\ \A e \in Elements(Tail(q)) : Head(q) < e
<1> DEFINE r == Tail(q)
<1>1. /\ Len(q) \in Nat \ {0} /\ DOMAIN q = 1 .. Len(q) /\ Head(q) = q[1]
      /\ DOMAIN r = 1 .. Len(q) - 1 /\ \A j \in DOMAIN r : r[j] = q[j + 1]
  OBVIOUS
<1> HIDE DEF r
<1>2. Increasing(r)
  <2> SUFFICES ASSUME NEW j \in DOMAIN r, NEW k \in DOMAIN r, j < k
               PROVE  r[j] < r[k]
    BY DEF Increasing
  <2>1. /\ j + 1 \in DOMAIN q /\ k + 1 \in DOMAIN q /\ j + 1 < k + 1
        /\ r[j] = q[j + 1] /\ r[k] = q[k + 1]
    BY <1>1
  <2> QED
    BY <2>1 DEF Increasing
<1>3. Elements(q) = Elements(r) \cup {Head(q)}
  <2>1. \A j \in DOMAIN q : j = 1 \/ (j - 1 \in DOMAIN r /\ r[j - 1] = q[j])
    BY <1>1
  <2>2. \A j \in DOMAIN r : j + 1 \in DOMAIN q /\ r[j] = q[j + 1]
    BY <1>1
  <2>3. 1 \in DOMAIN q
    BY <1>1
  <2> QED
    BY <1>1, <2>1, <2>2, <2>3 DEF Elements
<1>4. \A e \in Elements(r) : Head(q) < e
  BY <1>1 DEF Increasing, Elements
<1> QED
  BY <1>2, <1>3, <1>4 DEF r

LEMMA ElementsAreNumbers ==
  ASSUME NEW q \in Seq(Nat)
  PROVE  Elements(q) \in SUBSET Nat
  BY DEF Elements

-----------------------------------------------------------------------------
(* The chunks.                                                             *)

(* The chunk the reader holds, if any. *)
Held == IF reader = "sending" THEN {read} ELSE {}

(* The chunks read from the encoder, by place: nowhere else, nowhere       *)
(* twice; those in the channel come after all that were taken.             *)
Everywhere ==
  /\ \A k \in 1 .. read :
       \/ k \in Held \cup Elements(encodedFrames) \cup dropped
       \/ \E c \in Consumers : k \in Elements(taken[c])
  /\ Held \cup Elements(encodedFrames) \cup dropped \subseteq 1 .. read
  /\ \A c \in Consumers : Elements(taken[c]) \subseteq 1 .. read

Apart ==
  /\ Held \cap (Elements(encodedFrames) \cup dropped) = {}
  /\ Elements(encodedFrames) \cap dropped = {}
  /\ \A c \in Consumers : Elements(taken[c]) \cap (Held \cup dropped) = {}
  /\ \A c, d \in Consumers : c # d => Elements(taken[c]) \cap Elements(taken[d]) = {}

InOrder ==
  /\ Increasing(encodedFrames)
  /\ \A c \in Consumers :
       /\ Increasing(taken[c])
       /\ \A k \in Elements(taken[c]), l \in Elements(encodedFrames) : k < l

ChunkInv == Everywhere /\ Apart /\ InOrder
chunkVars == <<reader, read, encodedFrames, dropped, taken>>

LEMMA ChunkStep ==
  ASSUME PipelineAssumption, TypeOK, ChunkInv, [Next]_vars
  PROVE  ChunkInv'
<1> USE DEF ChunkInv
<1>t. /\ read \in Nat /\ encodedFrames \in Seq(Nat) /\ dropped \in SUBSET Nat
      /\ \A c \in Consumers : taken[c] \in Seq(Nat)
  BY DEF TypeOK
<1>1. ASSUME UNCHANGED chunkVars
      PROVE  ChunkInv'
  BY <1>1 DEF chunkVars, Held, Everywhere, Apart, InOrder
<1>2. CASE ReadChunk
  <2>1. /\ read' = read + 1 /\ Held = {} /\ Held' = {read + 1}
        /\ UNCHANGED <<encodedFrames, dropped, taken>>
    BY <1>2 DEF ReadChunk, Held, consumerVars
  <2>2. /\ 1 .. read' = 1 .. read \cup {read + 1}
        /\ read + 1 \notin 1 .. read
    BY <2>1, <1>t
  <2>3. Everywhere'
    BY <2>1, <2>2 DEF Everywhere
  <2>4. Apart'
    <3>1. /\ read + 1 \notin Elements(encodedFrames) \cup dropped
          /\ \A c \in Consumers : read + 1 \notin Elements(taken[c])
      BY <2>1, <2>2 DEF Everywhere
    <3> QED
      BY <2>1, <3>1 DEF Apart
  <2>5. InOrder'
    BY <2>1 DEF InOrder
  <2> QED
    BY <2>3, <2>4, <2>5
<1>3. CASE SendChunk
  <2>1. /\ Held = {read} /\ Held' = {} /\ UNCHANGED <<read, taken>>
    BY <1>3 DEF SendChunk, ReadOn, Held, consumerVars
  <2>2. CASE Len(encodedFrames) < Framerate
    <3>1. encodedFrames' = Append(encodedFrames, read) /\ UNCHANGED dropped
      BY <1>3, <2>2 DEF SendChunk
    <3>2. Elements(encodedFrames') = Elements(encodedFrames) \cup {read}
      BY <3>1, <1>t, ElementsOfAppend
    <3>3. \A e \in Elements(encodedFrames) : e < read
      <4>1. \A e \in Elements(encodedFrames) : e \in 1 .. read /\ e # read
        BY <2>1 DEF Everywhere, Apart
      <4> QED
        BY <4>1, <1>t
    <3>4. Increasing(encodedFrames')
      BY <3>1, <3>3, <1>t, AppendIncreases DEF InOrder
    <3>5. \A c \in Consumers : read \notin Elements(taken[c])
      BY <2>1 DEF Apart
    <3>6. ASSUME NEW c \in Consumers, NEW k \in Elements(taken[c])
          PROVE  k < read
      <4>1. k \in 1 .. read
        BY DEF Everywhere
      <4>2. k # read
        BY <3>5
      <4> QED
        BY <4>1, <4>2, <1>t
    <3>7. Everywhere'
      BY <2>1, <3>1, <3>2 DEF Everywhere
    <3>8. Apart'
      BY <2>1, <3>1, <3>2, <3>5 DEF Apart
    <3>9. InOrder'
      BY <2>1, <3>2, <3>4, <3>6 DEF InOrder
    <3> QED
      BY <3>7, <3>8, <3>9
  <2>3. CASE ~ Len(encodedFrames) < Framerate
    <3>1. dropped' = dropped \cup {read} /\ UNCHANGED encodedFrames
      BY <1>3, <2>3 DEF SendChunk
    <3> QED
      BY <2>1, <3>1 DEF Everywhere, Apart, InOrder
  <2> QED
    BY <2>2, <2>3
<1>4. CASE ReadChunkFails
  BY <1>4 DEF ReadChunkFails, consumerVars, Held, Everywhere, Apart, InOrder
<1>5. ASSUME NEW c \in Consumers, Receive(c)
      PROVE  ChunkInv'
  <2> DEFINE h == Head(encodedFrames)
  <2>1. /\ encodedFrames # <<>> /\ encodedFrames' = Tail(encodedFrames)
        /\ taken' = [taken EXCEPT ![c] = Append(@, h)]
        /\ UNCHANGED <<reader, read, dropped>>
    BY <1>5 DEF Receive, encoderVars
  <2>2. h \in Nat
    BY <2>1, <1>t
  <2>3. /\ Increasing(encodedFrames')
        /\ Elements(encodedFrames) = Elements(encodedFrames') \cup {h}
        /\ \A e \in Elements(encodedFrames') : h < e
    BY <2>1, <1>t, HeadAndTail DEF InOrder
  <2>4. /\ taken'[c] = Append(taken[c], h)
        /\ \A d \in Consumers \ {c} : taken'[d] = taken[d]
    BY <2>1 DEF TypeOK
  <2>5. /\ Elements(taken'[c]) = Elements(taken[c]) \cup {h}
        /\ \A d \in Consumers \ {c} : Elements(taken'[d]) = Elements(taken[d])
    BY <2>2, <2>4, <1>t, ElementsOfAppend
  <2>6. \A d \in Consumers : \A e \in Elements(taken[d]) : e < h
    BY <2>3 DEF InOrder
  <2>7. Increasing(taken'[c])
    BY <2>2, <2>4, <2>6, <1>t, AppendIncreases DEF InOrder
  <2>8. UNCHANGED Held
    BY <2>1 DEF Held
  <2> HIDE DEF h
  <2>9. Everywhere'
    BY <2>1, <2>3, <2>5, <2>8 DEF Everywhere
  <2>10. Apart'
    <3>1. \A d \in Consumers : h \notin Elements(taken[d])
      BY <2>2, <2>6
    <3> QED
      BY <2>1, <2>3, <2>5, <2>8, <3>1 DEF Apart
  <2>11. InOrder'
    <3>1. \A d \in Consumers : \A k \in Elements(taken'[d]) :
            \A l \in Elements(encodedFrames') : k < l
      BY <2>3, <2>5 DEF InOrder
    <3> QED
      BY <2>3, <2>4, <2>7, <3>1 DEF InOrder
  <2> QED
    BY <2>9, <2>10, <2>11
<1>6. ASSUME NEW c \in Consumers,
             \/ Write(c) \/ WriteFails(c)
             \/ ConsumerStops(c) \/ ChannelEnds(c) \/ RecorderFinishes(c)
      PROVE  UNCHANGED chunkVars
  BY <1>6 DEF Write, WriteFails, ConsumerStops, ChannelEnds, RecorderFinishes, encoderVars,
     chunkVars
<1>7. CASE \/ ReadFrame \/ Stamp \/ SendFrame \/ ReadFrameFails
           \/ TakeFrame \/ WriteFrame \/ WriterReturns
           \/ Cancel \/ Close \/ Exit \/ Panic \/ UNCHANGED vars
  <2>1. UNCHANGED chunkVars
    BY <1>7 DEF ReadFrame, Stamp, SendFrame, ReadFrameFails, TakeFrame, WriteFrame,
       WriterReturns, Cancel, Close, Exit, Panic, vars, encoderVars, consumerVars, chunkVars
  <2> QED
    BY <2>1, <1>1
<1>8. ASSUME NEW p \in Processes, ProcessDies(p) \/ Kill(p)
      PROVE  UNCHANGED chunkVars
  BY <1>8 DEF ProcessDies, Kill, encoderVars, consumerVars, chunkVars
<1> QED
  BY <1>1, <1>2, <1>3, <1>4, <1>5, <1>6, <1>7, <1>8 DEF Next, Goroutine

(* The four kinds of place, without the CASE. *)
LEMMA PlacesAre ==
  ASSUME PipelineAssumption
  PROVE  /\ ChunksAt("reader") = Held
         /\ ChunksAt("channel") = Elements(encodedFrames)
         /\ ChunksAt("dropped") = dropped
         /\ \A c \in Consumers : ChunksAt(c) = Elements(taken[c])
<1>1. \A c \in Consumers : c # "reader" /\ c # "channel" /\ c # "dropped"
  BY DEF PipelineAssumption
<1>2. ChunksAt("reader") = Held
  BY DEF ChunksAt, Held
<1>3. ChunksAt("channel") = Elements(encodedFrames)
  BY DEF ChunksAt
<1>4. ChunksAt("dropped") = dropped
  BY DEF ChunksAt
<1>5. \A c \in Consumers : ChunksAt(c) = Elements(taken[c])
  BY <1>1, Zenon DEF ChunksAt
<1> QED
  BY <1>2, <1>3, <1>4, <1>5

LEMMA ChunkInvIsEnough ==
  ASSUME PipelineAssumption, TypeOK, ChunkInv
  PROVE  ChunksAccounted
<1> USE DEF ChunkInv
<1>1. \A k \in 1 .. read : \E p \in Places : k \in ChunksAt(p)
  BY PlacesAre DEF Everywhere, Places
<1>2. ASSUME NEW p \in Places, NEW q \in Places, p # q
      PROVE  ChunksAt(p) \cap ChunksAt(q) = {}
  <2>1. \A c \in Consumers : Elements(taken[c]) \cap Elements(encodedFrames) = {}
    <3>1. \A c \in Consumers : Elements(taken[c]) \in SUBSET Nat
      BY ElementsAreNumbers DEF TypeOK
    <3> QED
      BY <3>1 DEF InOrder
  <2>2. CASE p \in Consumers /\ q \in Consumers
    BY <1>2, <2>2, PlacesAre DEF Apart
  <2>3. CASE p \in Consumers /\ q \notin Consumers
    BY <1>2, <2>1, <2>3, PlacesAre DEF Apart, Places
  <2>4. CASE p \notin Consumers /\ q \in Consumers
    BY <1>2, <2>1, <2>4, PlacesAre DEF Apart, Places
  <2>5. CASE p \notin Consumers /\ q \notin Consumers
    BY <1>2, <2>5, PlacesAre DEF Apart, Places
  <2> QED
    BY <2>2, <2>3, <2>4, <2>5
<1> QED
  BY <1>1, <1>2 DEF ChunksAccounted, InOrder

LEMMA ChunksStay == Spec => []ChunkInv
<1>1. PipelineAssumption /\ Init => ChunkInv
  <2> SUFFICES ASSUME PipelineAssumption, Init
               PROVE  ChunkInv
    OBVIOUS
  <2>1. Elements(<<>>) = {} /\ Increasing(<<>>)
    BY DEF Elements, Increasing
  <2> QED
    BY <2>1 DEF Init, ChunkInv, Held, Everywhere, Apart, InOrder
<1>2. PipelineAssumption /\ TypeOK /\ ChunkInv /\ [Next]_vars => ChunkInv'
  BY ChunkStep
<1> QED
  BY <1>1, <1>2, TypeCorrect, PipelineAssumption, PTL DEF Spec

(* No chunk is lost without being counted, none reaches two components,    *)
(* and each component gets its own in order (EncodeFrames and the loops    *)
(* that receive from encodedFrames).                                       *)
THEOREM NoChunkIsLost == Spec => []ChunksAccounted
<1>1. PipelineAssumption /\ TypeOK /\ ChunkInv => ChunksAccounted
  BY ChunkInvIsEnough
<1> QED
  BY <1>1, TypeCorrect, ChunksStay, PipelineAssumption, PTL

-----------------------------------------------------------------------------
(* The pipeline implements SharedFeed.                                     *)

(* An increasing sequence has as many elements as positions. *)
LEMMA AsManyAsPositions ==
  ASSUME NEW q \in Seq(Nat), Increasing(q)
  PROVE  Cardinality(Elements(q)) = Len(q)
<1>1. Len(q) \in Nat /\ DOMAIN q = 1 .. Len(q)
  OBVIOUS
<1>2. q \in [1 .. Len(q) -> Elements(q)]
  BY <1>1 DEF Elements
<1>3. \A j, k \in 1 .. Len(q) : q[j] = q[k] => j = k
  <2>1. \A j \in 1 .. Len(q) : q[j] \in Nat
    BY <1>1
  <2>2. \A j, k \in 1 .. Len(q) : j < k => q[j] < q[k]
    BY <1>1 DEF Increasing
  <2>3. \A j, k \in 1 .. Len(q) : j < k \/ k < j \/ j = k
    BY <1>1
  <2> QED
    BY <2>1, <2>2, <2>3
<1>4. \A e \in Elements(q) : \E j \in 1 .. Len(q) : q[j] = e
  BY <1>1 DEF Elements
<1>5. q \in Bijection(1 .. Len(q), Elements(q))
  BY <1>2, <1>3, <1>4, Fun_IsBij
<1>6. ExistsBijection(1 .. Len(q), Elements(q))
  BY <1>5, Fun_ExistsBij
<1> QED
  BY <1>1, <1>6, FS_CountingElements

(* The chunks each component got, as the feed has them. *)
Had == [c \in Consumers |-> Elements(taken[c])]

(* The feed counts as the pipeline does: the two operators are the same. *)
LEMMA FeedCounts == \A S : Feed!Cardinality(S) = Cardinality(S)
  BY DEF Feed!Cardinality, Cardinality

LEMMA FeedInit ==
  ASSUME PipelineAssumption, Init
  PROVE  Feed!Init
<1>1. Elements(<<>>) = {}
  BY DEF Elements
<1> QED
  BY <1>1 DEF Init, Feed!Init, Offered

(* Everything the feed is made of stays as it is. *)
LEMMA FeedStutters ==
  ASSUME UNCHANGED chunkVars
  PROVE  UNCHANGED Feed!vars
  BY DEF chunkVars, Feed!vars, Offered

(* The chunk the reader sends is the next the feed is offered; that it is  *)
(* new, and later than all that wait, is ChunkInv.                         *)
LEMMA SendIsOffer ==
  ASSUME PipelineAssumption, TypeOK, ChunkInv, SendChunk
  PROVE  Feed!Keep \/ Feed!Lose
<1>1. /\ reader = "sending" /\ reader' # "sending" /\ UNCHANGED <<read, taken>>
  BY DEF SendChunk, ReadOn, consumerVars
<1>2. /\ read \in Nat /\ encodedFrames \in Seq(Nat) /\ Len(encodedFrames) <= Framerate
      /\ Framerate \in Nat /\ Len(encodedFrames) \in Nat
  BY DEF TypeOK, PipelineAssumption
<1>3. Offered' = Offered + 1 /\ Offered' = read
  BY <1>1, <1>2 DEF Offered
<1>4. Cardinality(Elements(encodedFrames)) = Len(encodedFrames)
  BY <1>2, AsManyAsPositions DEF ChunkInv, InOrder
<1>7. UNCHANGED Had
  BY <1>1 DEF Had
<1>5. CASE Len(encodedFrames) < Framerate
  <2>1. encodedFrames' = Append(encodedFrames, read) /\ UNCHANGED dropped
    BY <1>5 DEF SendChunk
  <2>2. Elements(encodedFrames') = Elements(encodedFrames) \cup {read}
    BY <1>2, <2>1, ElementsOfAppend
  <2>3. Elements(encodedFrames') = Elements(encodedFrames) \cup {Offered'}
    BY <1>3, <2>2
  <2>4. Feed!Cardinality(Elements(encodedFrames)) < Framerate
    BY <1>4, <1>5, FeedCounts
  <2> QED
    BY <1>3, <1>7, <2>1, <2>3, <2>4, Zenon DEF Feed!Keep, Had
<1>6. CASE ~ Len(encodedFrames) < Framerate
  <2>1. dropped' = dropped \cup {read} /\ UNCHANGED encodedFrames
    BY <1>6 DEF SendChunk
  <2>2. Feed!Cardinality(Elements(encodedFrames)) = Framerate
    BY <1>2, <1>4, <1>6, FeedCounts
  <2>3. dropped' = dropped \cup {Offered'}
    BY <1>3, <2>1
  <2> QED
    BY <1>3, <1>7, <2>1, <2>2, <2>3, Zenon DEF Feed!Lose, Had
<1> QED
  BY <1>5, <1>6

(* What a component receives is the oldest that waits. *)
LEMMA ReceiveIsTake ==
  ASSUME PipelineAssumption, TypeOK, ChunkInv, NEW c \in Consumers, Receive(c)
  PROVE  Feed!Take(c)
<1> DEFINE h == Head(encodedFrames)
<1>1. /\ encodedFrames # <<>> /\ encodedFrames' = Tail(encodedFrames)
      /\ taken' = [taken EXCEPT ![c] = Append(@, h)]
      /\ UNCHANGED <<reader, read, dropped>>
  BY DEF Receive, encoderVars
<1>2. /\ encodedFrames \in Seq(Nat) /\ taken \in [Consumers -> Seq(Nat)]
      /\ h \in Nat
  BY <1>1 DEF TypeOK
<1>3. /\ Elements(encodedFrames) = Elements(encodedFrames') \cup {h}
      /\ \A e \in Elements(encodedFrames') : h < e
  BY <1>1, <1>2, HeadAndTail DEF ChunkInv, InOrder
<1>4. /\ h \in Elements(encodedFrames)
      /\ \A e \in Elements(encodedFrames) : h <= e
  <2>1. \A e \in Elements(encodedFrames) : e \in Nat
    BY <1>2, ElementsAreNumbers
  <2> QED
    BY <1>2, <1>3, <2>1
<1>5. Elements(encodedFrames') = Elements(encodedFrames) \ {h}
  BY <1>2, <1>3
<1>6. Elements(taken'[c]) = Elements(taken[c]) \cup {h}
  BY <1>1, <1>2, ElementsOfAppend
<1>7. \A d \in Consumers \ {c} : taken'[d] = taken[d]
  BY <1>1, <1>2
<1> HIDE DEF h
<1>8. Had' = [Had EXCEPT ![c] = @ \cup {h}]
  BY <1>6, <1>7 DEF Had
<1>9. UNCHANGED <<Offered, dropped>>
  BY <1>1 DEF Offered
<1> QED
  BY <1>4, <1>5, <1>8, <1>9, Zenon DEF Feed!Take, Had

LEMMA FeedStep ==
  ASSUME PipelineAssumption, TypeOK, ChunkInv, [Next]_vars
  PROVE  [Feed!Next]_(Feed!vars)
<1>1. ASSUME UNCHANGED chunkVars
      PROVE  UNCHANGED Feed!vars
  BY <1>1, FeedStutters
<1>2. CASE ReadChunk
  <2>1. /\ reader = "reading" /\ reader' = "sending" /\ read' = read + 1
        /\ read \in Nat /\ UNCHANGED <<encodedFrames, dropped, taken>>
    BY <1>2 DEF ReadChunk, consumerVars, TypeOK
  <2>2. UNCHANGED Offered
    BY <2>1 DEF Offered
  <2> QED
    BY <2>1, <2>2 DEF Feed!vars
<1>3. CASE ReadChunkFails
  <2>1. /\ reader = "reading" /\ reader' = "done"
        /\ UNCHANGED <<read, encodedFrames, dropped, taken>>
    BY <1>3 DEF ReadChunkFails, consumerVars
  <2>2. UNCHANGED Offered
    BY <2>1 DEF Offered
  <2> QED
    BY <2>1, <2>2 DEF Feed!vars
<1>4. CASE SendChunk
  BY <1>4, SendIsOffer DEF Feed!Next
<1>5. ASSUME NEW c \in Consumers, Receive(c)
      PROVE  Feed!Next
  BY <1>5, ReceiveIsTake DEF Feed!Next
<1>6. ASSUME NEW c \in Consumers,
             \/ Write(c) \/ WriteFails(c)
             \/ ConsumerStops(c) \/ ChannelEnds(c) \/ RecorderFinishes(c)
      PROVE  UNCHANGED chunkVars
  BY <1>6 DEF Write, WriteFails, ConsumerStops, ChannelEnds, RecorderFinishes, encoderVars,
     chunkVars
<1>7. CASE \/ ReadFrame \/ Stamp \/ SendFrame \/ ReadFrameFails
           \/ TakeFrame \/ WriteFrame \/ WriterReturns
           \/ Cancel \/ Close \/ Exit \/ Panic \/ UNCHANGED vars
  <2>1. UNCHANGED chunkVars
    BY <1>7 DEF ReadFrame, Stamp, SendFrame, ReadFrameFails, TakeFrame, WriteFrame,
       WriterReturns, Cancel, Close, Exit, Panic, vars, encoderVars, consumerVars, chunkVars
  <2> QED
    BY <2>1, <1>1
<1>8. ASSUME NEW p \in Processes, ProcessDies(p) \/ Kill(p)
      PROVE  UNCHANGED chunkVars
  BY <1>8 DEF ProcessDies, Kill, encoderVars, consumerVars, chunkVars
<1> QED
  BY <1>1, <1>2, <1>3, <1>4, <1>5, <1>6, <1>7, <1>8 DEF Next, Goroutine

(* The components share one feed: every step of the pipeline offers a      *)
(* chunk, hands the oldest that waits to one component, or does not show.  *)
THEOREM Implementation == Spec => ImplementsSharedFeed
<1>1. PipelineAssumption /\ Init => Feed!Init
  BY FeedInit
<1>2. PipelineAssumption /\ TypeOK /\ ChunkInv /\ [Next]_vars => [Feed!Next]_(Feed!vars)
  BY FeedStep
<1> QED
  BY <1>1, <1>2, TypeCorrect, ChunksStay, PipelineAssumption,
     PTL DEF Spec, ImplementsSharedFeed, Feed!Spec
=============================================================================
