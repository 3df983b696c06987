------------------------- MODULE MaidCommandsProofs -------------------------
(***************************************************************************)
(* Theorems about MaidCommands, for any number of commands, any depth of   *)
(* waiting functions, and whatever the module refuses, delays or fails.    *)
(***************************************************************************)
EXTENDS MaidCommands, SequenceTheorems, TLAPS

-----------------------------------------------------------------------------
(* Queues of commands and the stack of waiting functions.                  *)

LEMMA AppendPositions ==
  ASSUME NEW S, NEW q \in Seq(S), NEW e \in S
  PROVE  /\ Append(q, e) \in Seq(S)
         /\ Len(q) \in Nat
         /\ DOMAIN q = 1 .. Len(q)
         /\ DOMAIN Append(q, e) = 1 .. Len(q) + 1
         /\ Len(Append(q, e)) = Len(q) + 1
         /\ \A i \in 1 .. Len(q) : Append(q, e)[i] = q[i]
         /\ Append(q, e)[Len(q) + 1] = e
  OBVIOUS

LEMMA TailPositions ==
  ASSUME NEW S, NEW q \in Seq(S), q # <<>>
  PROVE  /\ Tail(q) \in Seq(S)
         /\ Head(q) \in S /\ Head(q) = q[1]
         /\ Len(q) \in Nat \ {0}
         /\ DOMAIN q = 1 .. Len(q)
         /\ DOMAIN Tail(q) = 1 .. Len(q) - 1
         /\ \A i \in 1 .. Len(q) - 1 : Tail(q)[i] = q[i + 1]
  OBVIOUS

(* The function that waits innermost, and the others. *)
LEMMA BelowPositions ==
  ASSUME TypeOK, stack # <<>>
  PROVE  /\ Below \in Seq(Frames)
         /\ Len(stack) \in Nat \ {0}
         /\ Len(Below) = Len(stack) - 1
         /\ DOMAIN stack = 1 .. Len(stack)
         /\ DOMAIN Below = 1 .. Len(stack) - 1
         /\ \A i \in DOMAIN Below : i \in DOMAIN stack /\ Below[i] = stack[i]
         /\ Top \in Frames /\ Top = stack[Len(stack)]
<1>1. stack \in Seq(Frames) /\ Len(stack) \in Nat \ {0} /\ DOMAIN stack = 1 .. Len(stack)
  BY DEF TypeOK
<1> DEFINE n == Len(stack) - 1
<1>2. n \in Nat /\ 1 \in Int /\ n \in Int /\ \A i \in 1 .. n : stack[i] \in Frames
  BY <1>1
<1>3. /\ SubSeq(stack, 1, n) \in Seq(Frames)
      /\ Len(SubSeq(stack, 1, n)) = IF 1 <= n THEN n - 1 + 1 ELSE 0
      /\ \A i \in 1 .. n - 1 + 1 : SubSeq(stack, 1, n)[i] = stack[1 + i - 1]
  BY <1>2, SubSeqProperties
<1>b. Below = SubSeq(stack, 1, n)
  BY DEF Below
<1>n. n = Len(stack) - 1
  OBVIOUS
<1> HIDE DEF n
<1>4. Below \in Seq(Frames) /\ Len(Below) = n /\ DOMAIN Below = 1 .. n
  BY <1>2, <1>3, <1>b
<1>5. \A i \in 1 .. n : Below[i] = stack[i] /\ i \in DOMAIN stack
  BY <1>1, <1>2, <1>3, <1>b, <1>n
<1>6. Top \in Frames /\ Top = stack[Len(stack)]
  BY <1>1 DEF Top
<1> QED
  BY <1>1, <1>4, <1>5, <1>6, <1>n
-----------------------------------------------------------------------------
(* What a step does.                                                       *)

(* A function gives a command, and waits for it on top of the others. *)
Calls(o, name, then) ==
  /\ Orders(stack, o, name, then)
  /\ dataProc' = IF name \in Fetches THEN Fresh ELSE dataProc
  /\ abandoned' = abandoned
  /\ name \in MakesRefDeliver => o = "image" /\ stack = <<>>

(* The innermost function stops waiting. *)
Stops(why) ==
  /\ stack # <<>> /\ why \in Reasons /\ Forgets(why)
  /\ IF why = "noWait" THEN Top.cmd \in finished
                       ELSE Top.name = "Delete" \/ "Async" \in Faults
  /\ dataProc' \in {None, dataProc}

(* The function that called it, or it itself, gives the next command. *)
CallsNext(o, name, then, why) ==
  /\ Stops(why)
  /\ Orders(Below, o, name, then)
  /\ name \in Insistent \ {"SetDataProc"}

Leaves(why) ==
  /\ Stops(why) /\ stack' = Below
  /\ UNCHANGED <<given, pending, finished, blocks, deliver, sent, saved, wild>>

(* A command is given and not waited for. *)
Fires(o, name, taken) ==
  /\ Gives(o, name, taken)
  /\ UNCHANGED <<stack, dataProc>>
  /\ name # "SetDataProc" /\ (name \in Fetches => o = "image" /\ ~taken)
  /\ abandoned' = IF taken
       THEN abandoned \cup {[id |-> Fresh, name |-> "TerminateCapture", why |-> "noWait"]}
       ELSE abandoned

(* Capabilities change at most. *)
Quiet ==
  /\ UNCHANGED <<given, stack, pending, finished, blocks, deliver, dataProc, sent, saved,
                 abandoned>>
  /\ "deliver" \in wild' => "deliver" \in wild

(* Every name is one of the commands. *)
LEMMA Names ==
  /\ "source" \in ObjectNames /\ "item" \in ObjectNames /\ "image" \in ObjectNames
  /\ Fetches \subseteq CommandNames /\ Insistent \subseteq CommandNames
  /\ Insistent \cap Fetches = {}
  /\ "Process" \in CommandNames \ MakesRefDeliver
  /\ "TerminateCapture" \in CommandNames \ MakesRefDeliver
  /\ \A name \in {"GetCapCount", "GetCapInfo", "EnumChildren", "Capability", "ResetDataProc"} :
       name \in Insistent \ MakesRefDeliver
  /\ "SetDataProc" \in Insistent
  /\ \A name : Takes(name) \subseteq BOOLEAN
BY DEF ObjectNames, Fetches, Insistent, CommandNames, MakesRefDeliver, Takes

(* The kinds of steps. *)
LEMMA Kinds ==
  ASSUME TypeOK, [Next]_vars
  PROVE  \/ Quiet \/ FetchedAtOnce \/ Finish \/ DataProc \/ DeleteGoesOn
         \/ \E o \in ObjectNames : Close(o)
         \/ \E o \in ObjectNames, name \in CommandNames, then \in Continuations : Calls(o, name, then)
         \/ \E o \in ObjectNames, name \in CommandNames, then \in Continuations, why \in Reasons :
              CallsNext(o, name, then, why)
         \/ \E why \in Reasons : Leaves(why)
         \/ \E o \in ObjectNames, name \in CommandNames, taken \in BOOLEAN : Fires(o, name, taken)
<1> DEFINE Called ==
             \E o \in ObjectNames, name \in CommandNames, then \in Continuations : Calls(o, name, then)
           CalledNext ==
             \E o \in ObjectNames, name \in CommandNames, then \in Continuations, why \in Reasons :
               CallsNext(o, name, then, why)
           Left == \E why \in Reasons : Leaves(why)
           Fired == \E o \in ObjectNames, name \in CommandNames, taken \in BOOLEAN :
                      Fires(o, name, taken)
<1>1. "return" \in Continuations /\ Continuations = {"return", "procs", "children"}
  BY DEF Continuations
<1>2. ASSUME NEW o \in ObjectNames, NEW name \in CommandNames \ MakesRefDeliver,
             NEW then \in Continuations, Orders(stack, o, name, then),
             UNCHANGED <<dataProc, abandoned>>
      PROVE  Called
  BY <1>2 DEF Calls, MakesRefDeliver
<1>3. CASE IssueProcess
  BY <1>1, <1>2, <1>3, Names DEF IssueProcess
<1>4. CASE TerminateCapture
  <2>1. PICK taken \in Takes("TerminateCapture") :
          Fires("source", "TerminateCapture", taken)
    BY <1>4, Names DEF TerminateCapture, Fires, MakesRefDeliver
  <2> QED
    BY <2>1, Names
<1>5. CASE WaitForDataProc
  <2>1. Calls("image", "SetDataProc", "return")
    BY <1>5 DEF WaitForDataProc, AtMenu, Calls, Fetches
  <2> QED
    BY <1>1, <2>1, Names
<1>6. ASSUME NEW name \in Fetches, Fetch(name) \/ NoDataProc(name) \/ NotFound("image", name)
      PROVE  Called \/ Fired
  <2>1. name \in CommandNames /\ name # "SetDataProc" /\ "image" \in ObjectNames
    BY Names DEF Fetches
  <2>2. CASE Fetch(name)
    <3>1. Calls("image", name, "return")
      BY <2>2 DEF Fetch, AtMenu, Calls, SetsDataProc
    <3> QED
      BY <1>1, <2>1, <3>1
  <2>3. CASE NoDataProc(name) \/ NotFound("image", name)
    <3>1. Fires("image", name, FALSE)
      BY <2>1, <2>3 DEF NoDataProc, NotFound, Fires
    <3> QED
      BY <2>1, <3>1
  <2> QED
    BY <1>6, <2>2, <2>3
<1>7. ASSUME NEW name \in {"Process", "TerminateCapture"}, NotFound("source", name) PROVE Fired
  <2>1. Fires("source", name, FALSE)
    BY <1>7, Names DEF NotFound, Fires, MakesRefDeliver
  <2> QED
    BY <2>1, Names
<1>8. ASSUME NEW o \in ObjectNames, UseCapability(o) \/ EnumChildrten(o) PROVE Called
  BY <1>1, <1>2, <1>8, Names DEF UseCapability, EnumChildrten
<1>9. CASE (\E o \in ObjectNames : WalkCapabilities(o)) \/ UNCHANGED vars
  BY <1>9 DEF WalkCapabilities, vars, Quiet
<1>10. ASSUME NEW o \in ObjectNames, NEW then \in Continuations,
              EnumCapabilities(o, then) \/ SetProc(o, then)
       PROVE  Called
  BY <1>2, <1>10, Names DEF EnumCapabilities, SetProc
<1>11. ASSUME NEW o \in ObjectNames, NEW then \in Continuations, EnumeratedAtOnce(o, then)
       PROVE  Quiet
  BY <1>11 DEF EnumeratedAtOnce, Quiet
<1>12. CASE DeleteWaits
  <2>1. Stops("refused") /\ "refused" \in Reasons
    BY <1>12 DEF DeleteWaits, Stops, Reasons
  <2>2. \E o \in ObjectNames, name \in {"Capability", "ResetDataProc"} :
          Orders(Below, o, name, "return")
    BY <1>12, Names DEF DeleteWaits
  <2> QED
    BY <1>1, <2>1, <2>2, Names DEF CallsNext
<1>13. ASSUME NEW failed \in BOOLEAN, stack # <<>>, IdleLoopEnds(failed), Forgets(Why(failed)),
              dataProc' \in {None, dataProc}
       PROVE  Stops(Why(failed)) /\ Why(failed) \in Reasons
  BY <1>13 DEF Stops, IdleLoopEnds, Why, Reasons
<1>14. ASSUME NEW failed \in BOOLEAN, Return(failed) PROVE Left
  <2>1. Stops(Why(failed)) /\ Why(failed) \in Reasons
    BY <1>13, <1>14 DEF Return, IdleLoopEnds, ResetsDataProc
  <2>2. Leaves(Why(failed))
    BY <1>14, <2>1 DEF Return, Leaves, FreedOnReturn
  <2> QED
    BY <2>1, <2>2
<1>15. ASSUME NEW failed \in BOOLEAN,
              \/ ReturnToSetProc(failed) \/ ReturnToEnumChildren(failed) \/ ReturnToReset(failed)
       PROVE  CalledNext
  <2>1. /\ stack # <<>> /\ IdleLoopEnds(failed) /\ Forgets(Why(failed)) /\ dataProc' = dataProc
    BY <1>15 DEF ReturnToSetProc, ReturnToEnumChildren, ReturnToReset, IdleLoopEnds
  <2>2. Stops(Why(failed)) /\ Why(failed) \in Reasons
    BY <1>13, <2>1
  <2>3. Top.on \in ObjectNames /\ Top.then \in Continuations
    BY <2>1, BelowPositions DEF Frames
  <2>4. \E o \in ObjectNames, name \in {"Capability", "EnumChildren", "ResetDataProc"},
           then \in Continuations : Orders(Below, o, name, then)
    BY <1>1, <1>15, <2>3, Names DEF ReturnToSetProc, ReturnToEnumChildren, ReturnToReset
  <2> QED
    BY <2>2, <2>4, Names DEF CallsNext
<1> HIDE DEF Called, CalledNext, Left, Fired
<1> QED
  BY <1>3, <1>4, <1>5, <1>6, <1>7, <1>8, <1>9, <1>10, <1>11, <1>12, <1>14, <1>15
  DEF Next, Called, CalledNext, Left, Fired

-----------------------------------------------------------------------------
(* Types.                                                                  *)

(* Giving a command takes the next number. *)
LEMMA GivesType ==
  ASSUME CommandsAssumption, TypeOK, NEW o \in ObjectNames, NEW name \in CommandNames,
         NEW taken, Gives(o, name, taken)
  PROVE  /\ Fresh \in Ids /\ Fresh = given + 1 /\ given \in Nat
         /\ given' \in 0 .. MaxCommands
         /\ pending' \in [ObjectNames -> Seq(Commands)]
         /\ blocks' \in SUBSET Ids
         /\ deliver' \in [Ids -> {None} \cup Seq(Parts)]
         /\ UNCHANGED <<finished, sent, saved, wild>>
<1>1. given \in Nat /\ MaxCommands \in Nat /\ given < MaxCommands /\ given' = given + 1
  BY DEF TypeOK, CommandsAssumption, Gives, Fresh
<1>2. Fresh \in Ids /\ Fresh = given + 1 /\ given' \in 0 .. MaxCommands
  BY <1>1 DEF Ids, Fresh
<1>3. [id |-> Fresh, name |-> name] \in Commands
  BY <1>2 DEF Commands
<1>4. pending' \in [ObjectNames -> Seq(Commands)]
  BY <1>3 DEF Gives, TypeOK
<1>5. blocks' \in SUBSET Ids
  BY <1>2 DEF Gives, TypeOK
<1>6. deliver' \in [Ids -> {None} \cup Seq(Parts)]
  BY <1>2 DEF Gives, TypeOK
<1> QED
  BY <1>1, <1>2, <1>4, <1>5, <1>6 DEF Gives

(* The frame of a function that waits. *)
FrameOf(o, name, then) == [cmd |-> Fresh, name |-> name, on |-> o, then |-> then]

(* A function that gives a command waits for it, on top of the others; or  *)
(* returns to them.                                                        *)
LEMMA OrdersType ==
  ASSUME CommandsAssumption, TypeOK, NEW o \in ObjectNames, NEW name \in CommandNames,
         NEW then \in Continuations, NEW q \in Seq(Frames), Orders(q, o, name, then)
  PROVE  \E taken \in Takes(name) :
           /\ Gives(o, name, taken)
           /\ FrameOf(o, name, then) \in Frames /\ stack' \in Seq(Frames)
           /\ \/ (taken \/ name \in Insistent) /\ stack' = Append(q, FrameOf(o, name, then))
              \/ ~ (taken \/ name \in Insistent) /\ stack' = q
<1>1. PICK taken \in Takes(name) :
        /\ Gives(o, name, taken)
        /\ stack' = IF taken \/ name \in Insistent THEN Append(q, FrameOf(o, name, then)) ELSE q
  BY DEF Orders, FrameOf
<1>2. FrameOf(o, name, then) \in Frames
  BY <1>1, GivesType DEF FrameOf, Frames
<1>3. Append(q, FrameOf(o, name, then)) \in Seq(Frames)
  BY <1>2, AppendPositions
<1> QED
  BY <1>1, <1>2, <1>3

LEMMA CompletionType ==
  ASSUME CommandsAssumption, TypeOK, NEW C \in SUBSET Commands, CompletionProc(C)
  PROVE  /\ finished' \in SUBSET Ids /\ blocks' \in SUBSET Ids
         /\ deliver' \in [Ids -> {None} \cup Seq(Parts)]
<1>1. IdsOf(C) \subseteq Ids
  BY DEF IdsOf, Commands
<1>2. Delivered(C) \in [Ids -> {None} \cup Seq(Parts)]
  BY DEF Delivered, TypeOK
<1> QED
  BY <1>1, <1>2 DEF CompletionProc, TypeOK

LEMMA PendingType ==
  ASSUME TypeOK, NEW o \in ObjectNames
  PROVE  /\ pending[o] \in Seq(Commands) /\ PendingCommands(o) \subseteq Commands
         /\ pending[o] # <<>> =>
              Head(pending[o]) \in Commands /\ Head(pending[o]).id \in Ids
              /\ Tail(pending[o]) \in Seq(Commands)
<1>1. pending[o] \in Seq(Commands)
  BY DEF TypeOK
<1>2. \A c \in Commands : c.id \in Ids
  BY DEF Commands
<1> QED
  BY <1>1, <1>2 DEF PendingCommands

(* What a function leaves behind has its name. *)
LEMMA StopsType ==
  ASSUME TypeOK, NEW why, Stops(why)
  PROVE  /\ abandoned' \in SUBSET [id : Ids, name : CommandNames, why : Reasons]
         /\ dataProc' \in Ids \cup {None}
         /\ stack # <<>> /\ Below \in Seq(Frames)
<1>1. Top.cmd \in Ids /\ Top.name \in CommandNames /\ Below \in Seq(Frames)
  BY BelowPositions DEF Frames, Stops
<1> QED
  BY <1>1 DEF Stops, Forgets, TypeOK

(* Arrays of capabilities are allocated and freed by those who enumerate,  *)
(* and by closing an object.                                               *)
LEMMA ArraysType ==
  ASSUME CommandsAssumption, TypeOK, [Next]_vars
  PROVE  /\ caps' \in [ObjectNames -> {"none", "full", "counted", "unfilled"}]
         /\ array' \in [ObjectNames -> Ids \cup {None}]
<1>1. ASSUME UNCHANGED <<caps, array>>
      PROVE  /\ caps' \in [ObjectNames -> {"none", "full", "counted", "unfilled"}]
             /\ array' \in [ObjectNames -> Ids \cup {None}]
  BY <1>1 DEF TypeOK
<1>2. ASSUME NEW o \in ObjectNames, NEW then \in Continuations, EnumCapabilities(o, then)
      PROVE  /\ caps' \in [ObjectNames -> {"none", "full", "counted", "unfilled"}]
             /\ array' \in [ObjectNames -> Ids \cup {None}]
  <2>1. PICK name \in {"GetCapCount", "GetCapInfo"} :
          /\ \E taken : Gives(o, name, taken)
          /\ caps' = [caps EXCEPT ![o] = IF name = "GetCapCount" THEN "none" ELSE "unfilled"]
          /\ array' = [array EXCEPT ![o] = IF name = "GetCapCount" THEN None ELSE Fresh]
    BY <1>2 DEF EnumCapabilities, Orders
  <2>2. name \in CommandNames
    BY Names
  <2>3. Fresh \in Ids
    BY <2>1, <2>2, GivesType
  <2> QED
    BY <2>1, <2>3 DEF TypeOK
<1>3. ASSUME NEW o \in ObjectNames, NEW then \in Continuations, EnumeratedAtOnce(o, then)
      PROVE  /\ caps' \in [ObjectNames -> {"none", "full", "counted", "unfilled"}]
             /\ array' \in [ObjectNames -> Ids \cup {None}]
  BY <1>3 DEF EnumeratedAtOnce, TypeOK
<1>4. ASSUME NEW o \in ObjectNames, Close(o)
      PROVE  /\ caps' \in [ObjectNames -> {"none", "full", "counted", "unfilled"}]
             /\ array' \in [ObjectNames -> Ids \cup {None}]
  BY <1>4 DEF Close, TypeOK
<1>5. CASE Finish
  BY <1>5 DEF Finish, Enumerated, TypeOK
<1>6. CASE \/ IssueProcess \/ TerminateCapture \/ WaitForDataProc \/ FetchedAtOnce \/ DataProc
           \/ DeleteGoesOn \/ DeleteWaits \/ UNCHANGED vars
           \/ \E name \in Fetches : Fetch(name) \/ NoDataProc(name) \/ NotFound("image", name)
           \/ \E name \in {"Process", "TerminateCapture"} : NotFound("source", name)
           \/ \E o \in ObjectNames : UseCapability(o) \/ WalkCapabilities(o) \/ EnumChildrten(o)
           \/ \E o \in ObjectNames, then \in Continuations : SetProc(o, then)
           \/ \E failed \in BOOLEAN : \/ Return(failed) \/ ReturnToSetProc(failed)
                                      \/ ReturnToEnumChildren(failed) \/ ReturnToReset(failed)
  <2>1. UNCHANGED <<caps, array>>
    BY <1>6 DEF IssueProcess, TerminateCapture, WaitForDataProc, FetchedAtOnce, DataProc,
       DeleteGoesOn, DeleteWaits, vars, Fetch, NoDataProc, NotFound, UseCapability,
       WalkCapabilities, EnumChildrten, SetProc, Return, ReturnToSetProc,
       ReturnToEnumChildren, ReturnToReset
  <2> QED
    BY <1>1, <2>1
<1> QED
  BY <1>2, <1>3, <1>4, <1>5, <1>6 DEF Next

(* Nothing but what is listed is ever used though it is freed or missing. *)
LEMMA WildType ==
  ASSUME TypeOK, [Next]_vars
  PROVE  wild' \in SUBSET {"deliver", "caps", "array"}
<1>1. \A o, name, taken : Gives(o, name, taken) => wild' = wild
  BY DEF Gives
<1>2. \A q, o, name, then : Orders(q, o, name, then) => wild' = wild
  BY <1>1 DEF Orders
<1>3. CASE Finish
  BY <1>3 DEF Finish, TypeOK
<1>4. CASE DataProc
  BY <1>4 DEF DataProc, TypeOK
<1>5. CASE \E o \in ObjectNames : WalkCapabilities(o)
  BY <1>5 DEF WalkCapabilities, TypeOK
<1>6. ASSUME wild' = wild PROVE wild' \in SUBSET {"deliver", "caps", "array"}
  BY <1>6 DEF TypeOK
<1>7. CASE \/ IssueProcess \/ TerminateCapture \/ WaitForDataProc \/ FetchedAtOnce
           \/ DeleteGoesOn \/ DeleteWaits \/ UNCHANGED vars
           \/ \E name \in Fetches : Fetch(name) \/ NoDataProc(name) \/ NotFound("image", name)
           \/ \E name \in {"Process", "TerminateCapture"} : NotFound("source", name)
           \/ \E o \in ObjectNames : UseCapability(o) \/ Close(o) \/ EnumChildrten(o)
  BY <1>1, <1>2, <1>6, <1>7 DEF IssueProcess, TerminateCapture, WaitForDataProc, FetchedAtOnce,
     DeleteGoesOn, DeleteWaits, vars, Fetch, NoDataProc, NotFound, UseCapability, Close,
     EnumChildrten
<1>8. CASE \/ \E o \in ObjectNames, then \in Continuations :
                EnumCapabilities(o, then) \/ EnumeratedAtOnce(o, then) \/ SetProc(o, then)
           \/ \E failed \in BOOLEAN : \/ Return(failed) \/ ReturnToSetProc(failed)
                                      \/ ReturnToEnumChildren(failed) \/ ReturnToReset(failed)
  BY <1>2, <1>6, <1>8 DEF EnumCapabilities, EnumeratedAtOnce, SetProc, Return,
     ReturnToSetProc, ReturnToEnumChildren, ReturnToReset
<1> QED
  BY <1>3, <1>4, <1>5, <1>7, <1>8 DEF Next

(* All but the arrays, and what is used though it is missing. *)
BlocksType ==
  /\ given \in 0 .. MaxCommands
  /\ stack \in Seq(Frames)
  /\ pending \in [ObjectNames -> Seq(Commands)]
  /\ finished \in SUBSET Ids /\ blocks \in SUBSET Ids
  /\ abandoned \in SUBSET [id : Ids, name : CommandNames, why : Reasons]
  /\ deliver \in [Ids -> {None} \cup Seq(Parts)]
  /\ dataProc \in Ids \cup {None}
  /\ sent \in [Ids -> 0 .. Chunks]
  /\ saved \in SUBSET Seq(Parts)

(* Commands that are given. *)
LEMMA GivingType ==
  ASSUME CommandsAssumption, TypeOK, NEW o \in ObjectNames, NEW name \in CommandNames,
         \/ \E then \in Continuations : Calls(o, name, then)
         \/ \E then \in Continuations, why \in Reasons : CallsNext(o, name, then, why)
         \/ \E taken \in BOOLEAN : Fires(o, name, taken)
  PROVE  BlocksType'
<1>1. ASSUME NEW taken, Gives(o, name, taken), stack' \in Seq(Frames),
             abandoned' \in SUBSET [id : Ids, name : CommandNames, why : Reasons],
             dataProc' \in Ids \cup {None}
      PROVE  BlocksType'
  BY <1>1, GivesType DEF BlocksType, TypeOK
<1>2. ASSUME NEW then \in Continuations, Calls(o, name, then) PROVE BlocksType'
  <2>1. stack \in Seq(Frames) /\ Orders(stack, o, name, then)
    BY <1>2 DEF Calls, TypeOK
  <2>2. PICK taken : Gives(o, name, taken) /\ stack' \in Seq(Frames)
    BY <2>1, OrdersType
  <2>3. dataProc' \in Ids \cup {None}
    BY <1>2, <2>2, GivesType DEF Calls, TypeOK
  <2> QED
    BY <1>1, <1>2, <2>2, <2>3 DEF Calls, TypeOK
<1>3. ASSUME NEW then \in Continuations, NEW why \in Reasons, CallsNext(o, name, then, why)
      PROVE  BlocksType'
  <2>1. Stops(why) /\ Orders(Below, o, name, then)
    BY <1>3 DEF CallsNext
  <2>2. PICK taken : Gives(o, name, taken) /\ stack' \in Seq(Frames)
    BY <2>1, StopsType, OrdersType
  <2> QED
    BY <1>1, <2>1, <2>2, StopsType
<1>4. ASSUME NEW taken \in BOOLEAN, Fires(o, name, taken) PROVE BlocksType'
  <2>1. Gives(o, name, taken) /\ UNCHANGED <<stack, dataProc>>
    BY <1>4 DEF Fires
  <2>2. [id |-> Fresh, name |-> "TerminateCapture", why |-> "noWait"]
          \in [id : Ids, name : CommandNames, why : Reasons]
    BY <2>1, GivesType, Names DEF Reasons
  <2>3. abandoned' \in SUBSET [id : Ids, name : CommandNames, why : Reasons]
    BY <1>4, <2>2 DEF Fires, TypeOK
  <2> QED
    BY <1>1, <2>1, <2>3 DEF TypeOK
<1> QED
  BY <1>2, <1>3, <1>4

(* An image that arrives at once. *)
LEMMA AtOnceType ==
  ASSUME CommandsAssumption, TypeOK, FetchedAtOnce
  PROVE  BlocksType'
<1>1. Fresh \in Ids /\ given' \in 0 .. MaxCommands
  <2>1. given < MaxCommands /\ given' = given + 1
    BY DEF FetchedAtOnce, Fresh
  <2>2. given \in Nat /\ MaxCommands \in Nat
    BY DEF TypeOK, CommandsAssumption
  <2> QED
    BY <2>1, <2>2 DEF Fresh, Ids
<1>2. sent' \in [Ids -> 0 .. Chunks] /\ finished' \in SUBSET Ids
  <2>1. sent' = [sent EXCEPT ![Fresh] = Chunks] /\ finished' = finished \cup {Fresh}
    BY DEF FetchedAtOnce
  <2>2. sent \in [Ids -> 0 .. Chunks] /\ finished \in SUBSET Ids
    BY DEF TypeOK
  <2>3. Chunks \in 0 .. Chunks
    BY DEF CommandsAssumption
  <2> QED
    BY <1>1, <2>1, <2>2, <2>3
<1>3. saved' \in SUBSET Seq(Parts)
  <2>1. \A n \in 1 .. Chunks : [cmd |-> Fresh, no |-> n] \in Parts
    BY <1>1 DEF Parts
  <2>2. [n \in 1 .. Chunks |-> [cmd |-> Fresh, no |-> n]] \in [1 .. Chunks -> Parts]
    BY <2>1
  <2>3. [n \in 1 .. Chunks |-> [cmd |-> Fresh, no |-> n]] \in Seq(Parts)
    BY <2>2, SeqDef DEF CommandsAssumption
  <2> QED
    BY <2>3 DEF FetchedAtOnce, TypeOK
<1>4. dataProc' \in Ids \cup {None}
  BY <1>1 DEF FetchedAtOnce
<1> QED
  BY <1>1, <1>2, <1>3, <1>4 DEF FetchedAtOnce, TypeOK, BlocksType

(* Commands that end. *)
LEMMA EndingType ==
  ASSUME CommandsAssumption, TypeOK, Finish \/ \E o \in ObjectNames : Close(o)
  PROVE  BlocksType'
<1>1. CASE Finish
  <2> DEFINE o == Top.on
             c == Head(pending[o])
  <2>1. o \in ObjectNames
    BY <1>1, BelowPositions DEF Finish, Waiting, Frames
  <2>2. /\ pending[o] # <<>> /\ CompletionProc({c})
        /\ pending' = [pending EXCEPT ![o] = Tail(@)]
        /\ dataProc' \in Redirected(c)
        /\ UNCHANGED <<given, stack, sent, saved, abandoned>>
    BY <1>1 DEF Finish
  <2>3. {c} \in SUBSET Commands /\ c.id \in Ids /\ Tail(pending[o]) \in Seq(Commands)
    BY <2>1, <2>2, PendingType
  <2> HIDE DEF o, c
  <2>4. /\ finished' \in SUBSET Ids /\ blocks' \in SUBSET Ids
        /\ deliver' \in [Ids -> {None} \cup Seq(Parts)]
    BY <2>2, <2>3, CompletionType
  <2>5. pending' \in [ObjectNames -> Seq(Commands)]
    BY <2>2, <2>3 DEF TypeOK
  <2>6. dataProc' \in Ids \cup {None}
    BY <2>2, <2>3 DEF Redirected, TypeOK
  <2> QED
    BY <2>2, <2>4, <2>5, <2>6 DEF TypeOK, BlocksType
<1>2. ASSUME NEW o \in ObjectNames, Close(o) PROVE BlocksType'
  <2> DEFINE C == UNION {PendingCommands(p) : p \in Under(o)}
  <2>1. Under(o) \subseteq ObjectNames
    BY DEF Under, ObjectNames
  <2>2. C \in SUBSET Commands
    BY <2>1, PendingType
  <2>3. /\ CompletionProc(C)
        /\ pending' = [p \in ObjectNames |-> IF p \in Under(o) THEN <<>> ELSE pending[p]]
        /\ dataProc' = None
        /\ UNCHANGED <<given, stack, sent, saved, abandoned>>
    BY <1>2 DEF Close
  <2>4. /\ finished' \in SUBSET Ids /\ blocks' \in SUBSET Ids
        /\ deliver' \in [Ids -> {None} \cup Seq(Parts)]
    BY <2>2, <2>3, CompletionType
  <2>5. pending' \in [ObjectNames -> Seq(Commands)]
    BY <2>3 DEF TypeOK
  <2> HIDE DEF C
  <2> QED
    BY <2>3, <2>4, <2>5 DEF TypeOK, BlocksType
<1> QED
  BY <1>1, <1>2

LEMMA DataProcType ==
  ASSUME CommandsAssumption, TypeOK, DataProc
  PROVE  BlocksType'
<1> DEFINE c == Head(pending["image"])
           part == [cmd |-> c.id, no |-> sent[c.id] + 1]
           buffer == Append(deliver[dataProc], part)
<1>1. /\ c.id \in Ids /\ sent[c.id] < Chunks /\ sent' = [sent EXCEPT ![c.id] = @ + 1]
      /\ dataProc \in Ids
      /\ IF deliver[dataProc] = None
         THEN UNCHANGED <<deliver, saved>>
         ELSE /\ deliver' = [deliver EXCEPT ![dataProc] =
                               IF Complete(buffer) THEN <<>> ELSE buffer]
              /\ saved' = IF Complete(buffer) THEN saved \cup {buffer} ELSE saved
      /\ UNCHANGED <<given, stack, pending, finished, blocks, dataProc, abandoned>>
  BY PendingType, Names DEF DataProc, TypeOK
<1> HIDE DEF c
<1>2. sent[c.id] \in 0 .. Chunks /\ Chunks \in Nat
  BY <1>1 DEF TypeOK, CommandsAssumption
<1>3. part \in Parts /\ sent' \in [Ids -> 0 .. Chunks]
  BY <1>1, <1>2 DEF Parts, TypeOK
<1>4. deliver[dataProc] # None => buffer \in Seq(Parts)
  BY <1>1, <1>3 DEF TypeOK
<1> HIDE DEF buffer, part
<1>5. deliver' \in [Ids -> {None} \cup Seq(Parts)] /\ saved' \in SUBSET Seq(Parts)
  <2>1. CASE deliver[dataProc] = None
    BY <1>1, <2>1 DEF TypeOK
  <2>2. CASE deliver[dataProc] # None
    <3>1. /\ buffer \in Seq(Parts) /\ <<>> \in Seq(Parts)
          /\ deliver' = [deliver EXCEPT ![dataProc] = IF Complete(buffer) THEN <<>> ELSE buffer]
          /\ saved' = IF Complete(buffer) THEN saved \cup {buffer} ELSE saved
      BY <1>1, <1>4, <2>2
    <3>2. CASE Complete(buffer)
      BY <3>1, <3>2 DEF TypeOK
    <3>3. CASE ~ Complete(buffer)
      BY <3>1, <3>3 DEF TypeOK
    <3> QED
      BY <3>2, <3>3
  <2> QED
    BY <2>1, <2>2
<1> QED
  BY <1>1, <1>3, <1>5 DEF TypeOK, BlocksType

LEMMA DeleteType ==
  ASSUME CommandsAssumption, TypeOK, DeleteGoesOn
  PROVE  BlocksType'
<1>1. /\ Stops("refused") /\ stack' = Below /\ UNCHANGED <<given, sent, saved>>
  BY DEF DeleteGoesOn, DeleteFailsEarly, DeleteFailsLate, DeleteSucceeds, Stops, Reasons
<1>2. /\ abandoned' \in SUBSET [id : Ids, name : CommandNames, why : Reasons]
      /\ stack' \in Seq(Frames) /\ dataProc' \in Ids \cup {None}
  BY <1>1, StopsType
<1>3. ASSUME NEW C \in SUBSET Commands, CompletionProc(C), NEW q \in Seq(Commands),
             pending' = [pending EXCEPT !["image"] = q]
      PROVE  BlocksType'
  BY <1>1, <1>2, <1>3, CompletionType DEF TypeOK, BlocksType
<1>4. ASSUME UNCHANGED <<pending, finished, blocks, deliver>>
      PROVE  BlocksType'
  BY <1>1, <1>2, <1>4 DEF TypeOK, BlocksType
<1>5. CASE DeleteFailsEarly \/ (DeleteFailsLate /\ pending["image"] = <<>>)
  BY <1>4, <1>5 DEF DeleteFailsEarly, DeleteFailsLate
<1>6. CASE DeleteFailsLate /\ pending["image"] # <<>>
  <2>1. {Head(pending["image"])} \in SUBSET Commands /\ Tail(pending["image"]) \in Seq(Commands)
    BY <1>6, PendingType, Names
  <2> QED
    BY <1>3, <1>6, <2>1 DEF DeleteFailsLate
<1>7. CASE DeleteSucceeds
  <2>1. PendingCommands("image") \in SUBSET Commands /\ <<>> \in Seq(Commands)
    BY PendingType, Names
  <2> QED
    BY <1>3, <1>7, <2>1 DEF DeleteSucceeds
<1> QED
  BY <1>5, <1>6, <1>7 DEF DeleteGoesOn

LEMMA TypeStep ==
  ASSUME CommandsAssumption, TypeOK, [Next]_vars
  PROVE  TypeOK'
<1>1. ASSUME Quiet PROVE BlocksType'
  BY <1>1 DEF Quiet, TypeOK, BlocksType
<1>2. ASSUME NEW why \in Reasons, Leaves(why) PROVE BlocksType'
  <2>1. Stops(why) /\ stack' = Below
        /\ UNCHANGED <<given, pending, finished, blocks, deliver, sent, saved>>
    BY <1>2 DEF Leaves
  <2> QED
    BY <2>1, StopsType DEF TypeOK, BlocksType
<1>3. BlocksType'
  BY <1>1, <1>2, Kinds, GivingType, AtOnceType, EndingType, DataProcType, DeleteType
<1> QED
  BY <1>3, ArraysType, WildType DEF BlocksType, TypeOK

(* Every variable keeps its type. *)
THEOREM TypeCorrect == Spec => []TypeOK
<1>1. CommandsAssumption /\ Init => TypeOK
  BY DEF Init, TypeOK, CommandsAssumption
<1>2. TypeOK /\ [Next]_vars => TypeOK'
  BY TypeStep, CommandsAssumption
<1> QED
  BY <1>1, <1>2, CommandsAssumption, PTL DEF Spec

-----------------------------------------------------------------------------
(* Blocks.                                                                 *)

(* A command that is still to be finished has its blocks, and a number     *)
(* that nothing else has.                                                  *)
Numbered ==
  /\ \A c \in finished : c <= given
  /\ dataProc # None => dataProc <= given
  /\ \A o \in ObjectNames : \A i \in DOMAIN pending[o] :
       /\ pending[o][i].id <= given
       /\ pending[o][i].id \notin finished
       /\ pending[o][i].id \in blocks
       /\ pending[o][i].name \in MakesRefDeliver
            => o = "image" /\ deliver[pending[o][i].id] # None
  /\ \A o, p \in ObjectNames : \A i \in DOMAIN pending[o], j \in DOMAIN pending[p] :
       pending[o][i].id = pending[p][j].id => o = p /\ i = j

(* While a fetch is still to be finished, DataProc is set to a block that  *)
(* is there, and that no command finished before the fetch takes away.     *)
LatestBlock ==
  \A i \in DOMAIN pending["image"] :
    pending["image"][i].name \in Fetches /\ dataProc # None =>
      /\ deliver[dataProc] # None
      /\ \A o \in ObjectNames : \A j \in DOMAIN pending[o] :
           pending[o][j].id = dataProc => o = "image" /\ j >= i

BlocksInv == Numbered /\ LatestBlock /\ "deliver" \notin wild

LEMMA PendingIds ==
  ASSUME TypeOK
  PROVE  \A p \in ObjectNames :
           /\ pending[p] \in Seq(Commands)
           /\ Len(pending[p]) \in Nat /\ DOMAIN pending[p] = 1 .. Len(pending[p])
           /\ \A i \in DOMAIN pending[p] : pending[p][i] \in Commands /\ pending[p][i].id \in Ids
<1>1. \A p \in ObjectNames : pending[p] \in Seq(Commands)
  BY DEF TypeOK
<1>2. \A p \in ObjectNames : \A i \in DOMAIN pending[p] : pending[p][i] \in Commands
  BY <1>1
<1>3. \A c \in Commands : c.id \in Ids
  BY DEF Commands
<1> QED
  BY <1>1, <1>2, <1>3

LEMMA QuietKeepsBlocks ==
  ASSUME BlocksInv, UNCHANGED <<given, pending, finished, blocks, deliver>>,
         dataProc' \in {None, dataProc}, "deliver" \in wild' => "deliver" \in wild
  PROVE  BlocksInv'
BY DEF BlocksInv, Numbered, LatestBlock

(* A command joins the end of a queue, with the highest number so far. *)
LEMMA GivingKeepsBlocks ==
  ASSUME CommandsAssumption, TypeOK, BlocksInv, NEW o \in ObjectNames, NEW name \in CommandNames,
         NEW taken \in BOOLEAN, Gives(o, name, taken),
         name \in MakesRefDeliver => o = "image",
         \/ dataProc' \in {None, dataProc} /\ (name \in Fetches => ~ taken)
         \/ dataProc' = Fresh /\ name \in Fetches
  PROVE  BlocksInv'
<1> DEFINE e == [id |-> Fresh, name |-> name]
<1>1. /\ Fresh \in Ids /\ Fresh = given + 1 /\ given \in Nat /\ given' = Fresh
      /\ UNCHANGED <<finished, wild>> /\ e \in Commands
      /\ e.id = Fresh /\ e.name = name
      /\ blocks' = blocks \cup {Fresh}
      /\ pending' = IF taken THEN [pending EXCEPT ![o] = Append(@, e)] ELSE pending
      /\ deliver' = IF name \in MakesRefDeliver THEN [deliver EXCEPT ![Fresh] = <<>>] ELSE deliver
  BY GivesType DEF Gives, Commands
<1>2. /\ \A p \in ObjectNames : pending[p] \in Seq(Commands)
      /\ \A p \in ObjectNames : \A i \in DOMAIN pending[p] :
           pending[p][i] \in Commands /\ pending[p][i].id \in Ids
  BY PendingIds
<1>3. \A c \in Ids : c \in Nat
  BY DEF Ids
<1>f. name \in Fetches => name \in MakesRefDeliver
  BY DEF MakesRefDeliver
<1> HIDE DEF e
<1>4. /\ <<>> # None
      /\ \A c \in Ids : c # Fresh => deliver'[c] = deliver[c]
      /\ name \in MakesRefDeliver => deliver'[Fresh] = <<>>
  <2>1. <<>> # None
    <3>1. <<>> \in Seq(Parts)
      OBVIOUS
    <3> QED
      BY <3>1 DEF CommandsAssumption
  <2>2. deliver \in [Ids -> {None} \cup Seq(Parts)]
    BY DEF TypeOK
  <2> QED
    BY <1>1, <2>1, <2>2
<1>5. ASSUME NEW p \in ObjectNames, NEW i \in DOMAIN pending'[p]
      PROVE  \/ /\ i \in DOMAIN pending[p] /\ pending'[p][i] = pending[p][i]
                /\ pending'[p][i].id <= given /\ pending'[p][i].id # Fresh
                /\ pending'[p][i].id \in Ids
             \/ /\ taken /\ p = o /\ i = Len(pending[o]) + 1 /\ pending'[p][i] = e
                /\ DOMAIN pending[o] = 1 .. Len(pending[o]) /\ Len(pending[o]) \in Nat
                /\ pending'[p][i].id = Fresh /\ pending'[p][i].name = name
  <2>1. \A j \in DOMAIN pending[p] :
          pending[p][j].id <= given /\ pending[p][j].id # Fresh /\ pending[p][j].id \in Ids
    BY <1>1, <1>2, <1>3 DEF BlocksInv, Numbered
  <2>2. CASE taken /\ p = o
    <3>1. pending'[o] = Append(pending[o], e)
      BY <1>1, <2>2 DEF TypeOK
    <3>2. /\ DOMAIN pending[o] = 1 .. Len(pending[o]) /\ Len(pending[o]) \in Nat
          /\ DOMAIN Append(pending[o], e) = 1 .. Len(pending[o]) + 1
          /\ \A k \in 1 .. Len(pending[o]) : Append(pending[o], e)[k] = pending[o][k]
          /\ Append(pending[o], e)[Len(pending[o]) + 1] = e
      BY <1>1, <1>2, AppendPositions
    <3>3. i \in 1 .. Len(pending[o]) \/ i = Len(pending[o]) + 1
      BY <2>2, <3>1, <3>2
    <3> QED
      BY <1>1, <2>1, <2>2, <3>1, <3>2, <3>3
  <2>3. CASE ~ (taken /\ p = o)
    <3>1. pending'[p] = pending[p]
      BY <1>1, <2>3 DEF TypeOK
    <3> QED
      BY <2>1, <3>1
  <2> QED
    BY <2>2, <2>3
<1>6. dataProc # None => dataProc \in Ids /\ dataProc # Fresh /\ dataProc <= given
  BY <1>1, <1>3 DEF BlocksInv, Numbered, TypeOK
<1>7. Fresh # None
  BY <1>1, <1>3 DEF CommandsAssumption
<1>8. Numbered'
  <2>1. /\ \A c \in finished' : c <= given'
        /\ dataProc' # None => dataProc' <= given'
    <3>1. \A c \in finished : c \in Nat /\ c <= given
      BY <1>3 DEF TypeOK, BlocksInv, Numbered
    <3>2. \A c \in finished' : c <= given'
      BY <1>1, <3>1
    <3>3. dataProc' # None => dataProc' <= given'
      <4>1. dataProc' = Fresh \/ dataProc' = dataProc \/ dataProc' = None
        OBVIOUS
      <4>2. dataProc # None => dataProc \in Nat /\ dataProc <= given
        BY <1>3, <1>6
      <4> QED
        BY <1>1, <4>1, <4>2
    <3> QED
      BY <3>2, <3>3
  <2>2. ASSUME NEW p \in ObjectNames, NEW i \in DOMAIN pending'[p]
        PROVE  /\ pending'[p][i].id <= given'
               /\ pending'[p][i].id \notin finished'
               /\ pending'[p][i].id \in blocks'
               /\ pending'[p][i].name \in MakesRefDeliver
                    => p = "image" /\ deliver'[pending'[p][i].id] # None
    <3>1. CASE i \in DOMAIN pending[p] /\ pending'[p][i] = pending[p][i]
               /\ pending'[p][i].id # Fresh /\ pending'[p][i].id \in Ids
      <4>1. LET c == pending[p][i] IN
              /\ c.id <= given /\ c.id \notin finished /\ c.id \in blocks
              /\ c.name \in MakesRefDeliver => p = "image" /\ deliver[c.id] # None
        BY <3>1 DEF BlocksInv, Numbered
      <4>a. \A n \in Nat : n <= given => n <= given'
        BY <1>1
      <4>b. pending[p][i].id \in Nat
        BY <1>3, <3>1
      <4>2. pending[p][i].id \in Nat /\ pending[p][i].id <= given'
        BY <4>1, <4>a, <4>b
      <4> QED
        BY <1>1, <1>4, <3>1, <4>1, <4>2
    <3>2. CASE p = o /\ pending'[p][i].id = Fresh /\ pending'[p][i].name = name
      <4>1. Fresh \notin finished
        BY <1>1, <1>3 DEF BlocksInv, Numbered
      <4> QED
        BY <1>1, <1>3, <1>4, <3>2, <4>1
    <3> QED
      BY <1>5, <3>1, <3>2
  <2>3. ASSUME NEW p \in ObjectNames, NEW r \in ObjectNames,
               NEW i \in DOMAIN pending'[p], NEW j \in DOMAIN pending'[r],
               pending'[p][i].id = pending'[r][j].id
        PROVE  p = r /\ i = j
    BY <1>5, <2>3 DEF BlocksInv, Numbered
  <2> QED
    BY <2>1, <2>2, <2>3 DEF Numbered
<1>9. LatestBlock'
  <2> SUFFICES ASSUME NEW i \in DOMAIN pending'["image"],
                      pending'["image"][i].name \in Fetches, dataProc' # None
               PROVE  /\ deliver'[dataProc'] # None
                      /\ \A p \in ObjectNames : \A j \in DOMAIN pending'[p] :
                           pending'[p][j].id = dataProc' => p = "image" /\ j >= i
    BY DEF LatestBlock
  <2>1. "image" \in ObjectNames
    BY DEF ObjectNames
  <2>2. CASE dataProc' = Fresh /\ name \in Fetches
    <3>1. ASSUME NEW p \in ObjectNames, NEW j \in DOMAIN pending'[p],
                 pending'[p][j].id = Fresh
          PROVE  p = "image" /\ j >= i
      <4>1. /\ p = "image" /\ j = Len(pending["image"]) + 1
            /\ DOMAIN pending["image"] = 1 .. Len(pending["image"])
            /\ Len(pending["image"]) \in Nat
        BY <1>5, <1>f, <2>2, <3>1
      <4>2. i \in DOMAIN pending["image"] \/ i = Len(pending["image"]) + 1
        BY <1>5, <2>1, <2>2, <1>f
      <4> QED
        BY <4>1, <4>2
    <3> QED
      BY <1>4, <1>f, <2>2, <3>1
  <2>3. CASE dataProc' = dataProc /\ (name \in Fetches => ~ taken)
    <3>1. i \in DOMAIN pending["image"] /\ pending'["image"][i] = pending["image"][i]
      BY <1>5, <2>1, <2>3
    <3>2. /\ deliver[dataProc] # None
          /\ \A p \in ObjectNames : \A j \in DOMAIN pending[p] :
               pending[p][j].id = dataProc => p = "image" /\ j >= i
      BY <2>3, <3>1 DEF BlocksInv, LatestBlock
    <3>3. dataProc \in Ids /\ dataProc # Fresh
      BY <1>6, <2>3
    <3>4. \A p \in ObjectNames : \A j \in DOMAIN pending'[p] :
            pending'[p][j].id = dataProc => p = "image" /\ j >= i
      BY <1>5, <3>2, <3>3
    <3> QED
      BY <1>4, <2>3, <3>2, <3>3, <3>4
  <2> QED
    BY <2>2, <2>3
<1> QED
  BY <1>1, <1>8, <1>9 DEF BlocksInv

(* The commands of C are counted, and lose their blocks. *)
LEMMA Counted ==
  ASSUME NEW C, CompletionProc(C)
  PROVE  /\ finished' = finished \cup IdsOf(C) /\ blocks' = blocks \ IdsOf(C)
         /\ \A d \in Ids : \/ deliver'[d] = deliver[d]
                           \/ d \in IdsOf(C) /\ \E c \in C : c.id = d /\ c.name \in Fetches
BY DEF CompletionProc, Delivered, IdsOf

(* What is left of a queue when the oldest of its commands is finished. *)
LEMMA QueueLeft ==
  ASSUME TypeOK, NEW o \in ObjectNames, pending[o] # <<>>, pending' = [pending EXCEPT ![o] = Tail(@)]
  PROVE  /\ Head(pending[o]) = pending[o][1] /\ 1 \in DOMAIN pending[o]
         /\ Head(pending[o]).id \in Ids
         /\ \A p \in ObjectNames : \A i \in DOMAIN pending'[p] :
              \/ /\ p = o /\ i \in Nat \ {0} /\ i + 1 \in DOMAIN pending[o]
                 /\ pending'[p][i] = pending[o][i + 1]
              \/ p # o /\ i \in DOMAIN pending[p] /\ pending'[p][i] = pending[p][i]
         /\ \A i \in DOMAIN pending[o] : i \in Nat \ {0}
         /\ \A i \in DOMAIN pending[o] \ {1} :
              i - 1 \in DOMAIN pending'[o] /\ pending'[o][i - 1] = pending[o][i]
         /\ \A p \in ObjectNames \ {o} : pending'[p] = pending[p]
<1>1. pending[o] \in Seq(Commands) /\ \A i \in DOMAIN pending[o] : pending[o][i].id \in Ids
  BY PendingIds
<1>2. /\ Head(pending[o]) = pending[o][1] /\ Len(pending[o]) \in Nat \ {0}
      /\ DOMAIN pending[o] = 1 .. Len(pending[o])
      /\ DOMAIN Tail(pending[o]) = 1 .. Len(pending[o]) - 1
      /\ \A i \in 1 .. Len(pending[o]) - 1 : Tail(pending[o])[i] = pending[o][i + 1]
  BY <1>1, TailPositions
<1>3. /\ pending'[o] = Tail(pending[o])
      /\ \A p \in ObjectNames \ {o} : pending'[p] = pending[p]
  BY DEF TypeOK
<1>4. 1 \in DOMAIN pending[o] /\ \A i \in DOMAIN pending[o] : i \in Nat \ {0}
  BY <1>2
<1>5. \A i \in DOMAIN pending'[o] :
        i \in Nat \ {0} /\ i + 1 \in DOMAIN pending[o] /\ pending'[o][i] = pending[o][i + 1]
  <2>1. \A i \in 1 .. Len(pending[o]) - 1 : i + 1 \in 1 .. Len(pending[o]) /\ i \in Nat \ {0}
    BY <1>2
  <2> QED
    BY <1>2, <1>3, <2>1
<1>6. \A i \in DOMAIN pending[o] \ {1} :
        i - 1 \in DOMAIN pending'[o] /\ pending'[o][i - 1] = pending[o][i]
  <2>1. \A i \in DOMAIN pending[o] \ {1} : i - 1 \in 1 .. Len(pending[o]) - 1 /\ i - 1 + 1 = i
    BY <1>2
  <2> QED
    BY <1>2, <1>3, <2>1
<1> QED
  BY <1>1, <1>2, <1>3, <1>4, <1>5, <1>6

(* The oldest command of an object is finished. *)
LEMMA FinishingKeepsBlocks ==
  ASSUME TypeOK, BlocksInv, NEW o \in ObjectNames, pending[o] # <<>>,
         CompletionProc({Head(pending[o])}),
         pending' = [pending EXCEPT ![o] = Tail(@)],
         dataProc' \in Redirected(Head(pending[o])) \cup {None}, given' = given,
         "deliver" \in wild' => "deliver" \in wild
  PROVE  BlocksInv'
<1> DEFINE c == Head(pending[o])
<1>1. /\ c = pending[o][1] /\ 1 \in DOMAIN pending[o] /\ c.id \in Ids
      /\ \A p \in ObjectNames : \A i \in DOMAIN pending'[p] :
           \/ /\ p = o /\ i \in Nat \ {0} /\ i + 1 \in DOMAIN pending[o]
              /\ pending'[p][i] = pending[o][i + 1]
           \/ p # o /\ i \in DOMAIN pending[p] /\ pending'[p][i] = pending[p][i]
  BY QueueLeft
<1>2. /\ finished' = finished \cup {c.id} /\ blocks' = blocks \ {c.id}
      /\ \A d \in Ids : d # c.id \/ c.name \notin Fetches => deliver'[d] = deliver[d]
  <2>1. IdsOf({c}) = {c.id}
    BY DEF IdsOf
  <2> HIDE DEF c
  <2> QED
    BY <2>1, Counted DEF c
<1>3. dataProc' \in {None, dataProc} \/ (dataProc' = c.id /\ c.name = "SetDataProc")
  BY DEF Redirected
<1> HIDE DEF c
(* What is still to be finished was, and is not the command just finished. *)
<1>4. \A p \in ObjectNames : \A i \in DOMAIN pending'[p] :
        LET k == IF p = o THEN i + 1 ELSE i IN
          /\ k \in DOMAIN pending[p] /\ pending'[p][i] = pending[p][k]
          /\ pending[p][k].id # c.id
  <2> SUFFICES ASSUME NEW p \in ObjectNames, NEW i \in DOMAIN pending'[p]
               PROVE  LET k == IF p = o THEN i + 1 ELSE i IN
                        /\ k \in DOMAIN pending[p] /\ pending'[p][i] = pending[p][k]
                        /\ pending[p][k].id # c.id
    OBVIOUS
  <2>1. CASE p = o
    <3>1. /\ i + 1 \in DOMAIN pending[p] /\ i \in Nat \ {0}
          /\ pending'[p][i] = pending[p][i + 1]
      BY <1>1, <2>1
    <3>2. i + 1 # 1
      BY <3>1
    <3>3. pending[p][i + 1].id # pending[p][1].id
      BY <1>1, <2>1, <3>1, <3>2 DEF BlocksInv, Numbered
    <3> QED
      BY <1>1, <2>1, <3>1, <3>3
  <2>2. CASE p # o
    <3>1. i \in DOMAIN pending[p] /\ pending'[p][i] = pending[p][i]
      BY <1>1, <2>2
    <3>2. pending[p][i].id # pending[o][1].id
      BY <1>1, <2>2, <3>1 DEF BlocksInv, Numbered
    <3> QED
      BY <1>1, <2>2, <3>1, <3>2
  <2> QED
    BY <2>1, <2>2
<1>5. \A p \in ObjectNames : \A i \in DOMAIN pending[p] : pending[p][i].id \in Ids
  BY PendingIds
<1>c. /\ c.id <= given
      /\ c.name = "SetDataProc" => deliver[c.id] # None
  BY <1>1 DEF BlocksInv, Numbered, MakesRefDeliver
<1>6. Numbered'
  <2>1. /\ \A d \in finished' : d <= given'
        /\ dataProc' # None => dataProc' <= given'
    BY <1>2, <1>3, <1>c DEF BlocksInv, Numbered
  <2>2. ASSUME NEW p \in ObjectNames, NEW i \in DOMAIN pending'[p]
        PROVE  /\ pending'[p][i].id <= given'
               /\ pending'[p][i].id \notin finished'
               /\ pending'[p][i].id \in blocks'
               /\ pending'[p][i].name \in MakesRefDeliver
                    => p = "image" /\ deliver'[pending'[p][i].id] # None
    BY <1>2, <1>4, <1>5 DEF BlocksInv, Numbered
  <2>3. ASSUME NEW p \in ObjectNames, NEW r \in ObjectNames,
               NEW i \in DOMAIN pending'[p], NEW j \in DOMAIN pending'[r],
               pending'[p][i].id = pending'[r][j].id
        PROVE  p = r /\ i = j
    <3>1. p = r /\ (IF p = o THEN i + 1 ELSE i) = (IF r = o THEN j + 1 ELSE j)
      BY <1>4, <2>3 DEF BlocksInv, Numbered
    <3>2. p = o => i \in Nat /\ j \in Nat
      BY <1>1, <3>1
    <3> QED
      BY <3>1, <3>2
  <2> QED
    BY <2>1, <2>2, <2>3 DEF Numbered
<1>7. LatestBlock'
  <2> SUFFICES ASSUME NEW i \in DOMAIN pending'["image"],
                      pending'["image"][i].name \in Fetches, dataProc' # None
               PROVE  /\ deliver'[dataProc'] # None
                      /\ \A p \in ObjectNames : \A j \in DOMAIN pending'[p] :
                           pending'[p][j].id = dataProc' => p = "image" /\ j >= i
    BY DEF LatestBlock
  <2> DEFINE k == IF "image" = o THEN i + 1 ELSE i
  <2>1. k \in DOMAIN pending["image"] /\ pending["image"][k].name \in Fetches
    BY <1>4 DEF ObjectNames
  <2>a. CASE dataProc' = c.id /\ c.name = "SetDataProc"
    BY <1>1, <1>2, <1>4, <1>c, <2>a DEF Fetches
  <2>b. CASE dataProc' = dataProc
    <3>2. /\ deliver[dataProc] # None
          /\ \A p \in ObjectNames : \A j \in DOMAIN pending[p] :
               pending[p][j].id = dataProc => p = "image" /\ j >= k
      BY <2>1, <2>b DEF BlocksInv, LatestBlock
    <3>3. dataProc # c.id
      <4>1. c.id = dataProc => o = "image" /\ 1 >= k
        BY <1>1, <3>2
      <4>2. o = "image" => i \in Nat \ {0}
        BY <1>1
      <4> QED
        BY <4>1, <4>2
    <3>4. dataProc \in Ids
      BY <2>b DEF TypeOK
    <3>5. ASSUME NEW p \in ObjectNames, NEW j \in DOMAIN pending'[p],
                 pending'[p][j].id = dataProc
          PROVE  p = "image" /\ j >= i
      <4>1. p = "image" /\ (IF p = o THEN j + 1 ELSE j) >= k
        <5>1. CASE p = o
          BY <1>4, <3>2, <3>5, <5>1
        <5>2. CASE p # o
          BY <1>4, <3>2, <3>5, <5>2
        <5> QED
          BY <5>1, <5>2
      <4>2. o = "image" => i \in Nat /\ j \in Nat
        BY <1>1, <4>1
      <4> QED
        BY <4>1, <4>2
    <3> QED
      BY <1>2, <2>b, <3>2, <3>3, <3>4, <3>5
  <2> QED
    BY <1>3, <2>a, <2>b
<1> QED
  BY <1>6, <1>7 DEF BlocksInv

(* All commands of some objects are finished, the image's among them. *)
LEMMA ClosingKeepsBlocks ==
  ASSUME TypeOK, BlocksInv, NEW S \in SUBSET ObjectNames, "image" \in S,
         CompletionProc(UNION {PendingCommands(p) : p \in S}),
         pending' = [p \in ObjectNames |-> IF p \in S THEN <<>> ELSE pending[p]],
         dataProc' = None, UNCHANGED <<given, wild>>
  PROVE  BlocksInv'
<1> DEFINE C == UNION {PendingCommands(p) : p \in S}
<1>1. \A c \in IdsOf(C) : \E p \in S : \E i \in DOMAIN pending[p] : c = pending[p][i].id
  <2>1. \A p \in S : pending[p] \in Seq(Commands)
    BY DEF TypeOK
  <2> QED
    BY <2>1 DEF PendingCommands, IdsOf
<1> HIDE DEF C
<1>2. /\ finished' = finished \cup IdsOf(C) /\ blocks' = blocks \ IdsOf(C)
      /\ \A d \in Ids : deliver'[d] = deliver[d] \/ d \in IdsOf(C)
  BY Counted DEF C
<1>3. \A p \in ObjectNames : \A i \in DOMAIN pending'[p] :
        /\ p \notin S /\ pending'[p] = pending[p] /\ i \in DOMAIN pending[p]
        /\ pending[p][i].id \notin IdsOf(C)
  BY <1>1 DEF BlocksInv, Numbered
<1>4. \A p \in ObjectNames : \A i \in DOMAIN pending[p] : pending[p][i].id \in Ids
  BY PendingIds
<1>5. Numbered'
  <2>1. \A d \in finished' : d <= given'
    BY <1>1, <1>2 DEF BlocksInv, Numbered
  <2>2. ASSUME NEW p \in ObjectNames, NEW i \in DOMAIN pending'[p]
        PROVE  /\ pending'[p][i].id <= given'
               /\ pending'[p][i].id \notin finished'
               /\ pending'[p][i].id \in blocks'
               /\ pending'[p][i].name \in MakesRefDeliver
                    => p = "image" /\ deliver'[pending'[p][i].id] # None
    BY <1>2, <1>3, <1>4 DEF BlocksInv, Numbered
  <2>3. ASSUME NEW p \in ObjectNames, NEW r \in ObjectNames,
               NEW i \in DOMAIN pending'[p], NEW j \in DOMAIN pending'[r],
               pending'[p][i].id = pending'[r][j].id
        PROVE  p = r /\ i = j
    BY <1>3, <2>3 DEF BlocksInv, Numbered
  <2> QED
    BY <2>1, <2>2, <2>3 DEF Numbered
<1>6. LatestBlock'
  BY DEF LatestBlock
<1> QED
  BY <1>5, <1>6 DEF BlocksInv

(* A part is delivered: DataProc finds the block it was set to. *)
LEMMA DeliveringKeepsBlocks ==
  ASSUME CommandsAssumption, TypeOK, BlocksInv, DataProc
  PROVE  BlocksInv'
<1> DEFINE c == Head(pending["image"])
           part == [cmd |-> c.id, no |-> sent[c.id] + 1]
           buffer == Append(deliver[dataProc], part)
<1>1. /\ pending["image"] # <<>> /\ dataProc # None /\ c.name \in Fetches
      /\ sent[c.id] < Chunks
      /\ IF deliver[dataProc] = None
         THEN wild' = wild \cup {"deliver"} /\ UNCHANGED <<deliver, saved>>
         ELSE /\ wild' = wild
              /\ deliver' = [deliver EXCEPT ![dataProc] =
                               IF Complete(buffer) THEN <<>> ELSE buffer]
              /\ saved' = IF Complete(buffer) THEN saved \cup {buffer} ELSE saved
      /\ UNCHANGED <<given, stack, pending, finished, blocks, dataProc>>
  BY DEF DataProc
<1>2. pending["image"] \in Seq(Commands) /\ "image" \in ObjectNames
  BY PendingIds DEF ObjectNames
<1>3. c = pending["image"][1] /\ 1 \in DOMAIN pending["image"] /\ c \in Commands
  BY <1>1, <1>2, TailPositions
<1>4. deliver[dataProc] # None
  BY <1>1, <1>3 DEF BlocksInv, LatestBlock
<1>5. deliver[dataProc] \in Seq(Parts) /\ dataProc \in Ids
  BY <1>1, <1>4 DEF TypeOK
<1>6. part \in Parts
  <2>1. c.id \in Ids
    BY <1>3 DEF Commands
  <2>2. sent[c.id] \in Nat /\ Chunks \in Nat
    BY <2>1 DEF TypeOK, CommandsAssumption
  <2> QED
    BY <1>1, <2>1, <2>2 DEF Parts
<1> HIDE DEF c, part
<1>7. buffer \in Seq(Parts) /\ <<>> \in Seq(Parts)
  BY <1>5, <1>6
<1> HIDE DEF buffer
<1>8. /\ \A d \in Ids : deliver'[d] = None => deliver[d] = None
      /\ UNCHANGED wild
  <2>1. deliver' = [deliver EXCEPT ![dataProc] = IF Complete(buffer) THEN <<>> ELSE buffer]
        /\ wild' = wild
    BY <1>1, <1>4
  <2>2. (IF Complete(buffer) THEN <<>> ELSE buffer) # None
    BY <1>7 DEF CommandsAssumption
  <2> QED
    BY <2>1, <2>2 DEF TypeOK
<1>9. \A p \in ObjectNames : \A i \in DOMAIN pending[p] : pending[p][i].id \in Ids
  BY PendingIds
<1>10. Numbered'
  BY <1>1, <1>8, <1>9 DEF BlocksInv, Numbered
<1>11. LatestBlock'
  BY <1>1, <1>5, <1>8 DEF BlocksInv, LatestBlock
<1> QED
  BY <1>8, <1>10, <1>11 DEF BlocksInv

(* A picture that arrives inside Acquire takes a number of its own. *)
LEMMA FetchingAtOnceKeepsBlocks ==
  ASSUME TypeOK, BlocksInv, FetchedAtOnce
  PROVE  BlocksInv'
<1>1. /\ pending["image"] = <<>> /\ given' = Fresh /\ finished' = finished \cup {Fresh}
      /\ dataProc' \in {None, Fresh}
      /\ UNCHANGED <<pending, blocks, deliver, wild>>
  BY DEF FetchedAtOnce
<1>2. Fresh = given + 1 /\ given \in Nat
  BY DEF Fresh, TypeOK
<1>3. \A p \in ObjectNames : \A i \in DOMAIN pending[p] : pending[p][i].id \in Ids
  BY PendingIds
<1>4. \A c \in Ids : c \in Nat
  BY DEF Ids
<1>5. \A c \in Ids : c <= given => c <= given' /\ c # Fresh
  BY <1>1, <1>2, <1>4
<1>6. \A c \in finished : c \in Ids
  BY DEF TypeOK
<1>7. Fresh <= given'
  BY <1>1, <1>2
<1>8. Numbered'
  BY <1>1, <1>3, <1>5, <1>6, <1>7 DEF BlocksInv, Numbered
<1>9. LatestBlock'
  BY <1>1 DEF LatestBlock
<1> QED
  BY <1>1, <1>8, <1>9 DEF BlocksInv

LEMMA DeletingKeepsBlocks ==
  ASSUME TypeOK, BlocksInv, DeleteGoesOn
  PROVE  BlocksInv'
<1>1. UNCHANGED <<given, wild>> /\ "image" \in ObjectNames
  BY DEF DeleteGoesOn, ObjectNames
<1>2. CASE DeleteFailsEarly
  BY <1>1, <1>2, QuietKeepsBlocks DEF DeleteFailsEarly
<1>3. CASE DeleteFailsLate /\ pending["image"] = <<>>
  BY <1>1, <1>3, QuietKeepsBlocks DEF DeleteFailsLate
<1>4. CASE DeleteFailsLate /\ pending["image"] # <<>>
  <2>1. /\ CompletionProc({Head(pending["image"])})
        /\ pending' = [pending EXCEPT !["image"] = Tail(@)]
        /\ dataProc' \in {None, dataProc}
    BY <1>4 DEF DeleteFailsLate
  <2>2. dataProc' \in Redirected(Head(pending["image"])) \cup {None}
    BY <2>1 DEF Redirected
  <2> QED
    BY <1>1, <1>4, <2>1, <2>2, FinishingKeepsBlocks
<1>5. CASE DeleteSucceeds
  <2> DEFINE S == {"image"}
  <2>1. S \in SUBSET ObjectNames /\ "image" \in S
    BY <1>1
  <2>2. PendingCommands("image") = UNION {PendingCommands(p) : p \in S}
    OBVIOUS
  <2>3. CompletionProc(UNION {PendingCommands(p) : p \in S})
    BY <1>5, <2>2 DEF DeleteSucceeds
  <2>4. pending' = [p \in ObjectNames |-> IF p \in S THEN <<>> ELSE pending[p]]
    BY <1>5 DEF DeleteSucceeds, TypeOK
  <2>5. dataProc' = None
    BY <1>5 DEF DeleteSucceeds
  <2> HIDE DEF S
  <2> QED
    BY <1>1, <2>1, <2>3, <2>4, <2>5, ClosingKeepsBlocks
<1> QED
  BY <1>2, <1>3, <1>4, <1>5 DEF DeleteGoesOn

(* The function that gives a command makes it, whoever waits. *)
LEMMA OrderingKeepsBlocks ==
  ASSUME CommandsAssumption, TypeOK, BlocksInv, NEW o \in ObjectNames, NEW name \in CommandNames,
         \/ \E then \in Continuations : Calls(o, name, then)
         \/ \E then \in Continuations, why \in Reasons : CallsNext(o, name, then, why)
         \/ \E taken \in BOOLEAN : Fires(o, name, taken)
  PROVE  BlocksInv'
<1>1. ASSUME NEW then \in Continuations, Calls(o, name, then) PROVE BlocksInv'
  <2>1. PICK taken \in BOOLEAN : Gives(o, name, taken)
    BY <1>1, Names DEF Calls, Orders
  <2>2. /\ name \in MakesRefDeliver => o = "image"
        /\ dataProc' = IF name \in Fetches THEN Fresh ELSE dataProc
    BY <1>1 DEF Calls
  <2> QED
    BY <2>1, <2>2, GivingKeepsBlocks
<1>2. ASSUME NEW then \in Continuations, NEW why \in Reasons, CallsNext(o, name, then, why)
      PROVE  BlocksInv'
  <2>1. PICK taken \in BOOLEAN : Gives(o, name, taken)
    BY <1>2, Names DEF CallsNext, Orders
  <2>2. name \notin MakesRefDeliver /\ name \notin Fetches /\ dataProc' \in {None, dataProc}
    BY <1>2, Names DEF CallsNext, Stops, MakesRefDeliver
  <2> QED
    BY <2>1, <2>2, GivingKeepsBlocks
<1>3. ASSUME NEW taken \in BOOLEAN, Fires(o, name, taken) PROVE BlocksInv'
  BY <1>3, GivingKeepsBlocks DEF Fires, MakesRefDeliver
<1> QED
  BY <1>1, <1>2, <1>3

LEMMA BlocksStep ==
  ASSUME CommandsAssumption, TypeOK, BlocksInv, [Next]_vars
  PROVE  BlocksInv'
<1>1. CASE Quiet \/ \E why \in Reasons : Leaves(why)
  BY <1>1, QuietKeepsBlocks DEF Quiet, Leaves, Stops
<1>2. ASSUME NEW o \in ObjectNames, Close(o) PROVE BlocksInv'
  <2>1. Under(o) \in SUBSET ObjectNames /\ "image" \in Under(o)
    BY DEF Under, ObjectNames
  <2> QED
    BY <1>2, <2>1, ClosingKeepsBlocks DEF Close
<1>3. CASE Finish
  <2>1. Top.on \in ObjectNames
    BY <1>3, BelowPositions DEF Finish, Waiting, Frames
  <2>2. /\ pending[Top.on] # <<>> /\ CompletionProc({Head(pending[Top.on])})
        /\ pending' = [pending EXCEPT ![Top.on] = Tail(@)]
        /\ dataProc' \in Redirected(Head(pending[Top.on])) /\ given' = given
        /\ "deliver" \in wild' => "deliver" \in wild
    BY <1>3 DEF Finish
  <2> QED
    BY <2>1, <2>2, FinishingKeepsBlocks
<1> QED
  BY <1>1, <1>2, <1>3, Kinds, OrderingKeepsBlocks, FetchingAtOnceKeepsBlocks,
     DeliveringKeepsBlocks, DeletingKeepsBlocks

LEMMA BlocksHold == Spec => []BlocksInv
<1>1. CommandsAssumption /\ Init => BlocksInv
  BY DEF Init, BlocksInv, Numbered, LatestBlock
<1>2. TypeOK /\ BlocksInv /\ [Next]_vars => BlocksInv'
  BY BlocksStep, CommandsAssumption
<1> QED
  BY <1>1, <1>2, TypeCorrect, CommandsAssumption, PTL DEF Spec

(* Whatever is refused, aborted, delayed or closed, CompletionProc frees   *)
(* blocks that are there, and DataProc writes into a RefDeliver that is    *)
(* there, although nothing resets it when Acquire fails, and a CapSet of   *)
(* DataProc may take effect after the function that made it has failed.    *)
THEOREM BlocksStayLive == Spec => []BlocksAreLive
<1>1. TypeOK /\ BlocksInv => BlocksAreLive
  <2> SUFFICES ASSUME TypeOK, BlocksInv PROVE BlocksAreLive
    OBVIOUS
  <2>1. \A o \in ObjectNames : \A c \in PendingCommands(o) :
          \E i \in DOMAIN pending[o] : c = pending[o][i]
    BY PendingIds DEF PendingCommands
  <2> QED
    BY <2>1 DEF BlocksAreLive, BlocksInv, Numbered, MakesRefDeliver
<1> QED
  BY <1>1, TypeCorrect, BlocksHold, PTL

-----------------------------------------------------------------------------
(* Functions and the commands they wait for.                               *)

(* Only a failure, or TerminateCapture, leaves a command behind. *)
LeftInv == \A a \in abandoned : a.why = "noWait" => a.name = "TerminateCapture"

(* Counted commands stay counted. *)
LEMMA FinishedStays ==
  ASSUME [Next]_vars, TypeOK
  PROVE  finished \subseteq finished'
<1>1. \A C : CompletionProc(C) => finished \subseteq finished'
  BY DEF CompletionProc
<1>2. \A o, name, taken : Gives(o, name, taken) => finished' = finished
  BY DEF Gives
<1>3. \A q, o, name, then : Orders(q, o, name, then) => finished' = finished
  BY <1>2 DEF Orders
<1>4. CASE DeleteGoesOn
  BY <1>1, <1>4 DEF DeleteGoesOn, DeleteFailsEarly, DeleteFailsLate, DeleteSucceeds
<1>5. CASE FetchedAtOnce \/ Finish \/ DataProc \/ \E o \in ObjectNames : Close(o)
  BY <1>1, <1>5 DEF FetchedAtOnce, Finish, DataProc, Close
<1> QED
  BY <1>2, <1>3, <1>4, <1>5, Kinds DEF Quiet, Calls, CallsNext, Leaves, Fires

LEMMA LeftStep ==
  ASSUME TypeOK, LeftInv, [Next]_vars
  PROVE  LeftInv'
<1>1. ASSUME NEW why, Forgets(why), why # "noWait" \/ Top.cmd \in finished' PROVE LeftInv'
  BY <1>1 DEF Forgets, LeftInv
<1>2. ASSUME UNCHANGED abandoned PROVE LeftInv'
  BY <1>2 DEF LeftInv
<1>3. ASSUME NEW why \in Reasons, Stops(why) PROVE LeftInv'
  <2>1. Forgets(why) /\ (why # "noWait" \/ Top.cmd \in finished')
    BY <1>3, FinishedStays DEF Stops
  <2> QED
    BY <1>1, <2>1
<1>4. CASE DeleteGoesOn
  BY <1>1, <1>4 DEF DeleteGoesOn
<1>5. ASSUME NEW o \in ObjectNames, NEW name \in CommandNames, NEW taken \in BOOLEAN,
             Fires(o, name, taken)
      PROVE  LeftInv'
  BY <1>5 DEF Fires, LeftInv
<1>6. CASE Quiet \/ FetchedAtOnce \/ Finish \/ DataProc \/ \E o \in ObjectNames : Close(o)
  BY <1>2, <1>6 DEF Quiet, FetchedAtOnce, Finish, DataProc, Close
<1> QED
  BY <1>2, <1>3, <1>4, <1>5, <1>6, Kinds DEF Calls, CallsNext, Leaves

(* The command is finished, or will be, or was not taken and is waited for *)
(* all the same: now, and after a step.                                    *)
Insisted(f) == f.name \in Refused \cap Insistent
Expected(f) ==
  \/ f.cmd \in finished \/ Insisted(f)
  \/ \E n \in DOMAIN pending[f.on] : pending[f.on][n].id = f.cmd
StillExpected(f) ==
  \/ f.cmd \in finished' \/ Insisted(f)
  \/ \E n \in DOMAIN pending'[f.on] : pending'[f.on][n].id = f.cmd

WaitInv == \A k \in DOMAIN stack : Expected(stack[k])

(* Commands leave the queues only by being counted. *)
Conserved ==
  /\ finished \subseteq finished'
  /\ \A o \in ObjectNames : \A n \in DOMAIN pending[o] :
       \/ pending[o][n].id \in finished'
       \/ \E m \in DOMAIN pending'[o] : pending'[o][m] = pending[o][n]

LEMMA NothingMoves == UNCHANGED <<finished, pending>> => Conserved
  BY DEF Conserved

LEMMA ExpectedStays ==
  ASSUME Conserved, NEW f \in Frames, Expected(f)
  PROVE  StillExpected(f)
<1>1. f.on \in ObjectNames
  BY DEF Frames
<1>2. CASE f.cmd \in finished \/ Insisted(f)
  BY <1>2 DEF Conserved, StillExpected
<1>3. ASSUME NEW n \in DOMAIN pending[f.on], pending[f.on][n].id = f.cmd
      PROVE  StillExpected(f)
  <2>1. \/ pending[f.on][n].id \in finished'
        \/ \E m \in DOMAIN pending'[f.on] : pending'[f.on][m] = pending[f.on][n]
    BY <1>1 DEF Conserved
  <2> QED
    BY <1>3, <2>1 DEF StillExpected
<1> QED
  BY <1>2, <1>3 DEF Expected

LEMMA WaitKept ==
  ASSUME TypeOK, WaitInv, Conserved,
         \A k \in DOMAIN stack' : \/ \E j \in DOMAIN stack : stack'[k] = stack[j]
                                  \/ StillExpected(stack'[k])
  PROVE  WaitInv'
<1>1. \A j \in DOMAIN stack : stack[j] \in Frames
  BY DEF TypeOK
<1>2. \A j \in DOMAIN stack : StillExpected(stack[j])
  BY <1>1, ExpectedStays DEF WaitInv
<1>3. \A k \in DOMAIN stack' : StillExpected(stack'[k])
  BY <1>2
<1> QED
  BY <1>3 DEF WaitInv, Expected, StillExpected, Insisted

LEMMA GivingConserves ==
  ASSUME CommandsAssumption, TypeOK, NEW o \in ObjectNames, NEW name \in CommandNames,
         NEW taken \in BOOLEAN, Gives(o, name, taken)
  PROVE  /\ Conserved
         /\ taken => \E n \in DOMAIN pending'[o] : pending'[o][n].id = Fresh
<1> DEFINE e == [id |-> Fresh, name |-> name]
<1>1. /\ Fresh \in Ids /\ UNCHANGED finished
      /\ pending' = IF taken THEN [pending EXCEPT ![o] = Append(@, e)] ELSE pending
      /\ e \in Commands /\ e.id = Fresh
  BY GivesType DEF Gives, Commands
<1> HIDE DEF e
<1>2. CASE taken
  <2>1. /\ pending'[o] = Append(pending[o], e)
        /\ \A p \in ObjectNames \ {o} : pending'[p] = pending[p]
    BY <1>1, <1>2 DEF TypeOK
  <2>2. pending[o] \in Seq(Commands)
    BY DEF TypeOK
  <2>3. /\ Len(pending[o]) \in Nat /\ DOMAIN pending[o] = 1 .. Len(pending[o])
        /\ DOMAIN pending'[o] = 1 .. Len(pending[o]) + 1
        /\ \A n \in 1 .. Len(pending[o]) : pending'[o][n] = pending[o][n]
        /\ pending'[o][Len(pending[o]) + 1] = e
    BY <1>1, <2>1, <2>2, AppendPositions
  <2>4. /\ \A n \in DOMAIN pending[o] :
             n \in DOMAIN pending'[o] /\ pending'[o][n] = pending[o][n]
        /\ Len(pending[o]) + 1 \in DOMAIN pending'[o]
    BY <2>3
  <2> QED
    BY <1>1, <2>1, <2>3, <2>4 DEF Conserved
<1>3. CASE ~ taken
  <2>1. pending' = pending
    BY <1>1, <1>3
  <2> QED
    BY <1>1, <1>3, <2>1, NothingMoves
<1> QED
  BY <1>2, <1>3

(* Of the functions that wait, those below the one that gives the command  *)
(* stay as they were, and it waits for what is to come, or insists.        *)
LEMMA OrderingKeepsWaits ==
  ASSUME CommandsAssumption, TypeOK, WaitInv, NEW o \in ObjectNames, NEW name \in CommandNames,
         NEW then \in Continuations, NEW q \in Seq(Frames), Orders(q, o, name, then),
         \A i \in DOMAIN q : i \in DOMAIN stack /\ q[i] = stack[i]
  PROVE  WaitInv'
<1> DEFINE f == FrameOf(o, name, then)
<1>1. PICK taken \in Takes(name) :
        /\ Gives(o, name, taken) /\ f \in Frames
        /\ \/ (taken \/ name \in Insistent) /\ stack' = Append(q, f)
           \/ ~ (taken \/ name \in Insistent) /\ stack' = q
  BY OrdersType
<1>2. taken \in BOOLEAN /\ (taken \/ name \in Refused)
  BY DEF Takes
<1>3. /\ Conserved
      /\ taken => \E n \in DOMAIN pending'[o] : pending'[o][n].id = Fresh
  BY <1>1, <1>2, GivingConserves
<1>4. f.cmd = Fresh /\ f.name = name /\ f.on = o
  BY DEF FrameOf
<1> HIDE DEF f
<1>5. CASE (taken \/ name \in Insistent) /\ stack' = Append(q, f)
  <2>1. StillExpected(f)
    BY <1>2, <1>3, <1>4, <1>5 DEF StillExpected, Insisted
  <2>2. /\ Len(q) \in Nat /\ DOMAIN q = 1 .. Len(q) /\ DOMAIN stack' = 1 .. Len(q) + 1
        /\ \A i \in 1 .. Len(q) : stack'[i] = q[i]
        /\ stack'[Len(q) + 1] = f
    BY <1>1, <1>5, AppendPositions
  <2>3. \A k \in DOMAIN stack' : k \in 1 .. Len(q) \/ k = Len(q) + 1
    BY <2>2
  <2>4. \A k \in 1 .. Len(q) : k \in DOMAIN stack /\ stack'[k] = stack[k]
    BY <2>2
  <2> QED
    BY <1>3, <2>1, <2>2, <2>3, <2>4, WaitKept
<1>6. CASE stack' = q
  BY <1>3, <1>6, WaitKept
<1> QED
  BY <1>1, <1>5, <1>6

(* The oldest command of an object, or all those of some objects, end. *)
LEMMA EndingConserves ==
  ASSUME TypeOK, NEW O \in SUBSET ObjectNames,
         \/ \E o \in ObjectNames :
              /\ pending[o] # <<>>
              /\ CompletionProc({Head(pending[o])})
              /\ pending' = [pending EXCEPT ![o] = Tail(@)]
         \/ /\ CompletionProc(UNION {PendingCommands(p) : p \in O})
            /\ pending' = [p \in ObjectNames |-> IF p \in O THEN <<>> ELSE pending[p]]
  PROVE  Conserved
<1>1. \A p \in ObjectNames : \A n \in DOMAIN pending[p] : pending[p][n] \in PendingCommands(p)
  BY PendingIds DEF PendingCommands
<1>2. ASSUME NEW o \in ObjectNames, pending[o] # <<>>,
             CompletionProc({Head(pending[o])}),
             pending' = [pending EXCEPT ![o] = Tail(@)]
      PROVE  Conserved
  <2>1. /\ Head(pending[o]) = pending[o][1]
        /\ \A i \in DOMAIN pending[o] \ {1} :
             i - 1 \in DOMAIN pending'[o] /\ pending'[o][i - 1] = pending[o][i]
        /\ \A p \in ObjectNames \ {o} : pending'[p] = pending[p]
    BY <1>2, QueueLeft
  <2>2. finished' = finished \cup {pending[o][1].id}
    BY <1>2, <2>1 DEF CompletionProc, IdsOf
  <2> QED
    BY <2>1, <2>2 DEF Conserved
<1>3. ASSUME CompletionProc(UNION {PendingCommands(p) : p \in O}),
             pending' = [p \in ObjectNames |-> IF p \in O THEN <<>> ELSE pending[p]]
      PROVE  Conserved
  <2>1. finished' = finished \cup IdsOf(UNION {PendingCommands(p) : p \in O})
    BY <1>3 DEF CompletionProc
  <2>2. \A p \in O : \A n \in DOMAIN pending[p] : pending[p][n].id \in finished'
    BY <1>1, <2>1 DEF IdsOf
  <2> QED
    BY <1>3, <2>1, <2>2 DEF Conserved
<1> QED
  BY <1>2, <1>3

LEMMA DeletingConserves ==
  ASSUME TypeOK, DeleteGoesOn
  PROVE  Conserved
<1>1. CASE DeleteFailsEarly \/ (DeleteFailsLate /\ pending["image"] = <<>>)
  BY <1>1, NothingMoves DEF DeleteFailsEarly, DeleteFailsLate
<1>2. CASE DeleteFailsLate /\ pending["image"] # <<>>
  BY <1>2, Names, EndingConserves DEF DeleteFailsLate
<1>3. CASE DeleteSucceeds
  <2>1. UNION {PendingCommands(p) : p \in {"image"}} = PendingCommands("image")
    OBVIOUS
  <2>2. pending' = [p \in ObjectNames |-> IF p \in {"image"} THEN <<>> ELSE pending[p]]
    BY <1>3 DEF DeleteSucceeds, TypeOK
  <2>3. CompletionProc(UNION {PendingCommands(p) : p \in {"image"}})
    BY <1>3, <2>1 DEF DeleteSucceeds
  <2>4. {"image"} \in SUBSET ObjectNames
    BY Names
  <2> QED
    BY <2>2, <2>3, <2>4, EndingConserves
<1> QED
  BY <1>1, <1>2, <1>3 DEF DeleteGoesOn

(* Who gives a command waits for it; the other steps leave every waiting   *)
(* function as it was.                                                     *)
LEMMA WaitStep ==
  ASSUME CommandsAssumption, TypeOK, WaitInv, [Next]_vars
  PROVE  WaitInv'
<1>1. ASSUME Conserved, stack' = stack \/ (stack # <<>> /\ stack' = Below)
      PROVE  WaitInv'
  <2>1. stack # <<>> => \A k \in DOMAIN Below : k \in DOMAIN stack /\ Below[k] = stack[k]
    BY BelowPositions
  <2> QED
    BY <1>1, <2>1, WaitKept
<1>2. CASE Quiet \/ DataProc
  <2>1. UNCHANGED <<finished, pending, stack>>
    BY <1>2 DEF Quiet, DataProc
  <2> QED
    BY <1>1, <2>1, NothingMoves
<1>3. CASE FetchedAtOnce
  <2>1. finished \subseteq finished' /\ UNCHANGED <<pending, stack>>
    BY <1>3 DEF FetchedAtOnce
  <2> QED
    BY <1>1, <2>1 DEF Conserved
<1>4. CASE Finish
  <2>1. Top.on \in ObjectNames
    BY <1>4, BelowPositions DEF Finish, Waiting, Frames
  <2> QED
    BY <1>1, <1>4, <2>1, EndingConserves DEF Finish
<1>5. ASSUME NEW o \in ObjectNames, Close(o) PROVE WaitInv'
  <2>1. Under(o) \in SUBSET ObjectNames
    BY DEF Under, ObjectNames
  <2> QED
    BY <1>1, <1>5, <2>1, EndingConserves DEF Close
<1>6. CASE DeleteGoesOn
  BY <1>1, <1>6, DeletingConserves DEF DeleteGoesOn
<1>7. ASSUME NEW o \in ObjectNames, NEW name \in CommandNames, NEW then \in Continuations,
             Calls(o, name, then)
      PROVE  WaitInv'
  <2>1. stack \in Seq(Frames) /\ Orders(stack, o, name, then)
    BY <1>7 DEF Calls, TypeOK
  <2> QED
    BY <2>1, OrderingKeepsWaits
<1>8. ASSUME NEW o \in ObjectNames, NEW name \in CommandNames, NEW then \in Continuations,
             NEW why \in Reasons, CallsNext(o, name, then, why)
      PROVE  WaitInv'
  <2>1. stack # <<>> /\ Orders(Below, o, name, then)
    BY <1>8 DEF CallsNext, Stops
  <2> QED
    BY <2>1, BelowPositions, OrderingKeepsWaits
<1>9. ASSUME NEW why \in Reasons, Leaves(why) PROVE WaitInv'
  BY <1>1, <1>9, NothingMoves DEF Leaves, Stops
<1>10. ASSUME NEW o \in ObjectNames, NEW name \in CommandNames, NEW taken \in BOOLEAN,
              Fires(o, name, taken)
       PROVE  WaitInv'
  BY <1>1, <1>10, GivingConserves DEF Fires
<1> QED
  BY <1>2, <1>3, <1>4, <1>5, <1>6, <1>7, <1>8, <1>9, <1>10, Kinds

LEMMA WaitsStay == Spec => [](LeftInv /\ WaitInv)
<1>1. Init => LeftInv /\ WaitInv
  BY DEF Init, LeftInv, WaitInv
<1>2. TypeOK /\ LeftInv /\ [Next]_vars => LeftInv'
  BY LeftStep
<1>3. CommandsAssumption /\ TypeOK /\ WaitInv /\ [Next]_vars => WaitInv'
  BY WaitStep
<1> QED
  BY <1>1, <1>2, <1>3, TypeCorrect, CommandsAssumption, PTL DEF Spec

(* Commands and the functions that wait for them find each other: only a   *)
(* failing Async, Delete, or TerminateCapture, which does not call         *)
(* IdleLoop, leaves a command behind while it runs; and a function, at any *)
(* depth, waits for a CompletionProc that is not to come only when the     *)
(* module refused a command of those that are waited for all the same:     *)
(* one that gets or sets a capability, or enumerates.                      *)
THEOREM CommandsAreWaitedFor == Spec => []CommandsAreAwaited
<1>1. TypeOK /\ LeftInv /\ WaitInv => CommandsAreAwaited
  <2> SUFFICES ASSUME TypeOK, LeftInv, WaitInv, NEW k \in 1 .. Len(stack)
               PROVE  Coming(stack[k]) \/ stack[k].name \in Refused \cap Insistent
    BY DEF LeftInv, CommandsAreAwaited
  <2>1. k \in DOMAIN stack /\ stack[k].on \in ObjectNames
    <3>1. stack \in Seq(Frames)
      BY DEF TypeOK
    <3>2. k \in DOMAIN stack /\ stack[k] \in Frames
      BY <3>1
    <3> QED
      BY <3>2 DEF Frames
  <2>2. \A n \in DOMAIN pending[stack[k].on] :
          pending[stack[k].on][n] \in PendingCommands(stack[k].on)
    BY <2>1, PendingIds DEF PendingCommands
  <2> QED
    BY <2>1, <2>2 DEF WaitInv, Expected, Insisted, Coming
<1> QED
  BY <1>1, TypeCorrect, WaitsStay, PTL

-----------------------------------------------------------------------------
(* MaidCommands implements CommandLife.                                    *)

States == [c \in Ids |-> StateOf(c)]
LeftOnes == IdsOf({a \in abandoned : a.why = "noWait"})
MayFail == "Async" \in Faults
MayInsist == Refused \cap Insistent # {}

LEMMA UnfinishedAre ==
  ASSUME TypeOK
  PROVE  Unfinished = {c \in Ids : \E o \in ObjectNames : \E n \in DOMAIN pending[o] :
                                     pending[o][n].id = c}
<1>1. \A o \in ObjectNames : PendingCommands(o) = {pending[o][n] : n \in DOMAIN pending[o]}
  BY PendingIds DEF PendingCommands
<1> QED
  BY <1>1 DEF Unfinished

LEMMA UnfinishedLater ==
  ASSUME TypeOK'
  PROVE  Unfinished' = {c \in Ids : \E o \in ObjectNames : \E n \in DOMAIN pending'[o] :
                                      pending'[o][n].id = c}
<1>1. \A o \in ObjectNames : pending'[o] \in Seq(Commands)
  BY DEF TypeOK
<1>2. \A o \in ObjectNames : DOMAIN pending'[o] = 1 .. Len(pending'[o])
  BY <1>1
<1>3. \A o \in ObjectNames : PendingCommands(o)' = {pending'[o][n] : n \in DOMAIN pending'[o]}
  BY <1>2 DEF PendingCommands
<1> QED
  BY <1>3 DEF Unfinished

(* A command that is given was new; the others stay as they were. *)
LEMMA GivingIsBecoming ==
  ASSUME CommandsAssumption, TypeOK, TypeOK', BlocksInv,
         NEW o \in ObjectNames, NEW name \in CommandNames,
         NEW taken \in BOOLEAN, Gives(o, name, taken)
  PROVE  /\ Fresh \in Ids
         /\ States[Fresh] = "new"
         /\ States' = [States EXCEPT ![Fresh] = IF taken THEN "pending" ELSE "refused"]
<1> DEFINE e == [id |-> Fresh, name |-> name]
<1>1. /\ Fresh \in Ids /\ Fresh = given + 1 /\ given \in Nat /\ given' = Fresh
      /\ UNCHANGED finished
      /\ pending' = IF taken THEN [pending EXCEPT ![o] = Append(@, e)] ELSE pending
      /\ e \in Commands /\ e.id = Fresh
  BY GivesType DEF Gives, Commands
<1> HIDE DEF e
<1>2. Fresh \notin finished /\ Fresh \notin Unfinished
  <2>1. \A c \in finished : c <= given
    BY DEF BlocksInv, Numbered
  <2>2. \A c \in Unfinished : c <= given
    BY UnfinishedAre DEF BlocksInv, Numbered
  <2>3. ~ Fresh <= given
    BY <1>1
  <2> QED
    BY <2>1, <2>2, <2>3
<1>3. Unfinished' = IF taken THEN Unfinished \cup {Fresh} ELSE Unfinished
  <2>1. Unfinished' = {c \in Ids : \E p \in ObjectNames : \E n \in DOMAIN pending'[p] :
                                     pending'[p][n].id = c}
    BY UnfinishedLater
  <2>2. CASE taken
    <3>1. /\ pending'[o] = Append(pending[o], e)
          /\ \A p \in ObjectNames \ {o} : pending'[p] = pending[p]
      BY <1>1, <2>2 DEF TypeOK
    <3>2. pending[o] \in Seq(Commands)
      BY DEF TypeOK
    <3>3. /\ Len(pending[o]) \in Nat /\ DOMAIN pending[o] = 1 .. Len(pending[o])
          /\ DOMAIN pending'[o] = 1 .. Len(pending[o]) + 1
          /\ \A n \in 1 .. Len(pending[o]) : pending'[o][n] = pending[o][n]
          /\ pending'[o][Len(pending[o]) + 1] = e
      BY <1>1, <3>1, <3>2, AppendPositions
    <3>4. \A n \in DOMAIN pending'[o] :
            \/ n \in DOMAIN pending[o] /\ pending'[o][n] = pending[o][n]
            \/ pending'[o][n] = e
      BY <3>3
    <3>5. /\ \A n \in DOMAIN pending[o] :
               n \in DOMAIN pending'[o] /\ pending'[o][n] = pending[o][n]
          /\ Len(pending[o]) + 1 \in DOMAIN pending'[o]
      BY <3>3
    <3>6. \A c \in Ids : c \in Unfinished' <=> c \in Unfinished \/ c = Fresh
      BY <1>1, <2>1, <3>1, <3>3, <3>4, <3>5, UnfinishedAre
    <3>7. Unfinished' \subseteq Ids /\ Unfinished \subseteq Ids
      BY <2>1 DEF Unfinished
    <3> QED
      BY <1>1, <2>2, <3>6, <3>7
  <2>3. CASE ~ taken
    BY <1>1, <2>1, <2>3, UnfinishedAre
  <2> QED
    BY <2>2, <2>3
<1>4. \A c \in Ids : c \in Nat /\ (c <= given' <=> c <= given \/ c = Fresh)
  BY <1>1 DEF Ids
<1>5. ~ Fresh <= given
  BY <1>1
<1>6. StateOf(Fresh) = "new"
  BY <1>2, <1>5 DEF StateOf
<1>7. ASSUME NEW c \in Ids
      PROVE  StateOf(c)' = IF c = Fresh THEN IF taken THEN "pending" ELSE "refused"
                                        ELSE StateOf(c)
  BY <1>1, <1>2, <1>3, <1>4 DEF StateOf
<1> QED
  BY <1>1, <1>6, <1>7 DEF States

(* Pending commands end, and nothing else changes. *)
LEMMA CountingIsEnding ==
  ASSUME BlocksInv, TypeOK, NEW C \in SUBSET Ids, C \subseteq Unfinished,
         finished' = finished \cup C, Unfinished' = Unfinished \ C, given' = given
  PROVE  /\ \A c \in C : States[c] = "pending"
         /\ States' = [c \in Ids |-> IF c \in C THEN "ended" ELSE States[c]]
<1>1. \A c \in Unfinished : c \notin finished
  BY UnfinishedAre DEF BlocksInv, Numbered
<1>2. \A c \in C : StateOf(c) = "pending"
  BY <1>1 DEF StateOf
<1>3. ASSUME NEW c \in Ids
      PROVE  StateOf(c)' = IF c \in C THEN "ended" ELSE StateOf(c)
  BY DEF StateOf
<1> QED
  BY <1>2, <1>3 DEF States

(* The oldest command of an object ends. *)
LEMMA FinishingIsEnding ==
  ASSUME TypeOK, TypeOK', BlocksInv, NEW o \in ObjectNames, pending[o] # <<>>,
         CompletionProc({Head(pending[o])}), given' = given,
         pending' = [pending EXCEPT ![o] = Tail(@)]
  PROVE  \E C \in SUBSET Ids : /\ \A c \in C : States[c] = "pending"
                               /\ States' = [c \in Ids |-> IF c \in C THEN "ended"
                                                           ELSE States[c]]
<1> DEFINE h == pending[o][1].id
<1>1. /\ Head(pending[o]) = pending[o][1] /\ 1 \in DOMAIN pending[o] /\ h \in Ids
      /\ \A p \in ObjectNames : \A i \in DOMAIN pending'[p] :
           \/ /\ p = o /\ i \in Nat \ {0} /\ i + 1 \in DOMAIN pending[o]
              /\ pending'[p][i] = pending[o][i + 1]
           \/ p # o /\ i \in DOMAIN pending[p] /\ pending'[p][i] = pending[p][i]
      /\ \A i \in DOMAIN pending[o] \ {1} :
           i - 1 \in DOMAIN pending'[o] /\ pending'[o][i - 1] = pending[o][i]
      /\ \A p \in ObjectNames \ {o} : pending'[p] = pending[p]
  <2>1. Head(pending[o]) = pending[o][1] /\ Head(pending[o]).id \in Ids
    BY QueueLeft
  <2> QED
    BY <2>1, QueueLeft
<1>2. finished' = finished \cup {h}
  BY <1>1 DEF CompletionProc, IdsOf
<1>3. \A p \in ObjectNames : \A n \in DOMAIN pending[p] :
        pending[p][n].id = h => p = o /\ n = 1
  BY <1>1 DEF BlocksInv, Numbered
<1>4. Unfinished' = {c \in Ids : \E p \in ObjectNames : \E n \in DOMAIN pending'[p] :
                                   pending'[p][n].id = c}
  BY UnfinishedLater
<1> HIDE DEF h
<1>5. ASSUME NEW c \in Ids, NEW p \in ObjectNames, NEW n \in DOMAIN pending'[p],
             pending'[p][n].id = c
      PROVE  c \in Unfinished /\ c # h
  <2>1. CASE p = o
    <3>1. /\ n + 1 \in DOMAIN pending[o] /\ pending[o][n + 1].id = c /\ n \in Nat \ {0}
      BY <1>1, <1>5, <2>1
    <3>2. n + 1 # 1
      BY <3>1
    <3> QED
      BY <1>3, <3>1, <3>2, UnfinishedAre
  <2>2. CASE p # o
    <3>1. n \in DOMAIN pending[p] /\ pending[p][n].id = c
      BY <1>1, <1>5, <2>2
    <3> QED
      BY <1>3, <2>2, <3>1, UnfinishedAre
  <2> QED
    BY <2>1, <2>2
<1>6. ASSUME NEW c \in Ids, NEW p \in ObjectNames, NEW n \in DOMAIN pending[p],
             pending[p][n].id = c, c # h
      PROVE  c \in Unfinished'
  <2>1. CASE p = o
    <3>1. n # 1
      BY <1>6, <2>1 DEF h
    <3>2. n - 1 \in DOMAIN pending'[o] /\ pending'[o][n - 1].id = c
      BY <1>1, <1>6, <2>1, <3>1
    <3> QED
      BY <1>4, <3>2
  <2>2. CASE p # o
    BY <1>1, <1>4, <1>6, <2>2
  <2> QED
    BY <2>1, <2>2
<1>7. \A c \in Ids : c \in Unfinished' <=> c \in Unfinished /\ c # h
  BY <1>4, <1>5, <1>6, UnfinishedAre
<1>8. Unfinished' = Unfinished \ {h} /\ h \in Unfinished
  <2>1. Unfinished' \subseteq Ids /\ Unfinished \subseteq Ids
    BY <1>4 DEF Unfinished
  <2>2. h \in Unfinished
    BY <1>1, UnfinishedAre DEF h
  <2> QED
    BY <1>7, <2>1, <2>2
<1>9. {h} \in SUBSET Ids /\ {h} \subseteq Unfinished
  BY <1>1, <1>8
<1> QED
  BY <1>2, <1>8, <1>9, CountingIsEnding

(* All commands of some objects end. *)
LEMMA ClosingIsEnding ==
  ASSUME TypeOK, TypeOK', BlocksInv, NEW O \in SUBSET ObjectNames, given' = given,
         CompletionProc(UNION {PendingCommands(p) : p \in O}),
         pending' = [p \in ObjectNames |-> IF p \in O THEN <<>> ELSE pending[p]]
  PROVE  \E C \in SUBSET Ids : /\ \A c \in C : States[c] = "pending"
                               /\ States' = [c \in Ids |-> IF c \in C THEN "ended"
                                                           ELSE States[c]]
<1> DEFINE C == IdsOf(UNION {PendingCommands(p) : p \in O})
<1>1. \A c : c \in C <=> \E p \in O : \E n \in DOMAIN pending[p] : pending[p][n].id = c
  <2>1. \A p \in O : PendingCommands(p) = {pending[p][n] : n \in DOMAIN pending[p]}
    BY PendingIds DEF PendingCommands
  <2> QED
    BY <2>1 DEF IdsOf
<1>2. finished' = finished \cup C
  BY DEF CompletionProc
<1> HIDE DEF C
<1>3. C \subseteq Ids
  BY <1>1, PendingIds
<1>4. C \subseteq Unfinished
  BY <1>1, <1>3, UnfinishedAre
<1>5. Unfinished' = {c \in Ids : \E p \in ObjectNames : \E n \in DOMAIN pending'[p] :
                                   pending'[p][n].id = c}
  BY UnfinishedLater
<1>6. \A p \in ObjectNames : \/ p \in O /\ DOMAIN pending'[p] = {}
                             \/ p \notin O /\ pending'[p] = pending[p]
  OBVIOUS
<1>7. \A c \in Ids : c \in Unfinished' <=> c \in Unfinished /\ c \notin C
  <2>1. \A p, r \in ObjectNames : \A n \in DOMAIN pending[p], m \in DOMAIN pending[r] :
          pending[p][n].id = pending[r][m].id => p = r
    BY DEF BlocksInv, Numbered
  <2>2. \A p \in ObjectNames \ O : \A n \in DOMAIN pending[p] : pending[p][n].id \notin C
    BY <1>1, <2>1
  <2> QED
    BY <1>1, <1>5, <1>6, <2>2, UnfinishedAre
<1>8. Unfinished' = Unfinished \ C
  <2>1. Unfinished' \subseteq Ids /\ Unfinished \subseteq Ids
    BY <1>5 DEF Unfinished
  <2> QED
    BY <1>7, <2>1
<1> QED
  BY <1>2, <1>3, <1>4, <1>8, CountingIsEnding

(* What is seen of the functions that wait. *)
Seen(f) == [cmd |-> f.cmd, firm |-> f.name # "Delete"]
SeenOf(q) == [n \in 1 .. Len(q) |-> Seen(q[n])]
Views == [cmd : Ids, firm : BOOLEAN]

LEMMA SeenType ==
  ASSUME NEW f \in Frames
  PROVE  Seen(f) \in Views /\ Seen(f).cmd = f.cmd /\ Seen(f).firm = (f.name # "Delete")
BY DEF Seen, Views, Frames

LEMMA SameSequence ==
  ASSUME NEW S, NEW q \in Seq(S), NEW r \in Seq(S), Len(q) = Len(r),
         \A i \in 1 .. Len(q) : q[i] = r[i]
  PROVE  q = r
  OBVIOUS

LEMMA SeenOfType ==
  ASSUME NEW q \in Seq(Frames)
  PROVE  /\ SeenOf(q) \in Seq(Views) /\ Len(SeenOf(q)) = Len(q) /\ Len(q) \in Nat
         /\ \A n \in 1 .. Len(q) : SeenOf(q)[n] = Seen(q[n])
<1>1. \A n \in 1 .. Len(q) : Seen(q[n]) \in Views
  <2>1. \A n \in 1 .. Len(q) : q[n] \in Frames
    OBVIOUS
  <2> QED
    BY <2>1, SeenType
<1>2. Len(q) \in Nat
  OBVIOUS
<1> QED
  BY <1>1, <1>2 DEF SeenOf

LEMMA SeenOfAppend ==
  ASSUME NEW q \in Seq(Frames), NEW f \in Frames
  PROVE  SeenOf(Append(q, f)) = Append(SeenOf(q), Seen(f))
<1>1. /\ Append(q, f) \in Seq(Frames) /\ Len(q) \in Nat /\ Len(Append(q, f)) = Len(q) + 1
      /\ \A i \in 1 .. Len(q) : Append(q, f)[i] = q[i]
      /\ Append(q, f)[Len(q) + 1] = f
  BY AppendPositions
<1>2. /\ SeenOf(q) \in Seq(Views) /\ Len(SeenOf(q)) = Len(q)
      /\ \A n \in 1 .. Len(q) : SeenOf(q)[n] = Seen(q[n])
  BY SeenOfType
<1>3. Seen(f) \in Views
  BY SeenType
<1> DEFINE b == Append(SeenOf(q), Seen(f))
<1>4. /\ b \in Seq(Views) /\ Len(b) = Len(q) + 1
      /\ \A i \in 1 .. Len(q) : b[i] = SeenOf(q)[i]
      /\ b[Len(q) + 1] = Seen(f)
  <2>1. /\ b \in Seq(Views) /\ Len(b) = Len(SeenOf(q)) + 1
        /\ \A i \in 1 .. Len(SeenOf(q)) : b[i] = SeenOf(q)[i]
        /\ b[Len(SeenOf(q)) + 1] = Seen(f)
    BY <1>2, <1>3, AppendPositions
  <2> QED
    BY <1>2, <2>1
<1> DEFINE a == SeenOf(Append(q, f))
<1>5. /\ a \in Seq(Views) /\ Len(a) = Len(q) + 1
      /\ \A n \in 1 .. Len(q) + 1 : a[n] = Seen(Append(q, f)[n])
  <2>1. /\ a \in Seq(Views) /\ Len(a) = Len(Append(q, f))
        /\ \A n \in 1 .. Len(Append(q, f)) : a[n] = Seen(Append(q, f)[n])
    BY <1>1, SeenOfType
  <2> QED
    BY <1>1, <2>1
<1> HIDE DEF a, b
<1>6. \A n \in 1 .. Len(a) : n \in 1 .. Len(q) \/ n = Len(q) + 1
  BY <1>1, <1>5
<1>7. \A n \in 1 .. Len(a) : a[n] = b[n]
  <2> SUFFICES ASSUME NEW n \in 1 .. Len(a) PROVE a[n] = b[n]
    OBVIOUS
  <2>1. CASE n \in 1 .. Len(q)
    <3>1. n \in 1 .. Len(q) + 1
      BY <1>5
    <3> QED
      BY <1>1, <1>2, <1>4, <1>5, <2>1, <3>1
  <2>2. CASE n = Len(q) + 1
    BY <1>1, <1>4, <1>5, <2>2
  <2> QED
    BY <1>6, <2>1, <2>2
<1>8. a = b
  BY <1>4, <1>5, <1>7, SameSequence
<1> QED
  BY <1>8 DEF a, b

LEMMA SeenOfBelow ==
  ASSUME TypeOK, stack # <<>>
  PROVE  /\ SeenOf(stack) # <<>> /\ SeenOf(stack)[Len(SeenOf(stack))] = Seen(Top)
         /\ SeenOf(Below) = SubSeq(SeenOf(stack), 1, Len(SeenOf(stack)) - 1)
         /\ Top \in Frames
<1>1. /\ stack \in Seq(Frames) /\ Below \in Seq(Frames)
      /\ Len(stack) \in Nat \ {0} /\ Len(Below) = Len(stack) - 1
      /\ DOMAIN Below = 1 .. Len(stack) - 1
      /\ \A i \in DOMAIN Below : Below[i] = stack[i]
  BY BelowPositions DEF TypeOK
<1>2. /\ SeenOf(stack) \in Seq(Views) /\ Len(SeenOf(stack)) = Len(stack)
      /\ \A n \in 1 .. Len(stack) : SeenOf(stack)[n] = Seen(stack[n])
  BY <1>1, SeenOfType
<1>3. /\ SeenOf(Below) \in Seq(Views) /\ Len(SeenOf(Below)) = Len(stack) - 1
      /\ \A n \in 1 .. Len(stack) - 1 : SeenOf(Below)[n] = Seen(Below[n])
  <2>1. /\ SeenOf(Below) \in Seq(Views) /\ Len(SeenOf(Below)) = Len(Below)
        /\ \A n \in 1 .. Len(Below) : SeenOf(Below)[n] = Seen(Below[n])
    BY <1>1, SeenOfType
  <2> QED
    BY <1>1, <2>1
<1> DEFINE b == SubSeq(SeenOf(stack), 1, Len(SeenOf(stack)) - 1)
           a == SeenOf(Below)
<1>4. /\ b \in Seq(Views) /\ Len(b) = Len(stack) - 1
      /\ \A n \in 1 .. Len(stack) - 1 : b[n] = SeenOf(stack)[n]
  BY <1>1, <1>2
<1>5. \A n \in 1 .. Len(stack) - 1 : n \in 1 .. Len(stack) /\ n \in DOMAIN Below
  BY <1>1
<1>6. Len(stack) \in 1 .. Len(stack)
  BY <1>1
<1>7. Top \in Frames
  BY <1>1, <1>6 DEF Top
<1>8. SeenOf(stack)[Len(SeenOf(stack))] = Seen(Top)
  BY <1>2, <1>6 DEF Top
<1>9. SeenOf(stack) # <<>>
  BY <1>1, <1>2
<1> HIDE DEF a, b
<1>10. \A n \in 1 .. Len(stack) - 1 : a[n] = b[n]
  BY <1>1, <1>2, <1>3, <1>4, <1>5 DEF a
<1>11. a = b
  BY <1>3, <1>4, <1>10, SameSequence DEF a
<1> QED
  BY <1>7, <1>8, <1>9, <1>11 DEF a, b

(* A function gives a command and waits for it, on top of the others. *)
LEMMA OrderingStep ==
  ASSUME CommandsAssumption, TypeOK, TypeOK', BlocksInv,
         NEW o \in ObjectNames, NEW name \in CommandNames, NEW then \in Continuations,
         NEW taken \in Takes(name), Gives(o, name, taken), taken \/ name \in Insistent,
         FrameOf(o, name, then) \in Frames,
         stack' = Append(stack, FrameOf(o, name, then)), abandoned' = abandoned
  PROVE  Life!Next
<1> DEFINE f == FrameOf(o, name, then)
<1>1. taken \in BOOLEAN /\ (taken \/ name \in Refused)
  BY DEF Takes
<1>2. /\ Fresh \in Ids /\ States[Fresh] = "new"
      /\ States' = [States EXCEPT ![Fresh] = IF taken THEN "pending" ELSE "refused"]
  BY <1>1, GivingIsBecoming
<1>3. taken \/ MayInsist
  BY <1>1 DEF MayInsist
<1>4. f.cmd = Fresh
  BY DEF FrameOf
<1> HIDE DEF f
<1>5. PICK c \in Ids, firm \in BOOLEAN : c = Fresh /\ Seen(f) = [cmd |-> c, firm |-> firm]
  BY <1>2, <1>4 DEF Seen
<1>6. SeenOf(stack)' = Append(SeenOf(stack), [cmd |-> c, firm |-> firm])
  <2>1. stack \in Seq(Frames) /\ f \in Frames
    BY DEF TypeOK, f
  <2>2. SeenOf(Append(stack, f)) = Append(SeenOf(stack), Seen(f))
    BY <2>1, SeenOfAppend
  <2>3. SeenOf(stack)' = SeenOf(Append(stack, f))
    BY DEF SeenOf, f
  <2> QED
    BY <1>5, <2>2, <2>3
<1>7. UNCHANGED LeftOnes
  BY DEF LeftOnes
<1>8. \/ States[c] = "new" /\ States' = [States EXCEPT ![c] = "pending"]
      \/ MayInsist /\ States[c] = "new" /\ States' = [States EXCEPT ![c] = "refused"]
  BY <1>1, <1>2, <1>3, <1>5
<1>9. Life!Order(c, firm)
  BY <1>6, <1>7, <1>8, Zenon
  DEF Life!Order, Life!Becomes, States, SeenOf, Seen, LeftOnes, MayInsist
<1> QED
  BY <1>9, Zenon DEF Life!Next

(* What makes a return proper: the command has ended, or waiting may fail; *)
(* Delete returns without.                                                 *)
LEMMA ReturningIsProper ==
  ASSUME TypeOK, stack # <<>>, MayFail \/ Top.name = "Delete" \/ Top.cmd \in finished'
  PROVE  Life!Returns
<1>1. SeenOf(stack) # <<>> /\ SeenOf(stack)[Len(SeenOf(stack))] = Seen(Top) /\ Top \in Frames
  BY SeenOfBelow
<1>2. PICK c \in Ids : c = Top.cmd
  BY <1>1 DEF Frames
<1>3. ASSUME c \in finished' PROVE States'[c] = "ended"
  <2>1. StateOf(c)' = "ended"
    BY <1>3 DEF StateOf
  <2> QED
    BY <2>1 DEF States
<1>4. Seen(Top).firm => MayFail \/ States'[Seen(Top).cmd] = "ended"
  BY <1>1, <1>2, <1>3, SeenType
<1> HIDE DEF Top
<1>5. LET f == SeenOf(stack)[Len(SeenOf(stack))]
      IN f.firm => MayFail \/ States'[f.cmd] = "ended"
  BY <1>1, <1>4
<1> QED
  BY <1>1, <1>5, Zenon DEF Life!Returns, States, SeenOf, Seen, MayFail

LEMMA NothingEnds ==
  ASSUME UNCHANGED <<given, finished, pending>>
  PROVE  /\ States' = States
         /\ States = [c \in Ids |-> IF c \in {} THEN "ended" ELSE States[c]]
<1>1. Unfinished' = Unfinished
  BY DEF Unfinished, PendingCommands
<1>2. \A c \in Ids : StateOf(c)' = StateOf(c)
  BY <1>1 DEF StateOf
<1> QED
  BY <1>2 DEF States

(* What a function leaves behind when it may stop waiting. *)
LEMMA StoppingIsProper ==
  ASSUME TypeOK, NEW why, Stops(why), finished' = finished
  PROVE  /\ stack # <<>> /\ UNCHANGED LeftOnes
         /\ MayFail \/ Top.name = "Delete" \/ Top.cmd \in finished'
<1>1. stack # <<>> /\ (MayFail \/ Top.name = "Delete" \/ Top.cmd \in finished')
  BY DEF Stops, MayFail
<1>2. CASE why # "noWait"
  <2>1. {b \in abandoned' : b.why = "noWait"} = {b \in abandoned : b.why = "noWait"}
    BY <1>2 DEF Stops, Forgets
  <2> QED
    BY <1>1, <2>1 DEF LeftOnes
<1>3. CASE why = "noWait"
  <2>1. abandoned' = abandoned
    BY <1>3 DEF Stops, Forgets
  <2> QED
    BY <1>1, <2>1 DEF LeftOnes
<1> QED
  BY <1>2, <1>3

(* A function returns; what it does last may end commands. *)
LEMMA ReturningStep ==
  ASSUME TypeOK, stack # <<>>, stack' = Below, UNCHANGED LeftOnes,
         MayFail \/ Top.name = "Delete" \/ Top.cmd \in finished',
         NEW C \in SUBSET Ids, \A c \in C : States[c] = "pending",
         States' = [c \in Ids |-> IF c \in C THEN "ended" ELSE States[c]]
  PROVE  Life!Next
<1>1. SeenOf(stack)' = SubSeq(SeenOf(stack), 1, Len(SeenOf(stack)) - 1)
  <2>1. SeenOf(Below) = SubSeq(SeenOf(stack), 1, Len(SeenOf(stack)) - 1)
    BY SeenOfBelow
  <2>2. SeenOf(stack)' = SeenOf(Below)
    BY DEF SeenOf
  <2> QED
    BY <2>1, <2>2
<1>2. Life!Returns
  BY ReturningIsProper
<1>3. Life!Return(C)
  BY <1>1, <1>2, Zenon
  DEF Life!Return, Life!End, Life!Outer, States, SeenOf, Seen, LeftOnes
<1> QED
  BY <1>3, Zenon DEF Life!Next

(* Commands end while functions wait. *)
LEMMA CompletingStep ==
  ASSUME UNCHANGED <<stack, abandoned>>,
         NEW C \in SUBSET Ids, \A c \in C : States[c] = "pending",
         States' = [c \in Ids |-> IF c \in C THEN "ended" ELSE States[c]]
  PROVE  Life!Next
<1>1. UNCHANGED LeftOnes /\ SeenOf(stack)' = SeenOf(stack)
  BY DEF LeftOnes, SeenOf
<1>2. Life!Complete(C)
  BY <1>1, Zenon DEF Life!Complete, Life!End, States, SeenOf, Seen, LeftOnes
<1> QED
  BY <1>2, Zenon DEF Life!Next

(* A function returns to one that gives the next command. *)
LEMMA ReorderingStep ==
  ASSUME CommandsAssumption, TypeOK, TypeOK', BlocksInv,
         NEW o \in ObjectNames, NEW name \in Insistent, NEW taken \in Takes(name),
         NEW then \in Continuations, Gives(o, name, taken), FrameOf(o, name, then) \in Frames,
         stack # <<>>, stack' = Append(Below, FrameOf(o, name, then)), UNCHANGED LeftOnes,
         MayFail \/ Top.name = "Delete" \/ Top.cmd \in finished'
  PROVE  Life!Next
<1> DEFINE f == FrameOf(o, name, then)
<1>0. name \in CommandNames
  BY Names
<1>1. taken \in BOOLEAN /\ (taken \/ name \in Refused)
  BY DEF Takes
<1>2. /\ Fresh \in Ids /\ States[Fresh] = "new"
      /\ States' = [States EXCEPT ![Fresh] = IF taken THEN "pending" ELSE "refused"]
  BY <1>0, <1>1, GivingIsBecoming
<1>3. taken \/ MayInsist
  BY <1>1 DEF MayInsist
<1>4. f.cmd = Fresh
  BY DEF FrameOf
<1> HIDE DEF f
<1>5. PICK c \in Ids, firm \in BOOLEAN : c = Fresh /\ Seen(f) = [cmd |-> c, firm |-> firm]
  BY <1>2, <1>4 DEF Seen
<1>6. SeenOf(stack)' = Append(SubSeq(SeenOf(stack), 1, Len(SeenOf(stack)) - 1),
                              [cmd |-> c, firm |-> firm])
  <2>1. Below \in Seq(Frames) /\ f \in Frames
    BY BelowPositions DEF f
  <2>2. SeenOf(Append(Below, f)) = Append(SeenOf(Below), Seen(f))
    BY <2>1, SeenOfAppend
  <2>3. SeenOf(Below) = SubSeq(SeenOf(stack), 1, Len(SeenOf(stack)) - 1)
    BY SeenOfBelow
  <2>4. SeenOf(stack)' = SeenOf(Append(Below, f))
    BY DEF SeenOf, f
  <2> QED
    BY <1>5, <2>2, <2>3, <2>4
<1>7. Life!Returns
  BY ReturningIsProper
<1>8. \/ States[c] = "new" /\ States' = [States EXCEPT ![c] = "pending"]
      \/ MayInsist /\ States[c] = "new" /\ States' = [States EXCEPT ![c] = "refused"]
  BY <1>1, <1>2, <1>3, <1>5
<1>9. Life!OrderNext(c, firm)
  BY <1>6, <1>7, <1>8, Zenon
  DEF Life!OrderNext, Life!Becomes, Life!Outer, States, SeenOf, Seen, LeftOnes, MayInsist
<1> QED
  BY <1>9, Zenon DEF Life!Next

(* A command is given that nobody waits for. *)
LEMMA FiringStep ==
  ASSUME CommandsAssumption, TypeOK, TypeOK', BlocksInv, NEW o \in ObjectNames,
         NEW name \in CommandNames, NEW taken \in BOOLEAN, Gives(o, name, taken),
         stack' = stack,
         LeftOnes' = IF taken THEN LeftOnes \cup {Fresh} ELSE LeftOnes
  PROVE  Life!Next
<1>1. /\ Fresh \in Ids /\ States[Fresh] = "new"
      /\ States' = [States EXCEPT ![Fresh] = IF taken THEN "pending" ELSE "refused"]
  BY GivingIsBecoming
<1>2. SeenOf(stack)' = SeenOf(stack)
  BY DEF SeenOf
<1>3. PICK c \in Ids : c = Fresh
  BY <1>1
<1>4. \/ /\ States[c] = "new" /\ States' = [States EXCEPT ![c] = "pending"]
         /\ LeftOnes' = LeftOnes \cup {c}
      \/ /\ States[c] = "new" /\ States' = [States EXCEPT ![c] = "refused"]
         /\ LeftOnes' = LeftOnes
  BY <1>1, <1>3
<1>5. Life!Fire(c)
  BY <1>2, <1>4, Zenon DEF Life!Fire, Life!Becomes, States, SeenOf, Seen, LeftOnes
<1> QED
  BY <1>5, Zenon DEF Life!Next

(* An image that is there at once: its command is over as soon as given. *)
LEMMA AtOnceStep ==
  ASSUME CommandsAssumption, TypeOK, TypeOK', BlocksInv, FetchedAtOnce
  PROVE  Life!Next
<1>1. /\ given \in Nat /\ Fresh = given + 1 /\ given' = Fresh /\ Fresh \in Ids
      /\ finished' = finished \cup {Fresh} /\ UNCHANGED <<stack, pending, abandoned>>
  BY DEF FetchedAtOnce, Fresh, TypeOK, Ids, CommandsAssumption
<1>2. /\ \A c \in finished : c <= given
      /\ \A c \in Unfinished : c <= given
  BY UnfinishedAre DEF BlocksInv, Numbered
<1>3. ~ Fresh <= given
  BY <1>1
<1>4. Unfinished' = Unfinished
  BY <1>1 DEF Unfinished, PendingCommands
<1>5. \A c \in Ids : c \in Nat /\ (c <= given' <=> c <= given \/ c = Fresh)
  BY <1>1 DEF Ids
<1>6. StateOf(Fresh) = "new"
  BY <1>2, <1>3 DEF StateOf
<1>7. \A c \in Ids : StateOf(c)' = IF c = Fresh THEN "ended" ELSE StateOf(c)
  BY <1>1, <1>4, <1>5 DEF StateOf
<1>8. States[Fresh] = "new" /\ States' = [States EXCEPT ![Fresh] = "ended"]
  BY <1>1, <1>6, <1>7 DEF States
<1>9. UNCHANGED LeftOnes /\ SeenOf(stack)' = SeenOf(stack)
  BY <1>1 DEF LeftOnes, SeenOf
<1>10. PICK c \in Ids : c = Fresh
  BY <1>1
<1>11. States[c] = "new" /\ States' = [States EXCEPT ![c] = "ended"]
  BY <1>8, <1>10
<1>12. Life!Fire(c)
  BY <1>9, <1>11, Zenon DEF Life!Fire, Life!Becomes, States, SeenOf, Seen, LeftOnes
<1> QED
  BY <1>12, Zenon DEF Life!Next

(* Delete returns whatever has become of its command, and may end others. *)
LEMMA DeletingStep ==
  ASSUME CommandsAssumption, TypeOK, TypeOK', BlocksInv, DeleteGoesOn
  PROVE  Life!Next
<1>1. /\ stack # <<>> /\ stack' = Below /\ Forgets("refused") /\ given' = given
      /\ Top.name = "Delete"
  BY DEF DeleteGoesOn
<1>2. UNCHANGED LeftOnes
  <2>1. {b \in abandoned' : b.why = "noWait"} = {b \in abandoned : b.why = "noWait"}
    BY <1>1 DEF Forgets
  <2> QED
    BY <2>1 DEF LeftOnes
<1>3. \E C \in SUBSET Ids : /\ \A c \in C : States[c] = "pending"
                            /\ States' = [c \in Ids |-> IF c \in C THEN "ended" ELSE States[c]]
  <2>1. CASE DeleteFailsEarly \/ (DeleteFailsLate /\ pending["image"] = <<>>)
    <3>1. States' = [c \in Ids |-> IF c \in {} THEN "ended" ELSE States[c]]
      BY <1>1, <2>1, NothingEnds DEF DeleteFailsEarly, DeleteFailsLate
    <3>2. {} \in SUBSET Ids /\ \A c \in {} : States[c] = "pending"
      OBVIOUS
    <3> QED
      BY <3>1, <3>2
  <2>2. CASE DeleteFailsLate /\ pending["image"] # <<>>
    BY <1>1, <2>2, Names, FinishingIsEnding DEF DeleteFailsLate
  <2>3. CASE DeleteSucceeds
    <3>1. UNION {PendingCommands(p) : p \in {"image"}} = PendingCommands("image")
      OBVIOUS
    <3>2. pending' = [p \in ObjectNames |-> IF p \in {"image"} THEN <<>> ELSE pending[p]]
      BY <2>3 DEF DeleteSucceeds, TypeOK
    <3>3. CompletionProc(UNION {PendingCommands(p) : p \in {"image"}})
      BY <2>3, <3>1 DEF DeleteSucceeds
    <3>4. {"image"} \in SUBSET ObjectNames
      BY Names
    <3> QED
      BY <1>1, <3>2, <3>3, <3>4, ClosingIsEnding
  <2> QED
    BY <2>1, <2>2, <2>3 DEF DeleteGoesOn
<1> QED
  BY <1>1, <1>2, <1>3, ReturningStep

LEMMA LifeStep ==
  ASSUME CommandsAssumption, TypeOK, BlocksInv, [Next]_vars
  PROVE  [Life!Next]_(Life!vars)
<1>0. TypeOK'
  BY TypeStep
<1>1. ASSUME Quiet \/ DataProc PROVE UNCHANGED Life!vars
  <2>1. UNCHANGED <<given, finished, pending, stack, abandoned>>
    BY <1>1 DEF Quiet, DataProc
  <2>2. UNCHANGED States
    BY <2>1, NothingEnds
  <2>3. UNCHANGED LeftOnes /\ SeenOf(stack)' = SeenOf(stack)
    BY <2>1 DEF LeftOnes, SeenOf
  <2> QED
    BY <2>2, <2>3, Zenon DEF Life!vars, States, SeenOf, Seen, LeftOnes
<1>2. ASSUME NEW o \in ObjectNames, NEW name \in CommandNames, NEW then \in Continuations,
             Calls(o, name, then)
      PROVE  Life!Next
  <2>1. stack \in Seq(Frames) /\ Orders(stack, o, name, then) /\ abandoned' = abandoned
    BY <1>2 DEF Calls, TypeOK
  <2>2. PICK taken \in Takes(name) :
          /\ Gives(o, name, taken) /\ FrameOf(o, name, then) \in Frames
          /\ \/ (taken \/ name \in Insistent) /\ stack' = Append(stack, FrameOf(o, name, then))
             \/ ~ (taken \/ name \in Insistent) /\ stack' = stack
    BY <2>1, OrdersType
  <2>3. CASE (taken \/ name \in Insistent) /\ stack' = Append(stack, FrameOf(o, name, then))
    BY <1>0, <2>1, <2>2, <2>3, OrderingStep
  <2>4. CASE ~ (taken \/ name \in Insistent) /\ stack' = stack
    <3>1. UNCHANGED LeftOnes /\ taken \in BOOLEAN
      BY <2>1, <2>2, Names DEF LeftOnes
    <3> QED
      BY <1>0, <2>2, <2>4, <3>1, FiringStep
  <2> QED
    BY <2>2, <2>3, <2>4
<1>3. ASSUME NEW o \in ObjectNames, NEW name \in CommandNames, NEW then \in Continuations,
             NEW why \in Reasons, CallsNext(o, name, then, why)
      PROVE  Life!Next
  <2>1. Stops(why) /\ Orders(Below, o, name, then) /\ name \in Insistent
    BY <1>3 DEF CallsNext
  <2>2. PICK taken \in Takes(name) :
          /\ Gives(o, name, taken) /\ FrameOf(o, name, then) \in Frames
          /\ stack' = Append(Below, FrameOf(o, name, then))
    BY <2>1, StopsType, OrdersType
  <2>3. finished' = finished
    BY <2>2 DEF Gives
  <2>4. /\ stack # <<>> /\ UNCHANGED LeftOnes
        /\ MayFail \/ Top.name = "Delete" \/ Top.cmd \in finished'
    BY <2>1, <2>3, StoppingIsProper
  <2> QED
    BY <1>0, <2>1, <2>2, <2>4, ReorderingStep
<1>4. ASSUME NEW why \in Reasons, Leaves(why) PROVE Life!Next
  <2>1. /\ stack # <<>> /\ UNCHANGED LeftOnes /\ stack' = Below
        /\ MayFail \/ Top.name = "Delete" \/ Top.cmd \in finished'
    BY <1>4, StoppingIsProper DEF Leaves
  <2>2. States' = [c \in Ids |-> IF c \in {} THEN "ended" ELSE States[c]]
    BY <1>4, NothingEnds DEF Leaves
  <2>3. {} \in SUBSET Ids /\ \A c \in {} : States[c] = "pending"
    OBVIOUS
  <2> QED
    BY <2>1, <2>2, <2>3, ReturningStep
<1>5. ASSUME NEW o \in ObjectNames, NEW name \in CommandNames, NEW taken \in BOOLEAN,
             Fires(o, name, taken)
      PROVE  Life!Next
  <2> DEFINE a == [id |-> Fresh, name |-> "TerminateCapture", why |-> "noWait"]
  <2>1. /\ Gives(o, name, taken) /\ stack' = stack /\ a.id = Fresh /\ a.why = "noWait"
        /\ abandoned' = IF taken THEN abandoned \cup {a} ELSE abandoned
    BY <1>5 DEF Fires
  <2> HIDE DEF a
  <2>2. {b \in abandoned' : b.why = "noWait"}
          = IF taken THEN {b \in abandoned : b.why = "noWait"} \cup {a}
                     ELSE {b \in abandoned : b.why = "noWait"}
    BY <2>1
  <2>3. LeftOnes' = IdsOf({b \in abandoned' : b.why = "noWait"})
    BY DEF LeftOnes, IdsOf
  <2>4. LeftOnes' = IF taken THEN LeftOnes \cup {Fresh} ELSE LeftOnes
    BY <2>1, <2>2, <2>3 DEF LeftOnes, IdsOf
  <2> QED
    BY <1>0, <2>1, <2>4, FiringStep
<1>6. ASSUME NEW o \in ObjectNames, Close(o) PROVE Life!Next
  <2>1. Under(o) \in SUBSET ObjectNames
    BY DEF Under, ObjectNames
  <2>2. /\ CompletionProc(UNION {PendingCommands(p) : p \in Under(o)})
        /\ pending' = [p \in ObjectNames |-> IF p \in Under(o) THEN <<>> ELSE pending[p]]
        /\ UNCHANGED <<given, stack, abandoned>>
    BY <1>6 DEF Close
  <2>3. PICK C \in SUBSET Ids :
          /\ \A c \in C : States[c] = "pending"
          /\ States' = [c \in Ids |-> IF c \in C THEN "ended" ELSE States[c]]
    BY <1>0, <2>1, <2>2, ClosingIsEnding
  <2> QED
    BY <2>2, <2>3, CompletingStep
<1>7. CASE Finish
  <2>1. Top.on \in ObjectNames
    BY <1>7, BelowPositions DEF Finish, Waiting, Frames
  <2>2. /\ pending[Top.on] # <<>> /\ CompletionProc({Head(pending[Top.on])})
        /\ pending' = [pending EXCEPT ![Top.on] = Tail(@)]
        /\ UNCHANGED <<given, stack, abandoned>>
    BY <1>7 DEF Finish
  <2>3. PICK C \in SUBSET Ids :
          /\ \A c \in C : States[c] = "pending"
          /\ States' = [c \in Ids |-> IF c \in C THEN "ended" ELSE States[c]]
    BY <1>0, <2>1, <2>2, FinishingIsEnding
  <2> QED
    BY <2>2, <2>3, CompletingStep
<1>8. CASE DeleteGoesOn
  BY <1>0, <1>8, DeletingStep
<1>9. CASE FetchedAtOnce
  BY <1>0, <1>9, AtOnceStep
<1> QED
  BY <1>1, <1>2, <1>3, <1>4, <1>5, <1>6, <1>7, <1>8, <1>9, Kinds

LEMMA LifeInit ==
  ASSUME CommandsAssumption, Init
  PROVE  Life!Init
<1>1. Unfinished = {}
  <2>1. \A o \in ObjectNames : PendingCommands(o) = {}
    BY DEF Init, PendingCommands
  <2> QED
    BY <2>1 DEF Unfinished
<1>2. \A c \in Ids : StateOf(c) = "new"
  BY <1>1 DEF Init, StateOf, Ids, CommandsAssumption
<1>3. /\ [n \in 1 .. Len(stack) |-> [cmd |-> stack[n].cmd, firm |-> stack[n].name # "Delete"]]
           = <<>>
      /\ IdsOf({a \in abandoned : a.why = "noWait"}) = {}
  BY DEF Init, IdsOf
<1> QED
  BY <1>2, <1>3 DEF Life!Init

(* Whatever is refused, delayed, aborted or closed, and however functions  *)
(* wait inside callbacks of functions that wait -- of those of an object   *)
(* that is being enumerated as well: a command ends at most once, when the *)
(* module had taken it, and functions return innermost first, each after   *)
(* its own command unless Async failed; Delete alone goes on before.       *)
THEOREM Implementation == Spec => ImplementsCommandLife
<1>1. CommandsAssumption /\ Init => Life!Init
  BY LifeInit
<1>2. CommandsAssumption /\ TypeOK /\ BlocksInv /\ [Next]_vars => [Life!Next]_(Life!vars)
  BY LifeStep
<1> QED
  BY <1>1, <1>2, TypeCorrect, BlocksHold, CommandsAssumption,
     PTL DEF Spec, ImplementsCommandLife, Life!Spec


-----------------------------------------------------------------------------
(* Files.                                                                  *)

(* A fetch was left before the module was done with it. *)
FetchLeft == \E a \in abandoned : a.name \in Fetches

WholeFile(f) ==
  /\ Len(f) = Chunks
  /\ \A n \in 1 .. Chunks : f[n] = [cmd |-> f[1].cmd, no |-> n]

(* The buffer holds the first n parts of command c. *)
Holds(buffer, c, n) ==
  /\ buffer \in Seq(Parts) /\ Len(buffer) = n
  /\ \A k \in 1 .. n : buffer[k] = [cmd |-> c, no |-> k]

(* A fetch that is still to be finished is the one its function waits for  *)
(* outermost; what has been delivered of it is in the buffer DataProc is   *)
(* set to, and nothing is delivered before its turn comes.                 *)
OneFetch ==
  \A i \in DOMAIN pending["image"] :
    LET c == pending["image"][i] IN
      c.name \in Fetches =>
        /\ stack # <<>> /\ stack[1].cmd = c.id /\ stack[1].name \in Fetches
        /\ i # 1 => sent[c.id] = 0
        /\ dataProc # None /\ sent[c.id] < Chunks => Holds(deliver[dataProc], c.id, sent[c.id])

(* A RefDeliver that DataProc is still to be set to is empty. *)
UnusedBuffers ==
  \A i \in DOMAIN pending["image"] :
    LET c == pending["image"][i] IN
      c.name = "SetDataProc" => deliver[c.id] = <<>> /\ dataProc # c.id

(* Only a function called from a menu fetches. *)
OuterFetch == \A i \in DOMAIN stack : stack[i].name \in Fetches => i = 1

(* Nothing has been delivered for a command that has not been given. *)
Unsent == \A c \in Ids : c > given => sent[c] = 0

Saved == FetchLeft \/ (OneFetch /\ \A f \in saved : WholeFile(f))

WholeInv == OuterFetch /\ Unsent /\ UnusedBuffers /\ Saved

(* Giving a command leaves those of the image, and their buffers, alone. *)
LEMMA GivingKeepsQueue ==
  ASSUME CommandsAssumption, TypeOK, BlocksInv, NEW o \in ObjectNames, NEW name \in CommandNames,
         NEW taken \in BOOLEAN, Gives(o, name, taken)
  PROVE  /\ \A i \in DOMAIN pending'["image"] :
              LET c == pending'["image"][i] IN
                \/ /\ i \in DOMAIN pending["image"] /\ c = pending["image"][i]
                   /\ c.id # Fresh /\ deliver'[c.id] = deliver[c.id]
                \/ taken /\ o = "image" /\ c.id = Fresh /\ c.name = name
         /\ dataProc # None => dataProc # Fresh /\ deliver'[dataProc] = deliver[dataProc]
         /\ name \in MakesRefDeliver => deliver'[Fresh] = <<>>
         /\ Fresh \in Ids /\ Fresh # None /\ Fresh > given /\ given' = Fresh
<1> DEFINE e == [id |-> Fresh, name |-> name]
           q == pending["image"]
<1>1. /\ Fresh \in Ids /\ Fresh = given + 1 /\ given \in Nat /\ e \in Commands
      /\ e.name = name /\ e.id = Fresh /\ given' = Fresh
      /\ pending' = IF taken THEN [pending EXCEPT ![o] = Append(@, e)] ELSE pending
      /\ deliver' = IF name \in MakesRefDeliver THEN [deliver EXCEPT ![Fresh] = <<>>] ELSE deliver
  BY GivesType DEF Gives, Commands
<1>2. /\ q \in Seq(Commands) /\ "image" \in ObjectNames
      /\ \A i \in DOMAIN q : q[i].id \in Ids /\ q[i].id <= given
  BY PendingIds DEF ObjectNames, BlocksInv, Numbered
<1>3. \A c \in Ids : c \in Nat
  BY DEF Ids
<1>4. \A c \in Ids : c <= given => c # Fresh /\ deliver'[c] = deliver[c]
  <2>1. \A c \in Ids : c <= given => c # Fresh
    BY <1>1, <1>3
  <2> QED
    BY <1>1, <2>1 DEF TypeOK
<1>5. pending'["image"] = q \/ (pending'["image"] = Append(q, e) /\ taken /\ o = "image")
  BY <1>1, <1>2 DEF TypeOK
<1> HIDE DEF e, q
<1>6. ASSUME NEW i \in DOMAIN pending'["image"]
      PROVE  \/ i \in DOMAIN q /\ pending'["image"][i] = q[i]
             \/ taken /\ o = "image" /\ pending'["image"][i] = e
  <2>1. CASE pending'["image"] = q
    BY <1>6, <2>1
  <2>2. CASE pending'["image"] = Append(q, e) /\ taken /\ o = "image"
    <3>1. /\ DOMAIN q = 1 .. Len(q) /\ Len(q) \in Nat
          /\ DOMAIN Append(q, e) = 1 .. Len(q) + 1
          /\ \A k \in 1 .. Len(q) : Append(q, e)[k] = q[k]
          /\ Append(q, e)[Len(q) + 1] = e
      BY <1>1, <1>2, AppendPositions
    <3>2. i \in 1 .. Len(q) \/ i = Len(q) + 1
      BY <1>6, <2>2, <3>1
    <3> QED
      BY <2>2, <3>1, <3>2
  <2> QED
    BY <1>5, <2>1, <2>2
<1>7. dataProc # None => dataProc # Fresh /\ deliver'[dataProc] = deliver[dataProc]
  BY <1>4 DEF TypeOK, BlocksInv, Numbered
<1>8. name \in MakesRefDeliver => deliver'[Fresh] = <<>>
  BY <1>1 DEF TypeOK
<1>9. Fresh # None /\ Fresh > given
  BY <1>1, <1>3 DEF CommandsAssumption
<1> QED
  BY <1>1, <1>2, <1>4, <1>6, <1>7, <1>8, <1>9 DEF q

(* Finishing commands leaves the buffers of those still to be finished,    *)
(* and DataProc as it was unless the first of the image was to set it.     *)
LEMMA FinishingKeepsQueue ==
  ASSUME TypeOK, BlocksInv, BlocksInv',
         Finish \/ DeleteGoesOn \/ \E o \in ObjectNames : Close(o)
  PROVE  \A i \in DOMAIN pending'["image"] : \E j \in DOMAIN pending["image"] :
           LET c == pending["image"][j] IN
             /\ pending'["image"][i] = c /\ (i # 1 => j # 1)
             /\ c.name \in MakesRefDeliver => deliver'[c.id] = deliver[c.id]
             /\ c.name \in Fetches /\ dataProc' # None => deliver'[dataProc'] = deliver[dataProc']
             /\ \/ dataProc' \in {None, dataProc}
                \/ /\ j # 1 /\ 1 \in DOMAIN pending["image"]
                   /\ pending["image"][1].name = "SetDataProc"
                   /\ dataProc' = pending["image"][1].id
<1> DEFINE q == pending["image"]
(* What becomes of the queue and of DataProc. *)
<1>1. \/ pending'["image"] = <<>>
      \/ pending'["image"] = q /\ dataProc' \in {None, dataProc}
      \/ /\ q # <<>> /\ pending' = [pending EXCEPT !["image"] = Tail(@)]
         /\ \/ dataProc' \in {None, dataProc}
            \/ Head(q).name = "SetDataProc" /\ dataProc' = Head(q).id
  <2>1. CASE Finish
    <3> DEFINE o == Top.on
    <3>1. o \in ObjectNames /\ pending[o] # <<>>
      BY <2>1, BelowPositions DEF Finish, Waiting, Frames
    <3>2. /\ pending' = [pending EXCEPT ![o] = Tail(@)]
          /\ dataProc' \in Redirected(Head(pending[o]))
      BY <2>1 DEF Finish
    <3>3. CASE o = "image"
      BY <3>1, <3>2, <3>3 DEF Redirected
    <3>4. CASE o # "image"
      <4>1. pending'["image"] = q
        BY <3>2, <3>4 DEF TypeOK, ObjectNames
      <4>2. Head(pending[o]).name # "SetDataProc"
        <5> HIDE DEF o
        <5>1. Head(pending[o]) = pending[o][1] /\ 1 \in DOMAIN pending[o]
          BY <3>1, <3>2, QueueLeft
        <5>2. Numbered
          BY DEF BlocksInv
        <5>3. pending[o][1].name \in MakesRefDeliver => o = "image"
          BY <3>1, <5>1, <5>2 DEF Numbered
        <5> QED
          BY <3>4, <5>1, <5>3 DEF MakesRefDeliver
      <4> QED
        BY <3>2, <4>1, <4>2 DEF Redirected
    <3> QED
      BY <3>3, <3>4
  <2>2. CASE DeleteGoesOn
    <3>1. "image" \in ObjectNames /\ pending \in [ObjectNames -> Seq(Commands)]
      BY DEF ObjectNames, TypeOK
    <3> QED
      BY <2>2, <3>1 DEF DeleteGoesOn, DeleteFailsEarly, DeleteFailsLate, DeleteSucceeds
  <2>3. ASSUME NEW o \in ObjectNames, Close(o) PROVE pending'["image"] = <<>>
    <3>1. "image" \in Under(o) /\ "image" \in ObjectNames
      BY DEF Under, ObjectNames
    <3> QED
      BY <2>3, <3>1 DEF Close
  <2> QED
    BY <2>1, <2>2, <2>3
(* What becomes of a buffer. *)
<1>2. \A d \in Ids : deliver'[d] = deliver[d] \/ deliver'[d] = None
  <2>1. ASSUME NEW C, CompletionProc(C)
        PROVE  \A d \in Ids : deliver'[d] = deliver[d] \/ deliver'[d] = None
    BY <2>1 DEF CompletionProc, Delivered
  <2>2. \/ UNCHANGED deliver \/ \E C : CompletionProc(C)
    BY DEF Finish, DeleteGoesOn, DeleteFailsEarly, DeleteFailsLate, DeleteSucceeds, Close
  <2> QED
    BY <2>1, <2>2
<1>3. "image" \in ObjectNames /\ \A j \in DOMAIN q : q[j].id \in Ids
  BY PendingIds DEF ObjectNames
<1>4. ASSUME NEW i \in DOMAIN pending'["image"], NEW j \in DOMAIN q, pending'["image"][i] = q[j]
      PROVE  /\ q[j].name \in MakesRefDeliver => deliver'[q[j].id] = deliver[q[j].id]
             /\ q[j].name \in Fetches /\ dataProc' # None
                  => deliver'[dataProc'] = deliver[dataProc']
  <2>1. q[j].name \in MakesRefDeliver => deliver'[q[j].id] # None
    BY <1>3, <1>4 DEF BlocksInv, Numbered
  <2>2. q[j].name \in Fetches /\ dataProc' # None => deliver'[dataProc'] # None
    BY <1>4 DEF BlocksInv, LatestBlock
  <2>3. dataProc' # None => dataProc' \in Ids
    <3>1. dataProc' \in {None, dataProc} \/ (q # <<>> /\ dataProc' = Head(q).id)
      BY <1>1, <1>4
    <3>2. q # <<>> => Head(q).id \in Ids
      BY <1>3, PendingType
    <3> QED
      BY <3>1, <3>2 DEF TypeOK
  <2> QED
    BY <1>2, <1>3, <2>1, <2>2, <2>3
<1>5. CASE pending'["image"] = <<>>
  BY <1>5
<1>6. CASE pending'["image"] = q /\ dataProc' \in {None, dataProc}
  BY <1>4, <1>6
<1>7. CASE /\ q # <<>> /\ pending' = [pending EXCEPT !["image"] = Tail(@)]
           /\ \/ dataProc' \in {None, dataProc}
              \/ Head(q).name = "SetDataProc" /\ dataProc' = Head(q).id
  <2>1. /\ Head(q) = q[1] /\ 1 \in DOMAIN q
        /\ \A i \in DOMAIN pending'["image"] :
             i + 1 \in DOMAIN q /\ i + 1 # 1 /\ pending'["image"][i] = q[i + 1]
    <3>1. /\ Head(q) = q[1] /\ 1 \in DOMAIN q
          /\ \A i \in DOMAIN pending'["image"] :
               i \in Nat \ {0} /\ i + 1 \in DOMAIN q /\ pending'["image"][i] = q[i + 1]
      BY <1>3, <1>7, QueueLeft
    <3>2. \A i \in Nat \ {0} : i + 1 # 1
      OBVIOUS
    <3> QED
      BY <3>1, <3>2
  <2>2. ASSUME NEW i \in DOMAIN pending'["image"]
        PROVE  /\ i + 1 \in DOMAIN q
               /\ pending'["image"][i] = q[i + 1] /\ (i # 1 => i + 1 # 1)
               /\ q[i + 1].name \in MakesRefDeliver
                    => deliver'[q[i + 1].id] = deliver[q[i + 1].id]
               /\ q[i + 1].name \in Fetches /\ dataProc' # None
                    => deliver'[dataProc'] = deliver[dataProc']
               /\ \/ dataProc' \in {None, dataProc}
                  \/ /\ i + 1 # 1 /\ 1 \in DOMAIN q /\ q[1].name = "SetDataProc"
                     /\ dataProc' = q[1].id
    BY <1>4, <1>7, <2>1, <2>2
  <2> QED
    BY <2>2
<1> QED
  BY <1>1, <1>5, <1>6, <1>7

(* No step writes into a RefDeliver before DataProc is set to it. *)
LEMMA UnusedStep ==
  ASSUME CommandsAssumption, TypeOK, BlocksInv, BlocksInv', UnusedBuffers, [Next]_vars
  PROVE  UnusedBuffers'
<1>1. ASSUME NEW o \in ObjectNames, NEW name \in CommandNames, NEW taken \in BOOLEAN,
             Gives(o, name, taken),
             \/ dataProc' \in {None, dataProc}
             \/ name # "SetDataProc" /\ dataProc' = Fresh
      PROVE  UnusedBuffers'
  <2> SUFFICES ASSUME NEW i \in DOMAIN pending'["image"],
                      pending'["image"][i].name = "SetDataProc"
               PROVE  LET c == pending'["image"][i] IN
                        deliver'[c.id] = <<>> /\ dataProc' # c.id
    BY DEF UnusedBuffers
  <2> DEFINE c == pending'["image"][i]
  <2>1. /\ \/ /\ i \in DOMAIN pending["image"] /\ c = pending["image"][i]
              /\ c.id # Fresh /\ deliver'[c.id] = deliver[c.id]
           \/ c.id = Fresh /\ c.name = name
        /\ dataProc # None => dataProc # Fresh
        /\ name \in MakesRefDeliver => deliver'[Fresh] = <<>>
        /\ Fresh # None
    BY <1>1, GivingKeepsQueue
  <2>2. i \in DOMAIN pending["image"] => None # pending["image"][i].id
    <3>1. \A d \in Ids : d # None
      BY DEF Ids, CommandsAssumption
    <3> QED
      BY <3>1, PendingIds DEF ObjectNames
  <2>3. CASE /\ i \in DOMAIN pending["image"] /\ c = pending["image"][i]
             /\ c.id # Fresh /\ deliver'[c.id] = deliver[c.id]
    BY <1>1, <2>2, <2>3 DEF UnusedBuffers
  <2>4. CASE c.id = Fresh /\ c.name = name
    BY <1>1, <2>1, <2>4 DEF MakesRefDeliver
  <2> QED
    BY <2>1, <2>3, <2>4
<1>2. CASE \/ \E o \in ObjectNames, name \in CommandNames, then \in Continuations :
                Calls(o, name, then)
           \/ \E o \in ObjectNames, name \in CommandNames, then \in Continuations, why \in Reasons :
                CallsNext(o, name, then, why)
           \/ \E o \in ObjectNames, name \in CommandNames, taken \in BOOLEAN : Fires(o, name, taken)
  <2>1. ASSUME NEW o \in ObjectNames, NEW name \in CommandNames, NEW then \in Continuations,
               Calls(o, name, then)
        PROVE  UnusedBuffers'
    <3>1. PICK taken \in BOOLEAN : Gives(o, name, taken)
      BY <2>1, Names DEF Calls, Orders
    <3>2. dataProc' = dataProc \/ (name # "SetDataProc" /\ dataProc' = Fresh)
      BY <2>1 DEF Calls, Fetches
    <3> QED
      BY <1>1, <3>1, <3>2
  <2>2. ASSUME NEW o \in ObjectNames, NEW name \in CommandNames, NEW then \in Continuations,
               NEW why \in Reasons, CallsNext(o, name, then, why)
        PROVE  UnusedBuffers'
    <3>1. PICK taken \in BOOLEAN : Gives(o, name, taken)
      BY <2>2, Names DEF CallsNext, Orders
    <3> QED
      BY <1>1, <2>2, <3>1 DEF CallsNext, Stops
  <2>3. ASSUME NEW o \in ObjectNames, NEW name \in CommandNames, NEW taken \in BOOLEAN,
               Fires(o, name, taken)
        PROVE  UnusedBuffers'
    BY <1>1, <2>3 DEF Fires
  <2> QED
    BY <1>2, <2>1, <2>2, <2>3
<1>3. CASE Quiet \/ \E why \in Reasons : Leaves(why)
  <2>1. UNCHANGED <<pending, deliver>> /\ dataProc' \in {None, dataProc}
    BY <1>3 DEF Quiet, Leaves, Stops
  <2>2. \A i \in DOMAIN pending["image"] : pending["image"][i].id # None
    <3>1. \A d \in Ids : d # None
      BY DEF Ids, CommandsAssumption
    <3> QED
      BY <3>1, PendingIds DEF ObjectNames
  <2> QED
    BY <2>1, <2>2 DEF UnusedBuffers
<1>4. CASE FetchedAtOnce
  BY <1>4 DEF FetchedAtOnce, UnusedBuffers
<1>5. CASE DataProc
  <2>1. /\ UNCHANGED <<pending, dataProc>>
        /\ \A d \in Ids : d # dataProc => deliver'[d] = deliver[d]
    BY <1>5 DEF DataProc, TypeOK
  <2>2. \A i \in DOMAIN pending["image"] : pending["image"][i].id \in Ids
    BY PendingIds DEF ObjectNames
  <2> QED
    BY <2>1, <2>2 DEF UnusedBuffers
<1>6. CASE Finish \/ DeleteGoesOn \/ \E o \in ObjectNames : Close(o)
  <2> SUFFICES ASSUME NEW i \in DOMAIN pending'["image"],
                      pending'["image"][i].name = "SetDataProc"
               PROVE  LET c == pending'["image"][i] IN
                        deliver'[c.id] = <<>> /\ dataProc' # c.id
    BY DEF UnusedBuffers
  <2>1. PICK j \in DOMAIN pending["image"] :
          LET c == pending["image"][j] IN
            /\ pending'["image"][i] = c
            /\ c.name \in MakesRefDeliver => deliver'[c.id] = deliver[c.id]
            /\ \/ dataProc' \in {None, dataProc}
               \/ /\ j # 1 /\ 1 \in DOMAIN pending["image"]
                  /\ dataProc' = pending["image"][1].id
    BY <1>6, FinishingKeepsQueue
  <2>2. /\ "image" \in ObjectNames /\ pending["image"][j].id \in Ids
        /\ \A d \in Ids : d # None
    BY PendingIds DEF ObjectNames, Ids, CommandsAssumption
  <2>3. 1 \in DOMAIN pending["image"] /\ j # 1
          => pending["image"][1].id # pending["image"][j].id
    <3>1. Numbered
      BY DEF BlocksInv
    <3> QED
      BY <2>2, <3>1 DEF Numbered
  <2> QED
    BY <2>1, <2>2, <2>3 DEF UnusedBuffers, MakesRefDeliver
<1> QED
  BY <1>2, <1>3, <1>4, <1>5, <1>6, Kinds

(* What a fetch that is still to be finished keeps in a step. *)
Kept ==
  \A i \in DOMAIN pending'["image"] :
    LET c == pending'["image"][i] IN
      c.name \in Fetches =>
        /\ \E j \in DOMAIN pending["image"] : c = pending["image"][j] /\ (i # 1 => j # 1)
        /\ \/ dataProc' = None
           \/ dataProc' = dataProc /\ deliver'[dataProc] = deliver[dataProc]
           \/ sent[c.id] = 0 /\ deliver'[dataProc'] = <<>>

(* The fetches that are still to be finished were there before, with their *)
(* buffers, and below the same outermost function. *)
LEMMA OldFetches ==
  ASSUME OneFetch, sent' = sent, Kept,
         stack # <<>> => stack' # <<>> /\ stack'[1] = stack[1]
  PROVE  OneFetch'
<1> SUFFICES ASSUME NEW i \in DOMAIN pending'["image"],
                    pending'["image"][i].name \in Fetches
             PROVE  LET c == pending'["image"][i] IN
                      /\ stack' # <<>> /\ stack'[1].cmd = c.id /\ stack'[1].name \in Fetches
                      /\ i # 1 => sent[c.id] = 0
                      /\ dataProc' # None /\ sent[c.id] < Chunks
                           => Holds(deliver'[dataProc'], c.id, sent[c.id])
  BY DEF OneFetch
<1> DEFINE c == pending'["image"][i]
<1>1. PICK j \in DOMAIN pending["image"] : c = pending["image"][j] /\ (i # 1 => j # 1)
  BY DEF Kept
<1>2. \/ dataProc' = None
      \/ dataProc' = dataProc /\ deliver'[dataProc] = deliver[dataProc]
      \/ sent[c.id] = 0 /\ deliver'[dataProc'] = <<>>
  BY DEF Kept
<1>3. /\ stack # <<>> /\ stack[1].cmd = c.id /\ stack[1].name \in Fetches
      /\ j # 1 => sent[c.id] = 0
      /\ dataProc # None /\ sent[c.id] < Chunks => Holds(deliver[dataProc], c.id, sent[c.id])
  BY <1>1 DEF OneFetch
<1>4. Holds(<<>>, c.id, 0)
  BY DEF Holds
<1> HIDE DEF c
<1> QED
  BY <1>1, <1>2, <1>3, <1>4 DEF c

(* At the menu no fetch is still to be finished. *)
LEMMA NoFetchAtMenu ==
  ASSUME OneFetch, stack = <<>>
  PROVE  \A i \in DOMAIN pending["image"] : pending["image"][i].name \notin Fetches
BY DEF OneFetch

(* A fetch that is given is the only one, and DataProc is set for it. *)
LEMMA FetchKeepsOne ==
  ASSUME CommandsAssumption, TypeOK, BlocksInv, OneFetch, Unsent,
         NEW o \in ObjectNames, NEW name \in Fetches, NEW then \in Continuations,
         Calls(o, name, then)
  PROVE  OneFetch'
<1>1. name \in CommandNames /\ name \in MakesRefDeliver
  BY Names DEF MakesRefDeliver
<1>2. o = "image" /\ stack = <<>> /\ stack \in Seq(Frames) /\ dataProc' = Fresh
  BY <1>1 DEF Calls, TypeOK
<1>3. PICK taken \in BOOLEAN :
        /\ Gives(o, name, taken)
        /\ stack' = IF taken \/ name \in Insistent
                    THEN Append(stack, [cmd |-> Fresh, name |-> name, on |-> o, then |-> then])
                    ELSE stack
  BY Names DEF Calls, Orders
<1>4. taken => stack' # <<>> /\ stack'[1].cmd = Fresh /\ stack'[1].name = name
  <2> DEFINE f == [cmd |-> Fresh, name |-> name, on |-> o, then |-> then]
  <2>1. Append(<<>>, f) = <<f>> /\ f.cmd = Fresh /\ f.name = name
    OBVIOUS
  <2>2. taken => stack' = Append(<<>>, f)
    BY <1>2, <1>3
  <2> HIDE DEF f
  <2> QED
    BY <2>1, <2>2
<1>5. /\ \A i \in DOMAIN pending'["image"] :
            LET c == pending'["image"][i] IN
              \/ i \in DOMAIN pending["image"] /\ c = pending["image"][i]
              \/ taken /\ c.id = Fresh
      /\ deliver'[Fresh] = <<>> /\ Fresh \in Ids /\ Fresh > given
  BY <1>1, <1>3, GivingKeepsQueue
<1>6. sent' = sent /\ sent[Fresh] = 0
  BY <1>3, <1>5 DEF Gives, Unsent
<1>7. Holds(<<>>, Fresh, 0)
  BY DEF Holds
<1>8. ASSUME NEW i \in DOMAIN pending'["image"], pending'["image"][i].name \in Fetches
      PROVE  taken /\ pending'["image"][i].id = Fresh
  BY <1>2, <1>5, <1>8, NoFetchAtMenu
<1> QED
  BY <1>2, <1>4, <1>5, <1>6, <1>7, <1>8 DEF OneFetch

(* DataProc fills the buffer of the one fetch, and writes a whole file. *)
LEMMA DataProcKeepsWhole ==
  ASSUME CommandsAssumption, TypeOK, BlocksInv, OneFetch, \A f \in saved : WholeFile(f),
         DataProc
  PROVE  OneFetch' /\ \A f \in saved' : WholeFile(f)
<1> DEFINE c == Head(pending["image"])
           part == [cmd |-> c.id, no |-> sent[c.id] + 1]
           buffer == Append(deliver[dataProc], part)
<1>1. /\ pending["image"] # <<>> /\ dataProc # None /\ c.name \in Fetches
      /\ sent[c.id] < Chunks /\ sent' = [sent EXCEPT ![c.id] = @ + 1]
      /\ IF deliver[dataProc] = None
         THEN wild' = wild \cup {"deliver"} /\ UNCHANGED <<deliver, saved>>
         ELSE /\ wild' = wild
              /\ deliver' = [deliver EXCEPT ![dataProc] =
                               IF Complete(buffer) THEN <<>> ELSE buffer]
              /\ saved' = IF Complete(buffer) THEN saved \cup {buffer} ELSE saved
      /\ UNCHANGED <<stack, pending, dataProc>>
  BY DEF DataProc
<1>2. pending["image"] \in Seq(Commands)
  BY PendingIds DEF ObjectNames
<1>3. c = pending["image"][1] /\ 1 \in DOMAIN pending["image"] /\ c.id \in Ids
  <2>1. c = pending["image"][1] /\ 1 \in DOMAIN pending["image"]
    BY <1>1, <1>2, TailPositions
  <2>2. pending["image"][1].id \in Ids
    BY <2>1, PendingIds DEF ObjectNames
  <2> QED
    BY <2>1, <2>2
<1>4. /\ stack # <<>> /\ stack[1].cmd = c.id /\ dataProc \in Ids
      /\ Holds(deliver[dataProc], c.id, sent[c.id]) /\ deliver[dataProc] # None
  BY <1>1, <1>3 DEF OneFetch, BlocksInv, LatestBlock, TypeOK
<1> DEFINE n == sent[c.id]
<1>5. n \in Nat /\ Chunks \in Nat /\ n + 1 <= Chunks
  BY <1>1, <1>3 DEF TypeOK, CommandsAssumption
<1>6. part \in Parts
  BY <1>3, <1>5 DEF Parts
<1>7. Holds(buffer, c.id, n + 1)
  <2>1. deliver[dataProc] \in Seq(Parts) /\ Len(deliver[dataProc]) = n
    BY <1>4 DEF Holds
  <2>2. /\ buffer = Append(deliver[dataProc], part) /\ buffer \in Seq(Parts)
        /\ Len(buffer) = n + 1
        /\ \A k \in 1 .. n : buffer[k] = deliver[dataProc][k]
        /\ buffer[n + 1] = part
    BY <1>6, <2>1, AppendPositions
  <2>3. \A k \in 1 .. n + 1 : k = n + 1 \/ k \in 1 .. n
    BY <1>5
  <2> HIDE DEF buffer
  <2> QED
    BY <1>4, <2>2, <2>3 DEF Holds
<1>8. /\ deliver'[dataProc] = IF Complete(buffer) THEN <<>> ELSE buffer
      /\ saved' = IF Complete(buffer) THEN saved \cup {buffer} ELSE saved
      /\ sent'[c.id] = n + 1
  BY <1>1, <1>3, <1>4 DEF TypeOK
<1>u. UNCHANGED <<stack, pending, dataProc>>
  BY <1>1
<1> HIDE DEF c, part, buffer, n
<1>9. Complete(buffer) => n + 1 = Chunks /\ WholeFile(buffer)
  <2> SUFFICES ASSUME Complete(buffer) PROVE n + 1 = Chunks /\ WholeFile(buffer)
    OBVIOUS
  <2>1. n + 1 = Chunks
    BY <1>5, <1>7 DEF Complete, Holds
  <2>2. 1 \in 1 .. Chunks
    BY <1>5, <2>1
  <2>3. \A k \in 1 .. Chunks : buffer[k] = [cmd |-> c.id, no |-> k]
    BY <1>7, <2>1 DEF Holds
  <2>4. buffer[1].cmd = c.id
    <3>1. buffer[1] = [cmd |-> c.id, no |-> 1]
      BY <2>2, <2>3
    <3> QED
      BY <3>1
  <2> QED
    BY <1>7, <2>1, <2>3, <2>4 DEF WholeFile, Holds
<1>10. \A f \in saved' : WholeFile(f)
  BY <1>8, <1>9
<1>11. n + 1 < Chunks => Holds(deliver'[dataProc], c.id, n + 1)
  <2>1. n + 1 < Chunks => ~ Complete(buffer)
    BY <1>5, <1>9
  <2> QED
    BY <1>7, <1>8, <2>1
(* No other fetch is in the queue, and none further down. *)
<1>12. ASSUME NEW i \in DOMAIN pending["image"], pending["image"][i].name \in Fetches
       PROVE  i = 1 /\ pending["image"][i].id = c.id /\ stack[1].name \in Fetches
  <2>1. pending["image"][i].id = c.id /\ stack[1].name \in Fetches
    BY <1>4, <1>12 DEF OneFetch
  <2>2. Numbered /\ "image" \in ObjectNames
    BY DEF BlocksInv, ObjectNames
  <2> QED
    BY <1>3, <2>1, <2>2 DEF Numbered
<1>13. OneFetch'
  <2> SUFFICES ASSUME NEW i \in DOMAIN pending["image"],
                      pending["image"][i].name \in Fetches
               PROVE  /\ stack # <<>> /\ stack[1].cmd = c.id /\ stack[1].name \in Fetches
                      /\ i = 1
                      /\ sent'[c.id] < Chunks
                           => Holds(deliver'[dataProc], c.id, sent'[c.id])
    BY <1>u, <1>12 DEF OneFetch
  <2> QED
    BY <1>4, <1>8, <1>11, <1>12
<1> QED
  BY <1>10, <1>13

LEMMA OuterStep ==
  ASSUME CommandsAssumption, TypeOK, OuterFetch, [Next]_vars
  PROVE  OuterFetch'
<1>1. ASSUME NEW o \in ObjectNames, NEW name \in CommandNames, NEW then \in Continuations,
             NEW q \in Seq(Frames), Orders(q, o, name, then),
             \A i \in DOMAIN q : q[i].name \in Fetches => i = 1,
             name \in Fetches => q = <<>>
      PROVE  OuterFetch'
  <2> DEFINE f == FrameOf(o, name, then)
  <2>1. f \in Frames /\ f.name = name /\ (stack' = Append(q, f) \/ stack' = q)
    <3>1. f \in Frames /\ (stack' = Append(q, f) \/ stack' = q)
      BY <1>1, OrdersType
    <3> QED
      BY <3>1 DEF FrameOf
  <2> HIDE DEF f
  <2>2. CASE stack' = Append(q, f)
    <3>1. /\ DOMAIN stack' = 1 .. Len(q) + 1 /\ Len(q) \in Nat /\ DOMAIN q = 1 .. Len(q)
          /\ \A i \in 1 .. Len(q) : stack'[i] = q[i]
          /\ stack'[Len(q) + 1] = f
      BY <2>1, <2>2, AppendPositions
    <3>2. \A i \in 1 .. Len(q) + 1 : i \in 1 .. Len(q) \/ i = Len(q) + 1
      BY <3>1
    <3>3. name \in Fetches => Len(q) = 0
      BY <1>1
    <3> QED
      BY <1>1, <2>1, <3>1, <3>2, <3>3 DEF OuterFetch
  <2> QED
    BY <1>1, <2>1, <2>2 DEF OuterFetch
<1>2. stack # <<>> => Below \in Seq(Frames) /\ \A i \in DOMAIN Below : Below[i].name \in Fetches => i = 1
  BY BelowPositions DEF OuterFetch
<1>3. ASSUME NEW o \in ObjectNames, NEW name \in CommandNames, NEW then \in Continuations,
             Calls(o, name, then)
      PROVE  OuterFetch'
  BY <1>1, <1>3 DEF Calls, OuterFetch, TypeOK, MakesRefDeliver
<1>4. ASSUME NEW o \in ObjectNames, NEW name \in CommandNames, NEW then \in Continuations,
             NEW why \in Reasons, CallsNext(o, name, then, why)
      PROVE  OuterFetch'
  <2>1. name \notin Fetches /\ stack # <<>> /\ Orders(Below, o, name, then)
    BY <1>4, Names DEF CallsNext, Stops
  <2> QED
    BY <1>1, <1>2, <2>1
<1>5. CASE DeleteGoesOn \/ \E why \in Reasons : Leaves(why)
  BY <1>2, <1>5 DEF DeleteGoesOn, Leaves, Stops, OuterFetch
<1>6. CASE \/ Quiet \/ FetchedAtOnce \/ Finish \/ DataProc
           \/ \E o \in ObjectNames : Close(o)
           \/ \E o \in ObjectNames, name \in CommandNames, taken \in BOOLEAN : Fires(o, name, taken)
  <2>1. stack' = stack
    BY <1>6 DEF Quiet, FetchedAtOnce, Finish, DataProc, Close, Fires
  <2> QED
    BY <2>1 DEF OuterFetch
<1> QED
  BY <1>3, <1>4, <1>5, <1>6, Kinds

LEMMA UnsentStep ==
  ASSUME CommandsAssumption, TypeOK, BlocksInv, Unsent, [Next]_vars
  PROVE  Unsent'
<1>1. given \in Nat /\ Fresh = given + 1 /\ sent \in [Ids -> 0 .. Chunks]
      /\ \A c \in Ids : c \in Nat
  BY DEF TypeOK, Fresh, Ids
<1>2. \A c \in Ids : c > Fresh => c > given
  BY <1>1
<1>3. ASSUME sent' = sent, given' \in {given, Fresh} PROVE Unsent'
  BY <1>2, <1>3 DEF Unsent
<1>4. CASE FetchedAtOnce
  <2>1. given' = Fresh /\ sent' = [sent EXCEPT ![Fresh] = Chunks]
    BY <1>4 DEF FetchedAtOnce
  <2>2. \A c \in Ids : c > given' => c > given /\ c # Fresh
    BY <1>1, <1>2, <2>1
  <2> QED
    BY <1>1, <2>1, <2>2 DEF Unsent
<1>5. CASE DataProc
  <2> DEFINE c == Head(pending["image"])
  <2>1. /\ pending["image"] # <<>> /\ given' = given
        /\ sent' = [sent EXCEPT ![c.id] = @ + 1]
    BY <1>5 DEF DataProc
  <2>2. c.id \in Ids /\ c.id <= given
    <3>1. pending["image"] \in Seq(Commands) /\ "image" \in ObjectNames
      BY PendingIds DEF ObjectNames
    <3>2. c = pending["image"][1] /\ 1 \in DOMAIN pending["image"]
      BY <2>1, <3>1, TailPositions
    <3> HIDE DEF c
    <3> QED
      BY <3>1, <3>2, PendingIds DEF BlocksInv, Numbered
  <2> HIDE DEF c
  <2>3. \A d \in Ids : d > given => d # c.id
    BY <1>1, <2>2
  <2> QED
    BY <1>1, <2>1, <2>3 DEF Unsent
<1>6. \A o, name, taken : Gives(o, name, taken) => sent' = sent /\ given' = Fresh
  BY DEF Gives
<1>7. CASE \/ \E o \in ObjectNames, name \in CommandNames, then \in Continuations :
                Calls(o, name, then)
           \/ \E o \in ObjectNames, name \in CommandNames, then \in Continuations, why \in Reasons :
                CallsNext(o, name, then, why)
           \/ \E o \in ObjectNames, name \in CommandNames, taken \in BOOLEAN : Fires(o, name, taken)
  <2>1. \E o, name, taken : Gives(o, name, taken)
    BY <1>7 DEF Calls, CallsNext, Fires, Orders
  <2> QED
    BY <1>3, <1>6, <2>1
<1>8. CASE \/ Quiet \/ Finish \/ DeleteGoesOn
           \/ \E o \in ObjectNames : Close(o)
           \/ \E why \in Reasons : Leaves(why)
  BY <1>3, <1>8 DEF Quiet, Finish, DeleteGoesOn, Close, Leaves
<1> QED
  BY <1>4, <1>5, <1>7, <1>8, Kinds

(* A function that fetches, and stops waiting, leaves no fetch to be       *)
(* finished, or leaves it behind.                                          *)
LEMMA LeavingKeepsSaved ==
  ASSUME CommandsAssumption, TypeOK, BlocksInv', Saved, stack # <<>>,
         NEW why, Forgets(why), saved' = saved, sent' = sent, Kept,
         Len(stack) # 1 => stack' # <<>> /\ stack'[1] = stack[1]
  PROVE  Saved'
<1>1. FetchLeft => FetchLeft'
  BY DEF FetchLeft, Forgets
<1>2. SUFFICES ASSUME OneFetch, \A f \in saved : WholeFile(f), ~ FetchLeft'
               PROVE  OneFetch'
  BY <1>1 DEF Saved
<1>3. CASE Len(stack) # 1
  BY <1>2, <1>3, OldFetches
<1>4. CASE Len(stack) = 1
  <2>1. ASSUME NEW i \in DOMAIN pending'["image"], pending'["image"][i].name \in Fetches
        PROVE  FALSE
    <3> DEFINE c == pending'["image"][i]
    <3>1. \E j \in DOMAIN pending["image"] : c = pending["image"][j]
      BY <2>1 DEF Kept
    <3>2. stack[1].cmd = c.id /\ stack[1].name \in Fetches /\ Top = stack[1]
      BY <1>2, <1>4, <2>1, <3>1 DEF OneFetch, Top
    <3>3. c.id \notin finished'
      BY DEF BlocksInv, Numbered, ObjectNames
    <3>4. [id |-> Top.cmd, name |-> Top.name, why |-> why] \in abandoned'
      BY <3>2, <3>3 DEF Forgets
    <3> QED
      BY <1>2, <3>2, <3>4 DEF FetchLeft
  <2> QED
    BY <2>1 DEF OneFetch
<1> QED
  BY <1>3, <1>4

(* Giving a command that is no fetch to be finished keeps the fetches. *)
LEMMA GivingIsKept ==
  ASSUME CommandsAssumption, TypeOK, BlocksInv, NEW o \in ObjectNames, NEW name \in CommandNames,
         NEW taken \in BOOLEAN, Gives(o, name, taken), name \in Fetches => ~taken,
         dataProc' \in {None, dataProc}
  PROVE  Kept /\ saved' = saved /\ sent' = sent
<1>1. saved' = saved /\ sent' = sent
  BY DEF Gives
<1>2. ASSUME NEW i \in DOMAIN pending'["image"], pending'["image"][i].name \in Fetches
      PROVE  /\ i \in DOMAIN pending["image"] /\ pending'["image"][i] = pending["image"][i]
             /\ dataProc' = None \/ (dataProc' = dataProc /\ deliver'[dataProc] = deliver[dataProc])
  <2>1. /\ \/ i \in DOMAIN pending["image"] /\ pending'["image"][i] = pending["image"][i]
           \/ taken /\ pending'["image"][i].name = name
        /\ dataProc # None => deliver'[dataProc] = deliver[dataProc]
    BY GivingKeepsQueue
  <2> QED
    BY <1>2, <2>1
<1> QED
  BY <1>1, <1>2 DEF Kept

(* Finishing commands keeps the other fetches. *)
LEMMA FinishingIsKept ==
  ASSUME CommandsAssumption, TypeOK, BlocksInv, BlocksInv', OneFetch, UnusedBuffers,
         Finish \/ DeleteGoesOn \/ \E o \in ObjectNames : Close(o)
  PROVE  Kept
<1> SUFFICES ASSUME NEW i \in DOMAIN pending'["image"], pending'["image"][i].name \in Fetches
             PROVE  LET c == pending'["image"][i] IN
                      /\ \E j \in DOMAIN pending["image"] :
                           c = pending["image"][j] /\ (i # 1 => j # 1)
                      /\ \/ dataProc' = None
                         \/ dataProc' = dataProc /\ deliver'[dataProc] = deliver[dataProc]
                         \/ sent[c.id] = 0 /\ deliver'[dataProc'] = <<>>
  BY DEF Kept
<1>1. PICK j \in DOMAIN pending["image"] :
        LET c == pending["image"][j] IN
          /\ pending'["image"][i] = c /\ (i # 1 => j # 1)
          /\ c.name \in Fetches /\ dataProc' # None => deliver'[dataProc'] = deliver[dataProc']
          /\ \/ dataProc' \in {None, dataProc}
             \/ /\ j # 1 /\ 1 \in DOMAIN pending["image"]
                /\ pending["image"][1].name = "SetDataProc"
                /\ dataProc' = pending["image"][1].id
  BY FinishingKeepsQueue
<1>2. j # 1 => sent[pending["image"][j].id] = 0
  BY <1>1 DEF OneFetch
<1>3. 1 \in DOMAIN pending["image"] /\ pending["image"][1].name = "SetDataProc"
        => deliver[pending["image"][1].id] = <<>>
  BY DEF UnusedBuffers
<1> QED
  BY <1>1, <1>2, <1>3

LEMMA SavedStep ==
  ASSUME CommandsAssumption, TypeOK, BlocksInv, BlocksInv', WholeInv, [Next]_vars
  PROVE  Saved'
<1>i. OuterFetch /\ Unsent /\ UnusedBuffers /\ Saved
  BY DEF WholeInv
(* A step that leaves the outermost function, and adds no fetch. *)
<1>1. ASSUME OneFetch => Kept, abandoned \subseteq abandoned', saved' = saved, sent' = sent,
             stack # <<>> => stack' # <<>> /\ stack'[1] = stack[1]
      PROVE  Saved'
  <2>1. FetchLeft => FetchLeft'
    BY <1>1 DEF FetchLeft
  <2>2. OneFetch => OneFetch'
    BY <1>1, OldFetches
  <2> QED
    BY <1>i, <1>1, <2>1, <2>2 DEF Saved
(* A step of the innermost function. *)
<1>2. ASSUME NEW why, stack # <<>>, Forgets(why), saved' = saved, sent' = sent,
             OneFetch => Kept, Len(stack) # 1 => stack' # <<>> /\ stack'[1] = stack[1]
      PROVE  Saved'
  <2>1. FetchLeft => FetchLeft'
    BY <1>2 DEF FetchLeft, Forgets
  <2> QED
    BY <1>i, <1>2, <2>1, LeavingKeepsSaved DEF Saved
<1>3. stack # <<>> /\ Len(stack) # 1
        => /\ Below # <<>> /\ Below \in Seq(Frames) /\ Below[1] = stack[1]
  <2> SUFFICES ASSUME stack # <<>>, Len(stack) # 1
               PROVE  Below # <<>> /\ Below \in Seq(Frames) /\ Below[1] = stack[1]
    OBVIOUS
  <2>1. 1 \in DOMAIN Below
    BY BelowPositions
  <2> QED
    BY <2>1, BelowPositions
<1>4. ASSUME NEW q \in Seq(Frames), q # <<>>,
             stack' = q \/ \E f \in Frames : stack' = Append(q, f)
      PROVE  stack' # <<>> /\ stack'[1] = q[1]
  <2>1. ASSUME NEW f \in Frames, stack' = Append(q, f) PROVE stack' # <<>> /\ stack'[1] = q[1]
    <3>1. Len(q) \in Nat \ {0} /\ 1 \in 1 .. Len(q)
      BY <1>4
    <3>2. Len(stack') = Len(q) + 1 /\ stack'[1] = q[1]
      BY <2>1, <3>1, AppendPositions
    <3> QED
      BY <3>1, <3>2
  <2> QED
    BY <1>4, <2>1
<1>5. ASSUME NEW o \in ObjectNames, NEW name \in CommandNames, NEW then \in Continuations,
             Calls(o, name, then)
      PROVE  Saved'
  <2>1. CASE name \in Fetches
    <3>1. UNCHANGED <<saved, abandoned>>
      BY <1>5 DEF Calls, Orders, Gives
    <3>2. OneFetch => OneFetch'
      BY <1>i, <1>5, <2>1, FetchKeepsOne
    <3>3. FetchLeft => FetchLeft'
      BY <3>1 DEF FetchLeft
    <3> QED
      BY <1>i, <3>1, <3>2, <3>3 DEF Saved
  <2>2. CASE name \notin Fetches
    <3>1. /\ Orders(stack, o, name, then) /\ dataProc' = dataProc /\ abandoned' = abandoned
          /\ stack \in Seq(Frames)
      BY <1>5, <2>2 DEF Calls, TypeOK
    <3>2. PICK taken \in BOOLEAN :
            /\ Gives(o, name, taken)
            /\ stack' = stack \/ \E f \in Frames : stack' = Append(stack, f)
      BY <3>1, OrdersType, Names
    <3>3. Kept /\ saved' = saved /\ sent' = sent
      BY <2>2, <3>1, <3>2, GivingIsKept
    <3> QED
      BY <1>1, <1>4, <3>1, <3>2, <3>3
  <2> QED
    BY <2>1, <2>2
<1>6. ASSUME NEW o \in ObjectNames, NEW name \in CommandNames, NEW then \in Continuations,
             NEW why \in Reasons, CallsNext(o, name, then, why)
      PROVE  Saved'
  <2>1. /\ Orders(Below, o, name, then) /\ dataProc' \in {None, dataProc} /\ stack # <<>>
        /\ Forgets(why) /\ name \notin Fetches
    BY <1>6, Names DEF CallsNext, Stops
  <2>2. Below \in Seq(Frames)
    BY <2>1, BelowPositions
  <2>3. PICK taken \in BOOLEAN :
          /\ Gives(o, name, taken)
          /\ stack' = Below \/ \E f \in Frames : stack' = Append(Below, f)
    BY <2>1, <2>2, OrdersType, Names
  <2>4. Kept /\ saved' = saved /\ sent' = sent
    BY <2>1, <2>3, GivingIsKept
  <2>5. Len(stack) # 1 => stack' # <<>> /\ stack'[1] = stack[1]
    BY <1>3, <1>4, <2>1, <2>3
  <2> QED
    BY <1>2, <2>1, <2>4, <2>5
<1>7. ASSUME NEW why \in Reasons, Leaves(why) PROVE Saved'
  <2>1. /\ stack # <<>> /\ Forgets(why) /\ stack' = Below /\ dataProc' \in {None, dataProc}
        /\ UNCHANGED <<pending, deliver, saved, sent>>
    BY <1>7 DEF Leaves, Stops
  <2>2. Kept
    BY <2>1 DEF Kept
  <2> QED
    BY <1>2, <1>3, <2>1, <2>2
<1>8. ASSUME NEW o \in ObjectNames, NEW name \in CommandNames, NEW taken \in BOOLEAN,
             Fires(o, name, taken)
      PROVE  Saved'
  <2>1. /\ Gives(o, name, taken) /\ UNCHANGED <<stack, dataProc>>
        /\ name \in Fetches => ~taken
        /\ abandoned \subseteq abandoned'
    BY <1>8 DEF Fires
  <2>2. Kept /\ saved' = saved /\ sent' = sent
    BY <2>1, GivingIsKept
  <2> QED
    BY <1>1, <2>1, <2>2
<1>9. CASE Quiet
  <2>1. Kept /\ abandoned \subseteq abandoned'
    BY <1>9 DEF Quiet, Kept
  <2> QED
    BY <1>1, <1>9, <2>1 DEF Quiet
<1>10. CASE Finish \/ \E o \in ObjectNames : Close(o)
  <2>1. OneFetch => Kept
    BY <1>i, <1>10, FinishingIsKept
  <2>2. UNCHANGED <<stack, sent, saved, abandoned>>
    BY <1>10 DEF Finish, Close
  <2> QED
    BY <1>1, <2>1, <2>2
<1>11. CASE DeleteGoesOn
  <2>1. OneFetch => Kept
    BY <1>i, <1>11, FinishingIsKept
  <2>2. /\ stack # <<>> /\ Forgets("refused") /\ Top.name \in Fetches
        /\ UNCHANGED <<saved, sent>>
    BY <1>11 DEF DeleteGoesOn, Fetches
  <2>3. Len(stack) = 1
    BY <1>i, <2>2, BelowPositions DEF OuterFetch
  <2> QED
    BY <1>2, <2>1, <2>2, <2>3
<1>12. CASE FetchedAtOnce
  <2>1. /\ pending'["image"] = <<>> /\ UNCHANGED abandoned
        /\ saved' = saved \cup {[n \in 1 .. Chunks |-> [cmd |-> Fresh, no |-> n]]}
    BY <1>12 DEF FetchedAtOnce
  <2>2. WholeFile([n \in 1 .. Chunks |-> [cmd |-> Fresh, no |-> n]])
    <3>1. Chunks \in Nat /\ 1 \in 1 .. Chunks
      BY DEF CommandsAssumption
    <3>2. Len([n \in 1 .. Chunks |-> [cmd |-> Fresh, no |-> n]]) = Chunks
      BY <3>1
    <3> QED
      BY <3>1, <3>2 DEF WholeFile
  <2>3. OneFetch'
    BY <2>1 DEF OneFetch
  <2> QED
    BY <1>i, <2>1, <2>2, <2>3 DEF Saved, FetchLeft
<1>13. CASE DataProc
  <2>1. UNCHANGED abandoned
    BY <1>13 DEF DataProc
  <2>2. FetchLeft => FetchLeft'
    BY <2>1 DEF FetchLeft
  <2> QED
    BY <1>i, <1>13, <2>2, DataProcKeepsWhole DEF Saved
<1> QED
  BY <1>5, <1>6, <1>7, <1>8, <1>9, <1>10, <1>11, <1>12, <1>13, Kinds

(* Unless a fetch is left before the module is done with it, every file    *)
(* that is written is one whole picture, whatever waits inside what, and   *)
(* though DataProc may be set long after the function that set it failed.  *)
THEOREM FilesAreWhole == Spec => []SavedIsWhole
<1>1. CommandsAssumption /\ Init => WholeInv
  <2> SUFFICES ASSUME CommandsAssumption, Init PROVE WholeInv
    OBVIOUS
  <2>1. OuterFetch /\ OneFetch /\ UnusedBuffers
    BY DEF Init, OuterFetch, OneFetch, UnusedBuffers, ObjectNames
  <2>2. Unsent /\ \A f \in saved : WholeFile(f)
    BY DEF Init, Unsent
  <2> QED
    BY <2>1, <2>2 DEF WholeInv, Saved
<1>2. TypeOK /\ BlocksInv /\ BlocksInv' /\ WholeInv /\ [Next]_vars => WholeInv'
  BY OuterStep, UnsentStep, UnusedStep, SavedStep, CommandsAssumption DEF WholeInv
<1>3. WholeInv => SavedIsWhole
  BY DEF WholeInv, Saved, FetchLeft, WholeFile, SavedIsWhole
<1> QED
  BY <1>1, <1>2, <1>3, TypeCorrect, BlocksHold, CommandsAssumption, PTL DEF Spec
=============================================================================
