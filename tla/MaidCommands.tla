---------------------------- MODULE MaidCommands ----------------------------
(***************************************************************************)
(* Asynchronous commands of the Nikon control sample (Function.cpp and     *)
(* CallBack.cpp of Type0023_CtrlSample).                                   *)
(*                                                                         *)
(* A function that issues a command allocates a RefCompletion block that   *)
(* points to a counter in its own frame, and waits in IdleLoop for         *)
(* CompletionProc to count and to free the block.  Acquire adds a          *)
(* RefDeliver block for DataProc, which CompletionProc frees as well.      *)
(* Waiting means giving Command_Async to the object: inside it the module  *)
(* completes commands, delivers data, and calls event procedures, which    *)
(* issue and wait for commands of their own.                               *)
(*                                                                         *)
(* A command is a number, which also names its two blocks and its counter. *)
(* Commands the module finishes at once leave no frame behind.  A module   *)
(* finishes the commands of one object in the order they were given.       *)
(*                                                                         *)
(* EnumCapabilities, EnumChildrten and the six functions that get or set a *)
(* capability wait for their command whatever the module answered, and are *)
(* content with NoError only: after a wait they mostly fail, and so does   *)
(* their caller.                                                           *)
(***************************************************************************)
EXTENDS Naturals, Sequences, FiniteSets

CONSTANTS
  Faults,      \* what may fail: "Async", "Abort", "Cap", "Enum", "Memory", "Incomplete"
  Refused,     \* the commands the module may not take at all
  Pends,       \* the commands the module does not always finish at once
  Nested,      \* does the module finish commands inside its own callbacks?
  Chunks,      \* parts an image is delivered in
  MaxCommands, \* bound: commands given
  MaxDepth,    \* bound: functions that wait at the same time
  None         \* no block

Ids == 1 .. MaxCommands
Parts == [cmd : Ids, no : 1 .. Chunks]

ObjectNames == {"source", "item", "image"}

(* The commands that are waited for even when the module refused them.     *)
(* "Capability" stands for the six functions Command_CapGet, CapSet,       *)
(* CapGetArray, CapGetDefault, CapGetSB and CapSetSB, but for the CapSets  *)
(* of DataProc.                                                            *)
Insistent == {"GetCapCount", "GetCapInfo", "EnumChildren", "Capability",
              "SetDataProc", "ResetDataProc"}
CommandNames == {"Process", "TerminateCapture", "Acquire", "Delete"} \cup Insistent

ASSUME CommandsAssumption ==
  /\ Nested \in BOOLEAN
  /\ Chunks \in Nat \ {0} /\ MaxCommands \in Nat
  /\ None \notin Nat /\ None \notin Seq(Parts)

VARIABLES
  given,     \* the number of commands given so far
  stack,     \* the functions that wait, the innermost last
  pending,   \* pending[o]: the commands object o has still to finish, in order
  finished,  \* the commands whose counter has been counted up
  blocks,    \* the commands whose RefCompletion is allocated
  deliver,   \* deliver[c]: the parts in the buffer of c's RefDeliver; or freed
  dataProc,  \* the RefDeliver the image's DataProc is set to
  sent,      \* sent[c]: the parts of c the module has delivered
  saved,     \* history: the files DataProc has written
  abandoned, \* history: the commands nobody waits for, given up before they were finished
  caps,      \* caps[o]: full, or what a failed enumeration leaves
  array,     \* array[o]: the GetCapInfo that o's array was allocated for
  wild       \* history: used though freed or missing: "deliver", "caps", "array"

vars == <<given, stack, pending, finished, blocks, deliver, dataProc, sent,
          saved, abandoned, caps, array, wild>>

(* What AddChild and its event procedure do after an enumeration: SetProc, *)
(* or SetProc and then EnumChildren; any other function returns.           *)
Continuations == {"return", "procs", "children"}

(* A waiting function: its command and the object it gives Async to. *)
Frames == [cmd : Ids, name : CommandNames, on : ObjectNames, then : Continuations]
Commands == [id : Ids, name : CommandNames]

(* Why a command is not waited for, or no longer, before it is finished. *)
Reasons == {"noWait", "async", "refused"}

TypeOK ==
  /\ given \in 0 .. MaxCommands
  /\ stack \in Seq(Frames)
  /\ pending \in [ObjectNames -> Seq(Commands)]
  /\ finished \in SUBSET Ids /\ blocks \in SUBSET Ids
  /\ abandoned \in SUBSET [id : Ids, name : CommandNames, why : Reasons]
  /\ deliver \in [Ids -> {None} \cup Seq(Parts)]
  /\ dataProc \in Ids \cup {None}
  /\ sent \in [Ids -> 0 .. Chunks]
  /\ saved \in SUBSET Seq(Parts)
  /\ caps \in [ObjectNames -> {"none", "full", "counted", "unfilled"}]
  /\ array \in [ObjectNames -> Ids \cup {None}]
  /\ wild \in SUBSET {"deliver", "caps", "array"}

Init ==
  /\ given = 0 /\ stack = <<>> /\ pending = [o \in ObjectNames |-> <<>>]
  /\ finished = {} /\ blocks = {} /\ abandoned = {}
  /\ deliver = [c \in Ids |-> None] /\ dataProc = None
  /\ sent = [c \in Ids |-> 0] /\ saved = {} /\ wild = {}
  /\ caps = [o \in ObjectNames |-> "full"] /\ array = [o \in ObjectNames |-> None]

-----------------------------------------------------------------------------
Top == stack[Len(stack)]
Below == SubSeq(stack, 1, Len(stack) - 1)

(* Mutant: a number is skipped. *)
Fresh_Twice == given + 2
Fresh == given + 1

(* A picture is fetched by Acquire, and by Delete before it aborts that;  *)
(* both allocate a RefDeliver and set DataProc to it first.               *)
Fetches == {"Acquire", "Delete"}
MakesRefDeliver == Fetches \cup {"SetDataProc"}

(* An object with the objects below it. *)
Under(o) == CASE o = "source" -> ObjectNames
              [] o = "item" -> {"item", "image"}
              [] OTHER -> {"image"}

PendingCommands(o) == {pending[o][n] : n \in 1 .. Len(pending[o])}

(* Using an array of capabilities that is not there ends what can be said. *)
Sane == wild \cap {"caps", "array"} = {}

(* GetCapInfo finds nothing in an empty array, and walks a missing one. *)
Supports(o) == Sane /\ caps[o] = "full"

(* A function makes the blocks of a command; the module takes the command  *)
(* and will finish it later, or does not take it.                          *)
Gives(o, name, taken) ==
  /\ given < MaxCommands
  /\ given' = Fresh
  /\ blocks' = blocks \cup {Fresh}
  /\ deliver' = IF name \in MakesRefDeliver THEN [deliver EXCEPT ![Fresh] = <<>>] ELSE deliver
  /\ pending' = IF taken
                THEN [pending EXCEPT ![o] = Append(@, [id |-> Fresh, name |-> name])]
                ELSE pending
  /\ UNCHANGED <<finished, sent, saved, wild>>

Takes(name) == {taken \in BOOLEAN : name \in IF taken THEN Pends ELSE Refused}

(* A function called by those of "callers" gives a command and waits for   *)
(* it: if the module took it, or all the same.                             *)
Orders(callers, o, name, then) ==
  \E taken \in Takes(name) :
    /\ Gives(o, name, taken)
    /\ stack' = IF taken \/ name \in Insistent
                THEN Append(callers, [cmd |-> Fresh, name |-> name, on |-> o, then |-> then])
                ELSE callers

IdsOf(C) == {c.id : c \in C}
Delivered(C) ==
  [c \in Ids |-> IF \E d \in C : d.id = c /\ d.name \in Fetches THEN None ELSE deliver[c]]

(* Mutant: the blocks are freed, the command is not counted. *)
CompletionProc_NotCounted(C) ==
  /\ finished' = finished
  /\ blocks' = blocks \ IdsOf(C)
  /\ deliver' = Delivered(C)

(* CompletionProc, for the commands of C: count, free the RefCompletion,   *)
(* and the RefDeliver of an Acquire.                                       *)
CompletionProc(C) ==
  /\ finished' = finished \cup IdsOf(C)
  /\ blocks' = blocks \ IdsOf(C)
  /\ deliver' = Delivered(C)

(* What the end of command name makes of the capabilities of its object. *)
Enumerated(name, c) == CASE name = "GetCapCount" /\ c = "none" -> "counted"
                         [] name = "GetCapInfo" /\ c = "unfilled" -> "full"
                         [] OTHER -> c

(* A CapSet of DataProc may fail after all. *)
Redirected(c) == {dataProc} \cup CASE c.name = "SetDataProc" -> {c.id}
                                  [] c.name = "ResetDataProc" -> {None}
                                  [] OTHER -> {}

-----------------------------------------------------------------------------
(* Functions called from a menu.  What the module finishes at once, with   *)
(* no block left, changes nothing here.                                    *)
AtMenu == stack = <<>> /\ Sane

(* A capability that is not found ends the function with its block made. *)
NotFound(o, name) ==
  /\ AtMenu /\ caps[o] \in {"none", "unfilled"}
  /\ Gives(o, name, FALSE)
  /\ UNCHANGED <<stack, dataProc, abandoned, caps, array>>

IssueProcess ==
  /\ AtMenu /\ Supports("source") /\ Orders(stack, "source", "Process", "return")
  /\ UNCHANGED <<dataProc, abandoned, caps, array>>

(* A dialog, or RemoveChild's ResetProc, gets or sets a capability; it     *)
(* fails after a wait.                                                     *)
UseCapability(o) ==
  /\ AtMenu /\ Supports(o) /\ Orders(stack, o, "Capability", "return")
  /\ UNCHANGED <<dataProc, abandoned, caps, array>>

(* TerminateCapture does not wait for its command. *)
TerminateCapture ==
  /\ AtMenu /\ Supports("source")
  /\ \E taken \in Takes("TerminateCapture") :
       /\ Gives("source", "TerminateCapture", taken)
       /\ abandoned' = IF taken
            THEN abandoned \cup {[id |-> Fresh, name |-> "TerminateCapture", why |-> "noWait"]}
            ELSE abandoned
  /\ UNCHANGED <<stack, dataProc, caps, array>>

(* Mutant: DataProc keeps the block it was first set to. *)
SetsDataProc_Once == IF dataProc = None THEN Fresh ELSE dataProc

(* IssueAcquire and DeleteDramCapability set DataProc and start Acquire. *)
SetsDataProc == Fresh

Fetch(name) ==
  /\ AtMenu /\ Supports("image") /\ Orders(stack, "image", name, "return")
  /\ dataProc' = SetsDataProc
  /\ UNCHANGED <<abandoned, caps, array>>

(* DataProc is not set at once: the fetch fails after the wait, and leaves *)
(* the RefDeliver that DataProc may be set to in the end.                  *)
WaitForDataProc ==
  /\ AtMenu /\ Supports("image") /\ Orders(stack, "image", "SetDataProc", "return")
  /\ UNCHANGED <<dataProc, abandoned, caps, array>>

(* DataProc cannot be set. *)
NoDataProc(name) ==
  /\ AtMenu /\ Supports("image") /\ "Cap" \in Faults
  /\ Gives("image", name, FALSE)
  /\ UNCHANGED <<stack, dataProc, abandoned, caps, array>>

(* An image that is delivered at once is saved at once; a DataProc that is *)
(* not reset at once is as after Fetch.  The next object that is opened    *)
(* has no DataProc.                                                        *)
FetchedAtOnce ==
  /\ AtMenu /\ Supports("image") /\ pending["image"] = <<>>
  /\ given < MaxCommands /\ given' = Fresh
  /\ sent' = [sent EXCEPT ![Fresh] = Chunks]
  /\ finished' = finished \cup {Fresh}
  /\ saved' = saved \cup {[n \in 1 .. Chunks |-> [cmd |-> Fresh, no |-> n]]}
  /\ dataProc' \in {None} \cup {Fresh : x \in Faults \cap {"Cap"}}
  /\ UNCHANGED <<stack, pending, blocks, deliver, abandoned, caps, array, wild>>

(* Closing an object ends its commands and those of the objects below; the *)
(* next object of the kind has its own DataProc and capabilities.          *)
Close(o) ==
  /\ AtMenu /\ \E p \in Under(o) : pending[p] # <<>>
  /\ CompletionProc(UNION {PendingCommands(p) : p \in Under(o)})
  /\ pending' = [p \in ObjectNames |-> IF p \in Under(o) THEN <<>> ELSE pending[p]]
  /\ dataProc' = None
  /\ caps' = [p \in ObjectNames |-> IF p \in Under(o) THEN "full" ELSE caps[p]]
  /\ array' = [p \in ObjectNames |-> IF p \in Under(o) THEN None ELSE array[p]]
  /\ UNCHANGED <<given, stack, sent, saved, abandoned, wild>>

-----------------------------------------------------------------------------
(* Inside Command_Async, which IdleLoop gives to the object it waits for. *)
Waiting == stack # <<>> /\ Sane /\ Top.cmd \notin finished

(* Inside a callback the module may leave commands alone until it returns. *)
(* GetCapInfo is written into the array it was given, freed or not.        *)
Finish ==
  /\ Waiting /\ (Nested \/ Len(stack) = 1)
  /\ LET o == Top.on
         c == Head(pending[o])
     IN /\ pending[o] # <<>>
        /\ c.name \in Fetches
             => sent[c.id] = Chunks \/ dataProc = None \/ "Incomplete" \in Faults
        /\ CompletionProc({c})
        /\ pending' = [pending EXCEPT ![o] = Tail(@)]
        /\ dataProc' \in Redirected(c)
        /\ caps' = [caps EXCEPT ![o] = Enumerated(c.name, @)]
        /\ wild' = IF c.name = "GetCapInfo" /\ array[o] # c.id
                   THEN wild \cup {"array"} ELSE wild
  /\ UNCHANGED <<given, stack, sent, saved, abandoned, array>>

(* Mutant: the file is written one part too early. *)
Complete_Early(buffer) == Len(buffer) + 1 >= Chunks

(* DataProc appends a part to the buffer of the RefDeliver it was set to   *)
(* last, and writes the file when it has as much as was announced.         *)
Complete(buffer) == Len(buffer) >= Chunks

DataProc ==
  /\ Waiting /\ Top.on = "image" /\ pending["image"] # <<>> /\ dataProc # None
  /\ LET c == Head(pending["image"])
         part == [cmd |-> c.id, no |-> sent[c.id] + 1]
         buffer == Append(deliver[dataProc], part)
     IN /\ c.name \in Fetches /\ sent[c.id] < Chunks
        /\ sent' = [sent EXCEPT ![c.id] = @ + 1]
        /\ IF deliver[dataProc] = None
           THEN wild' = wild \cup {"deliver"} /\ UNCHANGED <<deliver, saved>>
           ELSE /\ wild' = wild
                /\ deliver' = [deliver EXCEPT ![dataProc] =
                                 IF Complete(buffer) THEN <<>> ELSE buffer]
                /\ saved' = IF Complete(buffer) THEN saved \cup {buffer} ELSE saved
  /\ UNCHANGED <<given, stack, pending, finished, blocks, dataProc, abandoned, caps,
                 array>>

(* What makes functions enumerate the capabilities of o, inside Async or   *)
(* from a menu: CapChange, of the object that is waited for, though it be  *)
(* for an enumeration of its own; and AddChild, of an object that has just *)
(* been opened, by an event of its parent or for a menu.  An object has no *)
(* event procedure before AddChild is through with it.                     *)
Enumerates(o, then) ==
  \/ /\ Waiting /\ Len(stack) < MaxDepth /\ Top.then = "return"
     /\ \/ o = Top.on /\ then = "return"
        \/ /\ pending[o] = <<>>
           /\ \/ Top.on = "source" /\ o = "item" /\ then = "children"
              \/ Top.on = "item" /\ o = "image" /\ then = "procs"
  \/ AtMenu /\ pending[o] = <<>> /\ then = "procs"

(* CapChange frees the array first, which the module may be filling. *)
EnumCapabilities(o, then) ==
  /\ Enumerates(o, then)
  /\ \E name \in {"GetCapCount", "GetCapInfo"} :
       /\ Orders(stack, o, name, then)
       /\ caps' = [caps EXCEPT ![o] = IF name = "GetCapCount" THEN "none" ELSE "unfilled"]
       /\ array' = [array EXCEPT ![o] = IF name = "GetCapCount" THEN None ELSE Fresh]
  /\ UNCHANGED <<dataProc, abandoned>>

(* Finished at once: by errors, or with no memory for the array. *)
EnumeratedAtOnce(o, then) ==
  /\ Enumerates(o, then)
  /\ caps' \in {[caps EXCEPT ![o] = c] :
                  c \in {"full"} \cup {"counted" : x \in Faults \cap {"Memory"}}
                          \cup {d \in {"none", "unfilled"} : "Enum" \in Faults}}
  /\ array' = [array EXCEPT ![o] = None]
  /\ UNCHANGED <<given, stack, pending, finished, blocks, deliver, dataProc, sent,
                 saved, abandoned, wild>>

(* AddChild and SrcEventProc go on when the enumeration did not wait. *)
SetProc(o, then) ==
  /\ Enumerates(o, then) /\ then # "return" /\ Supports(o)
  /\ Orders(stack, o, "Capability", then)
  /\ UNCHANGED <<dataProc, abandoned, caps, array>>

EnumChildrten(o) ==
  /\ Enumerates(o, "children")
  /\ Orders(stack, o, "EnumChildren", "return")
  /\ UNCHANGED <<dataProc, abandoned, caps, array>>

(* What looks a capability up walks an array that was never allocated. *)
WalkCapabilities(o) ==
  /\ Sane /\ caps[o] = "counted"
  /\ wild' = wild \cup {"caps"}
  /\ UNCHANGED <<given, stack, pending, finished, blocks, deliver, dataProc, sent,
                 saved, abandoned, caps, array>>

-----------------------------------------------------------------------------
(* Mutant: Async is given once. *)
IdleLoopEnds_Once(failed) == stack # <<>> /\ Sane

(* IdleLoop ends when the command has been counted, or when Async fails. *)
IdleLoopEnds(failed) ==
  /\ stack # <<>> /\ Sane
  /\ IF failed THEN "Async" \in Faults ELSE Top.cmd \in finished

Forgets(why) ==
  abandoned' = abandoned \cup
    {[id |-> c, name |-> Top.name, why |-> why] : c \in {Top.cmd} \ finished'}

(* After a fetch DataProc is reset, if the module lets it. *)
ResetsDataProc ==
  dataProc' \in IF Top.name \in Fetches
                THEN {None} \cup {dataProc : x \in Faults \cap {"Cap"}} ELSE {dataProc}

Why(failed) == IF failed THEN "async" ELSE "noWait"

(* The RefCompletion belongs to CompletionProc: the function that made it  *)
(* leaves it alone.                                                        *)
FreedOnReturn == {}

Return(failed) ==
  /\ IdleLoopEnds(failed) /\ Top.name # "Delete"
  /\ finished' = finished /\ Forgets(Why(failed)) /\ ResetsDataProc
  /\ stack' = Below
  /\ blocks' = blocks \ FreedOnReturn
  /\ UNCHANGED <<given, pending, deliver, sent, saved, caps, array, wild>>

(* A function goes on after its wait, and waits again: AddChild, SrcEventProc *)
(* after it, and IssueAcquire, which resets DataProc.                      *)
ReturnToSetProc(failed) ==
  /\ IdleLoopEnds(failed) /\ Top.then # "return" /\ Top.name # "Capability"
  /\ Supports(Top.on) /\ Orders(Below, Top.on, "Capability", Top.then)
  /\ Forgets(Why(failed))
  /\ UNCHANGED <<dataProc, caps, array>>

ReturnToEnumChildren(failed) ==
  /\ IdleLoopEnds(failed) /\ Top.then = "children"
  /\ Orders(Below, Top.on, "EnumChildren", "return")
  /\ Forgets(Why(failed))
  /\ UNCHANGED <<dataProc, caps, array>>

ReturnToReset(failed) ==
  /\ IdleLoopEnds(failed) /\ Top.name = "Acquire"
  /\ Orders(Below, "image", "ResetDataProc", "return")
  /\ Forgets(Why(failed))
  /\ UNCHANGED <<dataProc, caps, array>>

(* DeleteDramCapability gives Async once, aborts what the image object is  *)
(* doing, deletes, resets DataProc and closes the image, which ends its    *)
(* other commands; each of these steps may fail and end the function.      *)
DeleteFailsEarly ==
  /\ Faults \cap {"Async", "Abort"} # {}
  /\ dataProc' = dataProc
  /\ UNCHANGED <<pending, finished, blocks, deliver>>

DeleteFailsLate ==
  /\ "Cap" \in Faults
  /\ dataProc' \in {None, dataProc}
  /\ IF pending["image"] = <<>>
     THEN UNCHANGED <<pending, finished, blocks, deliver>>
     ELSE /\ CompletionProc({Head(pending["image"])})
          /\ pending' = [pending EXCEPT !["image"] = Tail(@)]

DeleteSucceeds ==
  /\ dataProc' = None
  /\ CompletionProc(PendingCommands("image"))
  /\ pending' = [pending EXCEPT !["image"] = <<>>]

DeleteGoesOn ==
  /\ stack # <<>> /\ Sane /\ Top.name = "Delete"
  /\ DeleteFailsEarly \/ DeleteFailsLate \/ DeleteSucceeds
  /\ Forgets("refused")
  /\ stack' = Below
  /\ UNCHANGED <<given, sent, saved, caps, array, wild>>

(* One of its CapSets is waited for: CurrentItemID of the camera, DataProc,  *)
(* or, in RemoveChild, the procedures of the image.  Then Delete fails.    *)
DeleteWaits ==
  /\ stack # <<>> /\ Sane /\ Top.name = "Delete"
  /\ \/ /\ \/ Orders(Below, "source", "Capability", "return")
           \/ Orders(Below, "image", "ResetDataProc", "return")
        /\ dataProc' = dataProc
     \/ Orders(Below, "image", "Capability", "return") /\ dataProc' = None
  /\ Forgets("refused")
  /\ UNCHANGED <<caps, array>>

Next ==
  \/ IssueProcess \/ TerminateCapture \/ WaitForDataProc \/ FetchedAtOnce
  \/ \E name \in Fetches : Fetch(name) \/ NoDataProc(name) \/ NotFound("image", name)
  \/ \E name \in {"Process", "TerminateCapture"} : NotFound("source", name)
  \/ \E o \in ObjectNames :
       UseCapability(o) \/ Close(o) \/ WalkCapabilities(o) \/ EnumChildrten(o)
  \/ Finish \/ DataProc \/ DeleteGoesOn \/ DeleteWaits
  \/ \E o \in ObjectNames, then \in Continuations :
       EnumCapabilities(o, then) \/ EnumeratedAtOnce(o, then) \/ SetProc(o, then)
  \/ \E failed \in BOOLEAN : \/ Return(failed) \/ ReturnToSetProc(failed)
                            \/ ReturnToEnumChildren(failed) \/ ReturnToReset(failed)

Spec == Init /\ [][Next]_vars

(* The module works on what it is given Async for, and functions go on. *)
FairSpec ==
  /\ Spec
  /\ WF_vars(DataProc) /\ WF_vars(Finish) /\ WF_vars(DeleteGoesOn)
  /\ WF_vars(Return(FALSE))

-----------------------------------------------------------------------------
(* CompletionProc never frees a block twice nor uses a freed one: what is  *)
(* still to be completed has its RefCompletion, and a fetch its            *)
(* RefDeliver.  And DataProc never writes into a RefDeliver that           *)
(* CompletionProc has freed, although it is set once per object and        *)
(* outlives fetches that failed.                                           *)
BlocksAreLive ==
  /\ \A o \in ObjectNames : \A c \in PendingCommands(o) :
       /\ c.id \in blocks
       /\ c.name \in Fetches => deliver[c.id] # None
  /\ "deliver" \notin wild

(* Unless a fetch was left before the module was done with it, every file  *)
(* has the parts of one image, each once and in order: none of a fetch     *)
(* that was aborted, none of the one before.                               *)
SavedIsWhole ==
  (\A a \in abandoned : a.name \notin Fetches)
    => \A f \in saved : /\ Len(f) = Chunks
                        /\ \A n \in 1 .. Chunks : f[n] = [cmd |-> f[1].cmd, no |-> n]

(* A command is left behind, to count in a frame that is gone, only when   *)
(* Async failed, when Delete goes on -- and by TerminateCapture, which     *)
(* does not wait.  And a function waits for a CompletionProc that is not   *)
(* to come only in those that wait whatever the module answered, and for a *)
(* command that the module refused.                                        *)
Coming(f) == f.cmd \in finished \/ \E c \in PendingCommands(f.on) : c.id = f.cmd

CommandsAreAwaited ==
  /\ \A a \in abandoned : a.why = "noWait" => a.name = "TerminateCapture"
  /\ \A n \in 1 .. Len(stack) :
       Coming(stack[n]) \/ stack[n].name \in Refused \cap Insistent

(* Seen from outside: what has become of a command. *)
Unfinished == {c \in Ids : \E o \in ObjectNames : \E p \in PendingCommands(o) : p.id = c}
StateOf(c) == IF c \in finished THEN "ended"
              ELSE IF c \in Unfinished THEN "pending"
              ELSE IF c <= given THEN "refused" ELSE "new"

Life == INSTANCE CommandLife WITH
          Cmds <- Ids,
          MayFail <- "Async" \in Faults,
          MayInsist <- Refused \cap Insistent # {},
          state <- [c \in Ids |-> StateOf(c)],
          waiting <- [n \in 1 .. Len(stack) |->
                        [cmd |-> stack[n].cmd, firm |-> stack[n].name # "Delete"]],
          left <- IdsOf({a \in abandoned : a.why = "noWait"})

(* Function.cpp:251: IdleLoop waits "for the CompletionProc called".  For  *)
(* all the callbacks in between, events of an object that is enumerated    *)
(* among them, a command is counted at most once, and only if the module   *)
(* had taken it; and functions stop waiting innermost first, each after    *)
(* its own command -- Delete, and where Async failed, before.              *)
ImplementsCommandLife == Life!Spec

(* However functions wait inside callbacks of functions that wait, a       *)
(* module that finishes commands inside its callbacks as well lets the     *)
(* program back to its menu -- unless an enumeration, or a capability that *)
(* is got or set, waits for a command that was refused, which only a       *)
(* failing Async ends, or a freed array was used.                          *)
MenuReturns ==
  stack # <<>> ~> \/ stack = <<>> \/ ~Sane
                  \/ \E n \in 1 .. Len(stack) :
                       stack[n].name \in Insistent /\ ~Coming(stack[n])

=============================================================================
