---------------------------- MODULE MaidSession ----------------------------
(***************************************************************************)
(* The object tree and the command loops of the Nikon control sample       *)
(* (main.cpp, Function.cpp and CallBack.cpp of Type0023_CtrlSample).       *)
(*                                                                         *)
(* The program is one thread.  It opens MAID objects -- cameras (sources), *)
(* the pictures and films on them (items), and the parts of an item that   *)
(* can be fetched (data) -- and mirrors the open ones in a tree of RefObj  *)
(* blocks.  Each object has a command loop that keeps a pointer to its     *)
(* RefObj.  The vendor's module runs its event callbacks only while the    *)
(* program gives it Command_Async: those callbacks open and close objects  *)
(* too, and free RefObj blocks.                                            *)
(*                                                                         *)
(* An object is named by its path.  Dialogs that show and set capabilities *)
(* are in MaidDialogs; here they matter only when they give Async to a     *)
(* camera.  What Async does to commands in progress is in MaidCommands.    *)
(***************************************************************************)
EXTENDS Naturals, Sequences, FiniteSets

CONSTANTS
  Sources,    \* the cameras
  Items,      \* the pictures and films a camera may hold
  Movies,     \* those of Items that are films
  Refusals,   \* what the module may refuse: "Open", "Close", "Cap", "Start"
  MaxEvents,  \* bound: events waiting for one object
  None        \* no object

Kinds == {"Image", "Video", "Thumbnail"}

ASSUME SessionAssumption ==
  /\ None \notin Sources \cup Items \cup Kinds
  /\ Movies \subseteq Items
  /\ MaxEvents \in Nat

Mod == [src |-> None, itm |-> None, dat |-> None]
Src(s) == [src |-> s, itm |-> None, dat |-> None]
Itm(s, i) == [src |-> s, itm |-> i, dat |-> None]
Dat(s, i, k) == [src |-> s, itm |-> i, dat |-> k]

SourceObjects == {Src(s) : s \in Sources}
ItemObjects == {Itm(s, i) : s \in Sources, i \in Items}
DataObjects == {Dat(s, i, k) : s \in Sources, i \in Items, k \in Kinds}
Objects == SourceObjects \cup ItemObjects \cup DataObjects

Parent(p) == IF p.dat # None THEN Itm(p.src, p.itm)
             ELSE IF p.itm # None THEN Src(p.src) ELSE Mod

(* p and everything below it. *)
Subtree(p) == {q \in Objects : /\ q.src = p.src
                               /\ p.itm # None => q.itm = p.itm
                               /\ p.dat # None => q.dat = p.dat}

(* The objects whose loops are running when the innermost one is p's. *)
Chain(p) == {p, Parent(p), Parent(Parent(p))} \ {Mod}

DataTypes(i) == IF i \in Movies THEN {"Video", "Thumbnail"} ELSE {"Image", "Thumbnail"}

EventTypes == {"AddChild", "RemoveChild", "CapChange"}
Events == [type : EventTypes, id : Sources \cup Items \cup {None}]

VARIABLES
  at,          \* the object of the innermost command loop
  phase,       \* menu, asyncModule, asyncSource, exited, undefined, spinning
  freed,       \* does a loop hold a pointer to a freed RefObj?
  tree,        \* the open objects, which are the ones the tree of RefObj lists
  capable,     \* those whose capabilities have been enumerated
  fileRemoved, \* g_bFileRemoved
  ended,       \* history: why the last item loop ended
  on,          \* the cameras that are on
  stored,      \* stored[s]: the items on camera s
  queue        \* queue[o]: events the module has for object o

vars == <<at, phase, freed, tree, capable, fileRemoved, ended, on, stored, queue>>

Listeners == {Mod} \cup SourceObjects

TypeOK ==
  /\ at \in Objects \cup {Mod}
  /\ phase \in {"menu", "asyncModule", "asyncSource", "exited", "undefined", "spinning"}
  /\ freed \in BOOLEAN /\ fileRemoved \in BOOLEAN
  /\ tree \in SUBSET Objects
  /\ capable \in SUBSET (Objects \cup {Mod})
  /\ ended \in {"none", "asked", "removed", "read", "failed"}
  /\ on \in SUBSET Sources
  /\ stored \in [Sources -> SUBSET Items]
  /\ queue \in [Listeners -> Seq(Events)]

Init ==
  /\ at = Mod /\ phase = "menu" /\ freed = FALSE
  /\ tree = {} /\ capable = {Mod} /\ fileRemoved = FALSE /\ ended = "none"
  /\ on \in SUBSET Sources
  /\ stored \in [Sources -> SUBSET Items]
  /\ \A s \in Sources \ on : stored[s] = {}
  /\ queue = [o \in Listeners |-> <<>>]

-----------------------------------------------------------------------------
(* What the module lets the program open: the children of an open object   *)
(* that exist, and one object of each type, but for the thumbnail that may *)
(* be open beside the image or the film of the same item.                  *)
SameType(p, q) == /\ (p.itm = None) = (q.itm = None)
                  /\ (p.dat = None) = (q.dat = None)
                  /\ p.dat # None /\ Parent(p) = Parent(q) => p.dat = q.dat

Exists(p) == /\ p.src \in on
             /\ p.itm # None => p.itm \in stored[p.src]
             /\ p.dat # None => p.dat \in DataTypes(p.itm)

CanOpen(t, p) == /\ Exists(p)
                 /\ Parent(p) \in t \cup {Mod}
                 /\ \A q \in t : ~SameType(p, q)

(* The trees AddChild may leave: p open, or nothing if Open is refused. *)
AddChild(t, p) ==
  {u \in {t, t \cup {p}} : IF u = t THEN "Open" \in Refusals \/ ~CanOpen(t, p)
                           ELSE CanOpen(t, p)}

(* EnumChildren makes the module send an AddChild event for every child of *)
(* p, and each of those may open its own children.  A child that a         *)
(* RemoveChild event closes again before EnumChildren returns is one that  *)
(* was not opened; the capabilities a CapChange leaves are any.            *)
EnumChildren(t, p) ==
  {u \in SUBSET (t \cup {q \in Subtree(p) : Exists(q)}) :
     /\ t \subseteq u
     /\ \A q \in u \ t : Parent(q) \in u /\ \A r \in u \ {q} : ~SameType(q, r)}

(* Mutant: the children are left open. *)
RemoveChild_Shallow(t, p) == {t \ {p}}

(* The trees RemoveChild may leave.  Children are closed first, each as    *)
(* often as it takes; then the callbacks of p are reset and p is closed,   *)
(* either of which the module may refuse.                                  *)
RemoveChild(t, p) ==
  {t \ Subtree(p)}
    \cup {u \in {t \ (Subtree(p) \ {p})} : "Close" \in Refusals}

(* Mutant: the loop of the removed item goes on. *)
LoopAfterRemoval_InItem == Itm(at.src, at.itm)

(* An item that is closed because it was removed ends its loop, too. *)
LoopAfterRemoval == Src(at.src)

(* The capabilities of an object just opened may not be enumerated, and    *)
(* nobody looks at that result.                                            *)
EnumCapabilities ==
  \E new \in SUBSET (tree' \ tree) :
    /\ "Cap" \notin Refusals => new = tree' \ tree
    /\ capable' = (capable \cap (tree' \cup {Mod})) \cup new

(* A loop's pointer dangles once the block it points to has been freed. *)
PointersKept ==
  freed' = (/\ at' # Mod
            /\ freed \/ \E p \in Chain(at') : p \in tree \ tree')

(* Events for an object that is closed are lost with it. *)
EventsLost ==
  queue' = [o \in Listeners |-> IF o \in tree \ tree' THEN <<>> ELSE queue[o]]

(* Mutant: the event names its object, not the child. *)
Announce_Object(o, type, id) ==
  /\ o \in tree \cup {Mod} /\ Len(queue[o]) < MaxEvents
  /\ queue' = [queue EXCEPT ![o] = Append(@, [type |-> type, id |-> o])]

(* The module may tell an open object of a change; the queue is bounded. *)
Announce(o, type, id) ==
  \/ queue' = queue
  \/ /\ o \in tree \cup {Mod} /\ Len(queue[o]) < MaxEvents
     /\ queue' = [queue EXCEPT ![o] = Append(@, [type |-> type, id |-> id])]

(* Item i is gone from camera s. *)
Vanishes(s, i) ==
  /\ stored' = [stored EXCEPT ![s] = @ \ {i}]
  /\ Announce(Src(s), "RemoveChild", i)

Moves(p) == at' = p /\ PointersKept /\ EnumCapabilities

Camera == <<on, stored>>

InLoop(p) == at = p /\ phase = "menu"

Returns(p, why) == at' = p /\ ended' = why

-----------------------------------------------------------------------------
(* main: a camera is chosen from the list, and its loop entered, which     *)
(* first asks for the camera's type and may have to wait for it.           *)
SelectSource(s) ==
  /\ InLoop(Mod) /\ Mod \in capable /\ s \in on
  /\ tree' \in IF Src(s) \in tree THEN {tree} ELSE AddChild(tree, Src(s))
  /\ Moves(IF Src(s) \in tree' THEN Src(s) ELSE Mod)
  /\ phase' \in {"menu"} \cup {"asyncSource" : p \in {Src(s)} \cap tree'}
  /\ UNCHANGED <<fileRemoved, ended, Camera, queue>>

(* Close_Module stops at the first object the module refuses to close. *)
CloseModule ==
  /\ InLoop(Mod)
  /\ phase' = "exited"
  /\ tree' \in {u \in SUBSET tree :
                  /\ u # {} => "Close" \in Refusals
                  /\ \A p \in u : Parent(p) \in u \cup {Mod}}
  /\ Moves(Mod) /\ EventsLost
  /\ UNCHANGED <<fileRemoved, ended, Camera>>

-----------------------------------------------------------------------------
(* SourceCommandLoop *)
InSourceLoop == at \in SourceObjects /\ phase = "menu"

SelectItem(i) ==
  /\ InSourceLoop /\ ~freed
  /\ at \in capable /\ i \in stored[at.src]
  /\ LET p == Itm(at.src, i) IN
       /\ tree' \in IF p \in tree THEN {tree} ELSE AddChild(tree, p)
       /\ Moves(IF p \in tree' THEN p ELSE at)
  /\ UNCHANGED <<phase, fileRemoved, ended, Camera, queue>>

(* Capture, the other processes and the dialogs about a camera: while they *)
(* wait, IdleLoop gives Async to the camera.                               *)
IssueProcess ==
  /\ InSourceLoop /\ ~freed /\ at \in capable
  /\ phase' = "asyncSource"
  /\ UNCHANGED <<at, freed, tree, capable, fileRemoved, ended, Camera, queue>>

(* Choice 9 gives Async to the module object. *)
AsyncModule ==
  /\ InSourceLoop
  /\ phase' = "asyncModule"
  /\ UNCHANGED <<at, freed, tree, capable, fileRemoved, ended, Camera, queue>>

AsyncReturns ==
  /\ phase \in {"asyncModule", "asyncSource"}
  /\ phase' = "menu"
  /\ UNCHANGED <<at, freed, tree, capable, fileRemoved, ended, Camera, queue>>

(* Any other choice uses the freed RefObj of the camera, or of the film. *)
UseFreed ==
  /\ phase = "menu" /\ freed
  /\ phase' = "undefined"
  /\ UNCHANGED <<at, freed, tree, capable, fileRemoved, ended, Camera, queue>>

ExitSource ==
  /\ InSourceLoop
  /\ tree' \in IF at \in tree THEN RemoveChild(tree, at) ELSE {tree}
  /\ Moves(Mod) /\ EventsLost
  /\ UNCHANGED <<phase, fileRemoved, ended, Camera>>

-----------------------------------------------------------------------------
(* ModEventProc and SrcEventProc *)
Child(o, id) == IF o = Mod THEN Src(id) ELSE Itm(o.src, id)

HandleEvent(o, e) ==
  CASE e.type = "AddChild" ->
         /\ tree' \in UNION {IF u = tree THEN {tree} ELSE EnumChildren(u, Child(o, e.id)) :
                               u \in AddChild(tree, Child(o, e.id))}
         /\ EnumCapabilities
    [] e.type = "RemoveChild" ->
         /\ tree' \in IF Child(o, e.id) \in tree
                      THEN RemoveChild(tree, Child(o, e.id)) ELSE {tree}
         /\ EnumCapabilities
    [] e.type = "CapChange" ->
         /\ tree' = tree
         /\ capable' \in {capable \cup {o}}
                           \cup {c \in {capable \ {o}} : "Cap" \in Refusals}

(* In main's loop, events come from the run loop of the Mac. *)
Listening(o) == \/ o = Mod /\ (phase = "asyncModule" \/ InLoop(Mod))
                \/ o = Src(at.src) /\ phase = "asyncSource"

DeliverEvent(o) ==
  /\ Listening(o)
  /\ queue[o] # <<>>
  /\ HandleEvent(o, Head(queue[o]))
  /\ at' = at /\ PointersKept
  /\ queue' = [p \in Listeners |-> IF p \in tree \ tree' THEN <<>>
                                   ELSE IF p = o THEN Tail(queue[o]) ELSE queue[p]]
  /\ UNCHANGED <<phase, fileRemoved, ended, Camera>>

-----------------------------------------------------------------------------
(* ItemCommandLoop *)
InItemLoop == at \in ItemObjects /\ phase = "menu"

(* SelectData returns FALSE: the loop is left at once. *)
SelectDataFails ==
  /\ InItemLoop
  /\ at \notin capable \/ "Cap" \in Refusals
  /\ Returns(Parent(at), "failed") /\ freed' = freed
  /\ UNCHANGED <<phase, tree, capable, fileRemoved, Camera, queue>>

(* Mutant: the flag is never reset. *)
ResetsFlag_Never(k) == FALSE

(* An image or a film resets the flag; if its object cannot be opened, the *)
(* loop is left as well.                                                   *)
ResetsFlag(k) == k # "Thumbnail"

SelectData(k) ==
  /\ InItemLoop /\ at \in capable /\ k \in DataTypes(at.itm)
  /\ fileRemoved' = (fileRemoved /\ ~ResetsFlag(k))
  /\ LET p == Dat(at.src, at.itm, k) IN
       /\ tree' \in IF p \in tree THEN {tree} ELSE AddChild(tree, p)
       /\ IF p \in tree' THEN Returns(p, ended) ELSE Returns(Parent(at), "failed")
  /\ PointersKept /\ EnumCapabilities
  /\ UNCHANGED <<phase, Camera, queue>>

(* Delete: the image object is opened if need be.  DeleteDramCapability    *)
(* may fail before the item is deleted, and after; an image the module has *)
(* at hand is read instead, and counts as success.  Only a success sets    *)
(* the flag, but the loop looks at the flag in every case.                 *)
Delete ==
  /\ InItemLoop /\ at \in capable /\ at.itm \notin Movies
  /\ \E how \in {"refused", "unfinished", "deleted", "read"} :
     LET image == Dat(at.src, at.itm, "Image")
         success == how \in {"deleted", "read"} IN
     \E t \in IF image \in tree THEN {tree} ELSE AddChild(tree, image) :
     \E u \in IF success THEN RemoveChild(t, image) ELSE {t} :
       /\ IF how = "refused"
          THEN image \notin t \cap capable \/ "Start" \in Refusals
          ELSE /\ image \in t /\ image \notin tree \ capable
               /\ at.src \in on /\ at.itm \in stored[at.src]
       /\ how = "unfinished" => "Cap" \in Refusals
       /\ fileRemoved' = (fileRemoved \/ success)
       /\ IF fileRemoved'
          THEN /\ tree' \in RemoveChild(u, at)
               /\ Returns(LoopAfterRemoval, IF how = "read" THEN "read" ELSE "removed")
          ELSE tree' = u /\ Returns(at, ended)
       /\ \/ how \in {"unfinished", "deleted", "read"} /\ Vanishes(at.src, at.itm)
          \/ how \in {"refused", "read"} /\ UNCHANGED <<stored, queue>>
  /\ PointersKept /\ EnumCapabilities
  /\ UNCHANGED <<phase, on>>

ExitItem ==
  /\ InItemLoop
  /\ tree' \in RemoveChild(tree, at)
  /\ Returns(Parent(at), "asked")
  /\ PointersKept /\ EnumCapabilities
  /\ UNCHANGED <<phase, fileRemoved, Camera, queue>>

-----------------------------------------------------------------------------
(* ImageCommandLoop, MovieCommandLoop, ThumbnailCommandLoop *)
InDataLoop(kinds) == at \in DataObjects /\ at.dat \in kinds /\ phase = "menu"

(* DataProc, when the last part of a file has come, sets the flag if the   *)
(* module asks for the removal of an image.                                *)
SetsFlag(k, removes) == k = "Image" /\ removes

(* Acquire.  With the flag set the loop of the image ends, then that of    *)
(* the item, both closing their objects.                                   *)
Acquire ==
  /\ InDataLoop({"Image", "Thumbnail"}) /\ at \in capable
  /\ at.src \in on /\ at.itm \in stored[at.src]
  /\ \E removes \in BOOLEAN :
       /\ fileRemoved' = (fileRemoved \/ SetsFlag(at.dat, removes))
       /\ IF removes /\ at.dat = "Image"
          THEN Vanishes(at.src, at.itm) ELSE UNCHANGED <<stored, queue>>
  /\ IF at.dat = "Image" /\ fileRemoved'
     THEN /\ tree' \in UNION {RemoveChild(t, Parent(at)) : t \in RemoveChild(tree, at)}
          /\ Returns(LoopAfterRemoval, "removed")
     ELSE tree' = tree /\ Returns(at, ended)
  /\ PointersKept /\ EnumCapabilities
  /\ UNCHANGED <<phase, on>>

(* GetVideoImageEx asks the camera, not the film, for the type of its file. *)
GetVideoImageEx ==
  /\ InDataLoop({"Video"}) /\ ~freed
  /\ at.src \in on /\ at.itm \in stored[at.src]
  /\ phase' = "asyncSource"
  /\ UNCHANGED <<at, freed, tree, capable, fileRemoved, ended, Camera, queue>>

(* Leaving the loop of an image or a film, the item's loop reads the flag. *)
ExitMedia ==
  /\ InDataLoop({"Image", "Video"}) /\ ~freed
  /\ \E t \in RemoveChild(tree, at) :
       IF fileRemoved
       THEN tree' \in RemoveChild(t, Parent(at)) /\ Returns(LoopAfterRemoval, "removed")
       ELSE /\ tree' = t
            /\ IF at \in t THEN Returns(Src(at.src), "failed") ELSE Returns(Parent(at), ended)
  /\ PointersKept /\ EnumCapabilities
  /\ UNCHANGED <<phase, fileRemoved, Camera, queue>>

ExitThumbnail ==
  /\ InDataLoop({"Thumbnail"})
  /\ tree' \in RemoveChild(tree, at)
  /\ IF at \in tree' THEN Returns(Src(at.src), "failed") ELSE Returns(Parent(at), ended)
  /\ PointersKept /\ EnumCapabilities
  /\ UNCHANGED <<phase, fileRemoved, Camera, queue>>

(* ItmEventProc and DatEventProc, while a dialog about the object of the   *)
(* innermost loop gives it Async; for an object that is being opened, they *)
(* are part of EnumChildren.                                               *)
EventInDialog ==
  /\ InItemLoop \/ InDataLoop(Kinds)
  /\ ~freed /\ at \in capable
  /\ \/ /\ tree' = tree
        /\ capable' \in {capable} \cup {c \in {capable \ {at}} : "Cap" \in Refusals}
     \/ /\ at \in ItemObjects
        /\ \E k \in Kinds : LET p == Dat(at.src, at.itm, k) IN
             tree' \in IF p \in tree THEN RemoveChild(tree, p) ELSE AddChild(tree, p)
        /\ EnumCapabilities
  /\ at' = at /\ PointersKept
  /\ UNCHANGED <<phase, fileRemoved, ended, Camera, queue>>

(* RemoveChild tries for ever to close a child the module never lets go. *)
RemoveChildSpins ==
  /\ "Close" \in Refusals
  /\ \E p \in tree, q \in tree :
       /\ Parent(q) = p
       /\ \/ p = at /\ (InSourceLoop \/ InItemLoop)
          \/ \E o \in Listeners : /\ Listening(o) /\ queue[o] # <<>>
                                  /\ Head(queue[o]).type = "RemoveChild"
                                  /\ p = Child(o, Head(queue[o]).id)
  /\ phase' = "spinning"
  /\ UNCHANGED <<at, freed, tree, capable, fileRemoved, ended, Camera, queue>>

-----------------------------------------------------------------------------
(* The cameras: switched on and off, taking and losing pictures. *)
Client == <<at, phase, freed, tree, capable, fileRemoved, ended>>

Running == phase \in {"menu", "asyncModule", "asyncSource"}

TurnOn(s) ==
  /\ Running /\ s \notin on /\ on' = on \cup {s}
  /\ Announce(Mod, "AddChild", s)
  /\ UNCHANGED <<stored, Client>>

TurnOff(s) ==
  /\ Running /\ s \in on /\ on' = on \ {s}
  /\ stored' = [stored EXCEPT ![s] = {}]
  /\ Announce(Mod, "RemoveChild", s)
  /\ UNCHANGED Client

TakePicture(s, i) ==
  /\ Running /\ s \in on /\ i \notin stored[s]
  /\ stored' = [stored EXCEPT ![s] = @ \cup {i}]
  /\ Announce(Src(s), "AddChild", i)
  /\ UNCHANGED <<on, Client>>

LosePicture(s, i) ==
  /\ Running /\ s \in on /\ i \in stored[s]
  /\ Vanishes(s, i)
  /\ UNCHANGED <<on, Client>>

ChangeCapabilities(o) ==
  /\ Running /\ o \in tree \cup {Mod}
  /\ Announce(o, "CapChange", None) /\ queue' # queue
  /\ UNCHANGED <<Camera, Client>>

Next ==
  \/ CloseModule \/ IssueProcess \/ AsyncModule \/ AsyncReturns \/ UseFreed
  \/ ExitSource \/ SelectDataFails \/ Delete \/ ExitItem \/ Acquire
  \/ GetVideoImageEx \/ ExitMedia \/ ExitThumbnail \/ EventInDialog \/ RemoveChildSpins
  \/ \E s \in Sources : SelectSource(s) \/ TurnOn(s) \/ TurnOff(s)
  \/ \E i \in Items : SelectItem(i)
  \/ \E k \in Kinds : SelectData(k)
  \/ \E o \in Listeners : DeliverEvent(o) \/ ChangeCapabilities(o)
  \/ \E s \in Sources, i \in Items : TakePicture(s, i) \/ LosePicture(s, i)

Spec == Init /\ [][Next]_vars

-----------------------------------------------------------------------------
(* No object is open whose parent is closed, whatever the module refuses   *)
(* and whichever callback closes what: nothing is ever orphaned, not even  *)
(* when Close_Module gives up half way.                                    *)
ParentsOpen == \A p \in tree : Parent(p) \in tree \cup {Mod}

(* The pointers pRefSrc, pRefItm and pRefDat the nested loops keep are     *)
(* those of open objects.  The exceptions are the two loops below which    *)
(* Async may be given to an object further up: a camera's own, through     *)
(* choice 9, and a film's, through GetVideoImageEx.                        *)
LoopPointers ==
  /\ ~freed => Chain(at) \subseteq tree
  /\ freed => at \in SourceObjects \/ at.dat = "Video"

(* In the loop of an image or a film the flag speaks of this very item.    *)
FlagIsFresh == at.dat \in {"Image", "Video"} => ~fileRemoved

(* An item that the loops close for having been removed (main.cpp:1050,    *)
(* 1071, 1166) is no longer on the camera, and nobody's picture is taken   *)
(* for another's.  The exceptions are the Delete choice, which looks at a  *)
(* flag that an earlier item, fetched or deleted, has left set, and a      *)
(* picture that Delete has read instead of deleting it.                    *)
RemovedItemIsGone ==
  [][at.itm # None /\ at'.itm = None /\ ended' = "removed"
       => \/ at.itm \notin stored'[at.src]
          \/ InItemLoop /\ fileRemoved]_vars

=============================================================================
