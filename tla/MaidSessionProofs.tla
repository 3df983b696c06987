------------------------- MODULE MaidSessionProofs -------------------------
(***************************************************************************)
(* Theorems about MaidSession, for any cameras, pictures and films, and    *)
(* whatever the module refuses.                                            *)
(***************************************************************************)
EXTENDS MaidSession, TLAPS

-----------------------------------------------------------------------------
(* Objects and their paths.                                                *)

LEMMA SourceObject ==
  ASSUME SessionAssumption, NEW s \in Sources
  PROVE  /\ Src(s) \in SourceObjects /\ Src(s) \in Objects
         /\ Parent(Src(s)) = Mod /\ Src(s) # Mod
         /\ Src(s).src = s /\ Src(s).itm = None /\ Src(s).dat = None
BY DEF SessionAssumption, Src, SourceObjects, Objects, Parent, Mod

LEMMA ItemObject ==
  ASSUME SessionAssumption, NEW s \in Sources, NEW i \in Items
  PROVE  /\ Itm(s, i) \in ItemObjects /\ Itm(s, i) \in Objects
         /\ Parent(Itm(s, i)) = Src(s) /\ Itm(s, i) # Mod
         /\ Itm(s, i).src = s /\ Itm(s, i).itm = i /\ Itm(s, i).dat = None
BY DEF SessionAssumption, Itm, Src, ItemObjects, Objects, Parent, Mod

LEMMA DataObject ==
  ASSUME SessionAssumption, NEW s \in Sources, NEW i \in Items, NEW k \in Kinds
  PROVE  /\ Dat(s, i, k) \in DataObjects /\ Dat(s, i, k) \in Objects
         /\ Parent(Dat(s, i, k)) = Itm(s, i) /\ Dat(s, i, k) # Mod
         /\ Dat(s, i, k).src = s /\ Dat(s, i, k).itm = i /\ Dat(s, i, k).dat = k
BY DEF SessionAssumption, Dat, Itm, DataObjects, Objects, Parent, Mod

(* Every object is one of the three. *)
LEMMA ObjectForm ==
  ASSUME SessionAssumption, NEW p \in Objects
  PROVE  /\ p.src \in Sources /\ p # Mod
         /\ \/ p \in SourceObjects /\ p = Src(p.src) /\ p.itm = None /\ p.dat = None
            \/ p \in ItemObjects /\ p.itm \in Items /\ p = Itm(p.src, p.itm) /\ p.dat = None
            \/ p \in DataObjects /\ p.itm \in Items /\ p.dat \in Kinds /\ p = Dat(p.src, p.itm, p.dat)
<1>1. CASE p \in SourceObjects
  <2>1. PICK s \in Sources : p = Src(s)
    BY <1>1 DEF SourceObjects
  <2> QED
    BY <1>1, <2>1, SourceObject
<1>2. CASE p \in ItemObjects
  <2>1. PICK s \in Sources, i \in Items : p = Itm(s, i)
    BY <1>2 DEF ItemObjects
  <2> QED
    BY <1>2, <2>1, ItemObject
<1>3. CASE p \in DataObjects
  <2>1. PICK s \in Sources, i \in Items, k \in Kinds : p = Dat(s, i, k)
    BY <1>3 DEF DataObjects
  <2> QED
    BY <1>3, <2>1, DataObject
<1> QED
  BY <1>1, <1>2, <1>3 DEF Objects

LEMMA ModIsNone ==
  Mod.src = None /\ Mod.itm = None /\ Mod.dat = None
BY DEF Mod

(* A parent is an object one level up, or the module. *)
LEMMA ParentOf ==
  ASSUME SessionAssumption, NEW p \in Objects
  PROVE  \/ p.itm = None /\ Parent(p) = Mod
         \/ /\ p.itm # None /\ Parent(p) \in Objects /\ Parent(p).src = p.src
            /\ p.dat = None => Parent(p) = Src(p.src)
            /\ p.dat # None => Parent(p) = Itm(p.src, p.itm)
<1>1. p.itm # None => p.itm \in Items
  BY ObjectForm
<1>2. p.dat # None => p.itm # None
  BY ObjectForm DEF SessionAssumption
<1> QED
  BY <1>1, <1>2, ObjectForm, SourceObject, ItemObject DEF Parent

-----------------------------------------------------------------------------
(* Subtrees and chains.                                                    *)

(* What is below a parent's ancestor is below that ancestor. *)
LEMMA ChildrenBelow ==
  ASSUME SessionAssumption, NEW p \in Objects, NEW q \in Objects, Parent(q) \in Subtree(p)
  PROVE  q \in Subtree(p) \ {p}
<1>1. Parent(q) \in Objects /\ Parent(q) # Mod
  BY ObjectForm DEF Subtree
<1>2. /\ q.itm # None /\ Parent(q).src = q.src
      /\ q.dat = None => Parent(q) = Src(q.src)
      /\ q.dat # None => Parent(q) = Itm(q.src, q.itm)
  BY <1>1, ParentOf
<1>3. /\ Parent(q).src = p.src
      /\ p.itm # None => Parent(q).itm = p.itm
      /\ p.dat # None => Parent(q).dat = p.dat
  BY DEF Subtree
<1>4. q.itm \in Items /\ q.src \in Sources
  BY <1>2, ObjectForm
<1>5. Parent(q).dat = None
  BY <1>2, <1>4, SourceObject, ItemObject
<1>6. p.dat = None
  BY <1>3, <1>5
<1>7. CASE q.dat = None
  <2>1. Parent(q).itm = None
    BY <1>2, <1>4, <1>7, SourceObject
  <2> QED
    BY <1>2, <1>3, <1>6, <2>1 DEF Subtree
<1>8. CASE q.dat # None
  <2>1. Parent(q).itm = q.itm
    BY <1>2, <1>4, <1>8, ItemObject
  <2> QED
    BY <1>2, <1>3, <1>6, <1>8, <2>1 DEF Subtree
<1> QED
  BY <1>7, <1>8

LEMMA SubtreeRoot ==
  ASSUME NEW p \in Objects
  PROVE  p \in Subtree(p)
BY DEF Subtree

LEMMA ParentAbove ==
  ASSUME SessionAssumption, NEW p \in Objects
  PROVE  Parent(p) \notin Subtree(p)
BY ChildrenBelow

LEMMA Chains ==
  ASSUME SessionAssumption
  PROVE  /\ Chain(Mod) = {}
         /\ \A s \in Sources : Chain(Src(s)) = {Src(s)}
         /\ \A s \in Sources, i \in Items : Chain(Itm(s, i)) = {Src(s), Itm(s, i)}
         /\ \A s \in Sources, i \in Items, k \in Kinds :
              Chain(Dat(s, i, k)) = {Src(s), Itm(s, i), Dat(s, i, k)}
<1>1. Parent(Mod) = Mod
  BY DEF Parent, Mod
<1>2. \A s \in Sources : Parent(Src(s)) = Mod /\ Src(s) # Mod
  BY SourceObject
<1>3. \A s \in Sources, i \in Items : Parent(Itm(s, i)) = Src(s) /\ Itm(s, i) # Mod
  BY ItemObject
<1>4. \A s \in Sources, i \in Items, k \in Kinds :
        Parent(Dat(s, i, k)) = Itm(s, i) /\ Dat(s, i, k) # Mod
  BY DataObject
<1> QED
  BY <1>1, <1>2, <1>3, <1>4 DEF Chain

-----------------------------------------------------------------------------
(* Trees: what opening and closing leaves.                                 *)

Closed(t) == t \subseteq Objects /\ \A p \in t : Parent(p) \in t \cup {Mod}

LEMMA AddChildTree ==
  ASSUME NEW t, NEW p \in Objects, Closed(t), NEW u \in AddChild(t, p)
  PROVE  Closed(u) /\ t \subseteq u /\ u \subseteq t \cup {p}
<1>1. u = t \/ (u = t \cup {p} /\ Parent(p) \in t \cup {Mod})
  BY DEF AddChild, CanOpen
<1> QED
  BY <1>1 DEF Closed

LEMMA EnumChildrenTree ==
  ASSUME NEW t, NEW p \in Objects, Closed(t), NEW u \in EnumChildren(t, p)
  PROVE  Closed(u) /\ t \subseteq u
<1>1. u \subseteq Objects /\ t \subseteq u /\ \A q \in u \ t : Parent(q) \in u
  BY DEF EnumChildren, Subtree, Closed
<1> QED
  BY <1>1 DEF Closed

LEMMA RemoveChildTree ==
  ASSUME SessionAssumption, NEW t, NEW p \in Objects, Closed(t), NEW u \in RemoveChild(t, p)
  PROVE  /\ Closed(u) /\ u \subseteq t
         /\ \A q \in t : q \notin Subtree(p) => q \in u
<1>1. u = t \ Subtree(p) \/ u = t \ (Subtree(p) \ {p})
  BY DEF RemoveChild
<1>2. ASSUME NEW q \in u
      PROVE  Parent(q) \in u \cup {Mod}
  <2>1. q \in t /\ q \in Objects /\ Parent(q) \in t \cup {Mod}
    BY <1>1 DEF Closed
  <2>2. q \notin Subtree(p) \ {p}
    BY <1>1, SubtreeRoot
  <2>3. Parent(q) \notin Subtree(p)
    BY <2>1, <2>2, ChildrenBelow
  <2> QED
    BY <1>1, <2>1, <2>3
<1> QED
  BY <1>1, <1>2 DEF Closed

(* What the event procedures do to the tree: either it grows, or they      *)
(* close something below the object the event is for.                      *)
LEMMA EventTree ==
  ASSUME SessionAssumption, Closed(tree),
         NEW o \in Listeners, NEW e \in Events,
         e.type # "CapChange" => e.id \in (IF o = Mod THEN Sources ELSE Items),
         HandleEvent(o, e)
  PROVE  Closed(tree')
<1>1. CASE e.type = "CapChange"
  BY <1>1 DEF HandleEvent
<1>2. CASE e.type # "CapChange"
  <2>1. Child(o, e.id) \in Objects
    BY <1>2, SourceObject, ItemObject DEF Child, Listeners, SourceObjects
  <2>2. CASE e.type = "AddChild"
    <3>1. PICK u \in AddChild(tree, Child(o, e.id)) :
            tree' \in IF u = tree THEN {tree} ELSE EnumChildren(u, Child(o, e.id))
      BY <2>2 DEF HandleEvent
    <3>2. Closed(u)
      BY <2>1, <3>1, AddChildTree
    <3> QED
      BY <2>1, <3>1, <3>2, EnumChildrenTree
  <2>3. CASE e.type = "RemoveChild"
    BY <2>1, <2>3, RemoveChildTree DEF HandleEvent
  <2> QED
    BY <1>2, <2>2, <2>3 DEF Events, EventTypes
<1> QED
  BY <1>1, <1>2

-----------------------------------------------------------------------------
(* The inductive invariant.                                                *)

(* Events name cameras to the module object, and items to a camera. *)
Fits(o, e) == e.type # "CapChange" => e.id \in (IF o = Mod THEN Sources ELSE Items)
QueuesFit == \A o \in Listeners : \A n \in 1 .. Len(queue[o]) : Fits(o, queue[o][n])

(* Async is given by the loops of a camera, and by that of a film. *)
AsyncLoops ==
  /\ phase = "asyncModule" => at \in SourceObjects
  /\ phase = "asyncSource" => at \in SourceObjects \/ at.dat = "Video"

SessionInv ==
  TypeOK /\ QueuesFit /\ ParentsOpen /\ AsyncLoops /\ LoopPointers /\ FlagIsFresh

QueuesOK == queue \in [Listeners -> Seq(Events)] /\ QueuesFit

LEMMA AnnounceQueues ==
  ASSUME QueuesOK, NEW o \in Listeners, NEW type \in EventTypes,
         NEW id \in Sources \cup Items \cup {None},
         Fits(o, [type |-> type, id |-> id]), Announce(o, type, id)
  PROVE  QueuesOK'
<1>1. CASE queue' = queue
  BY <1>1 DEF QueuesOK, QueuesFit
<1>2. CASE queue' = [queue EXCEPT ![o] = Append(@, [type |-> type, id |-> id])]
  <2> DEFINE e == [type |-> type, id |-> id]
  <2>1. e \in Events /\ Fits(o, e)
    BY DEF Events
  <2> HIDE DEF e
  <2>2. queue' = [queue EXCEPT ![o] = Append(@, e)]
    BY <1>2 DEF e
  <2>3. queue[o] \in Seq(Events)
    BY DEF QueuesOK
  <2>4. /\ Append(queue[o], e) \in Seq(Events)
        /\ Len(Append(queue[o], e)) = Len(queue[o]) + 1
        /\ \A n \in 1 .. Len(queue[o]) + 1 :
             Append(queue[o], e)[n] = IF n <= Len(queue[o]) THEN queue[o][n] ELSE e
    BY <2>1, <2>3
  <2>5. /\ queue'[o] = Append(queue[o], e)
        /\ \A p \in Listeners \ {o} : queue'[p] = queue[p]
        /\ queue' \in [Listeners -> Seq(Events)]
    BY <2>2, <2>4 DEF QueuesOK
  <2>6. \A n \in 1 .. Len(queue'[o]) : Fits(o, queue'[o][n])
    <3>1. SUFFICES ASSUME NEW n \in 1 .. Len(queue[o]) + 1
                   PROVE  Fits(o, Append(queue[o], e)[n])
      BY <2>4, <2>5
    <3>2. CASE n <= Len(queue[o])
      <4>1. n \in 1 .. Len(queue[o])
        BY <2>3, <3>2
      <4> QED
        BY <2>4, <3>2, <4>1 DEF QueuesOK, QueuesFit
    <3>3. CASE ~ n <= Len(queue[o])
      BY <2>1, <2>4, <3>3
    <3> QED
      BY <3>2, <3>3
  <2> QED
    BY <2>5, <2>6 DEF QueuesOK, QueuesFit
<1> QED
  BY <1>1, <1>2 DEF Announce

(* Events are lost with an object, and taken from the front. *)
LEMMA FewerQueues ==
  ASSUME QueuesOK, NEW S, NEW o,
         queue' = [p \in Listeners |-> IF p \in S THEN <<>>
                                       ELSE IF p = o THEN Tail(queue[o]) ELSE queue[p]],
         o \in Listeners => queue[o] # <<>>
  PROVE  QueuesOK'
<1>1. <<>> \in Seq(Events) /\ 1 .. Len(<<>>) = {}
  OBVIOUS
<1>2. ASSUME NEW p \in Listeners
      PROVE  /\ queue'[p] \in Seq(Events)
             /\ \A n \in 1 .. Len(queue'[p]) : Fits(p, queue'[p][n])
  <2>1. queue[p] \in Seq(Events)
    BY DEF QueuesOK
  <2>2. CASE queue'[p] = <<>>
    <3>1. queue'[p] \in Seq(Events)
      BY <1>1, <2>2
    <3>2. 1 .. Len(queue'[p]) = {}
      BY <1>1, <2>2
    <3> QED
      BY <3>1, <3>2
  <2>3. CASE queue'[p] = queue[p]
    BY <2>1, <2>3 DEF QueuesOK, QueuesFit
  <2>4. CASE p = o /\ queue'[p] = Tail(queue[p])
    <3>1. queue[p] # <<>>
      BY <2>4
    <3>2. /\ Tail(queue[p]) \in Seq(Events)
          /\ Len(Tail(queue[p])) = Len(queue[p]) - 1
          /\ \A n \in 1 .. Len(queue[p]) - 1 : Tail(queue[p])[n] = queue[p][n + 1]
      BY <2>1, <3>1
    <3>3. \A n \in 1 .. Len(queue[p]) - 1 : n + 1 \in 1 .. Len(queue[p])
      BY <2>1
    <3> QED
      BY <2>4, <3>2, <3>3 DEF QueuesOK, QueuesFit
  <2> QED
    BY <2>2, <2>3, <2>4
<1>3. queue' \in [Listeners -> Seq(Events)]
  BY <1>2
<1> QED
  BY <1>2, <1>3 DEF QueuesOK, QueuesFit

LEMMA LostQueues ==
  ASSUME QueuesOK, EventsLost
  PROVE  QueuesOK'
<1>2. ASSUME NEW p \in Listeners
      PROVE  queue'[p] = <<>> \/ queue'[p] = queue[p]
  BY DEF EventsLost
<1>3. <<>> \in Seq(Events) /\ 1 .. Len(<<>>) = {}
  OBVIOUS
<1>4. queue' \in [Listeners -> Seq(Events)]
  BY <1>2, <1>3 DEF EventsLost, QueuesOK
<1>5. ASSUME NEW p \in Listeners, NEW n \in 1 .. Len(queue'[p])
      PROVE  Fits(p, queue'[p][n])
  BY <1>2, <1>3, <1>5 DEF QueuesOK, QueuesFit
<1> QED
  BY <1>4, <1>5 DEF QueuesOK, QueuesFit

-----------------------------------------------------------------------------
(* What the actions do to each part of the state.                          *)

(* Where the loop is. *)
LEMMA Where ==
  ASSUME SessionAssumption, TypeOK
  PROVE  /\ at \in SourceObjects => at.src \in Sources /\ at = Src(at.src)
         /\ at \in ItemObjects => /\ at.src \in Sources /\ at.itm \in Items
                                  /\ at = Itm(at.src, at.itm)
         /\ at \in DataObjects => /\ at.src \in Sources /\ at.itm \in Items /\ at.dat \in Kinds
                                  /\ at = Dat(at.src, at.itm, at.dat)
<1>1. ASSUME at \in SourceObjects
      PROVE  at.src \in Sources /\ at = Src(at.src)
  <2>1. PICK s \in Sources : at = Src(s)
    BY <1>1 DEF SourceObjects
  <2> QED
    BY <2>1, SourceObject
<1>2. ASSUME at \in ItemObjects
      PROVE  at.src \in Sources /\ at.itm \in Items /\ at = Itm(at.src, at.itm)
  <2>1. PICK s \in Sources, i \in Items : at = Itm(s, i)
    BY <1>2 DEF ItemObjects
  <2> QED
    BY <2>1, ItemObject
<1>3. ASSUME at \in DataObjects
      PROVE  /\ at.src \in Sources /\ at.itm \in Items /\ at.dat \in Kinds
             /\ at = Dat(at.src, at.itm, at.dat)
  <2>1. PICK s \in Sources, i \in Items, k \in Kinds : at = Dat(s, i, k)
    BY <1>3 DEF DataObjects
  <2> QED
    BY <2>1, DataObject
<1> QED
  BY <1>1, <1>2, <1>3

LEMMA QueuesStep ==
  ASSUME SessionAssumption, SessionInv, [Next]_vars
  PROVE  QueuesOK'
<1>1. QueuesOK
  BY DEF QueuesOK, SessionInv, TypeOK
<1>2. ASSUME UNCHANGED queue
      PROVE  QueuesOK'
  BY <1>1, <1>2 DEF QueuesOK, QueuesFit
<1>3. Mod \in Listeners /\ \A s \in Sources : Src(s) \in Listeners /\ Src(s) # Mod
  BY SourceObject DEF Listeners
<1>4. ASSUME NEW s \in Sources, NEW i \in Items, Vanishes(s, i)
      PROVE  QueuesOK'
  <2>1. Announce(Src(s), "RemoveChild", i) /\ Fits(Src(s), [type |-> "RemoveChild", id |-> i])
    BY <1>3, <1>4 DEF Vanishes, Fits
  <2> QED
    BY <1>1, <1>3, <2>1, AnnounceQueues DEF EventTypes
<1>5. CASE CloseModule \/ ExitSource
  BY <1>1, <1>5, LostQueues DEF CloseModule, ExitSource
<1>6. CASE Delete \/ Acquire
  <2>1. at.src \in Sources /\ at.itm \in Items
    BY <1>6, Where DEF Delete, Acquire, InItemLoop, InDataLoop, SessionInv
  <2>2. Vanishes(at.src, at.itm) \/ UNCHANGED queue
    BY <1>6 DEF Delete, Acquire
  <2> QED
    BY <1>2, <1>4, <2>1, <2>2
<1>7. ASSUME NEW s \in Sources, TurnOn(s) \/ TurnOff(s)
      PROVE  QueuesOK'
  <2>1. \/ Announce(Mod, "AddChild", s) /\ Fits(Mod, [type |-> "AddChild", id |-> s])
        \/ Announce(Mod, "RemoveChild", s) /\ Fits(Mod, [type |-> "RemoveChild", id |-> s])
    BY <1>7 DEF TurnOn, TurnOff, Fits
  <2> QED
    BY <1>1, <1>3, <2>1, AnnounceQueues DEF EventTypes
<1>8. ASSUME NEW o \in Listeners, DeliverEvent(o)
      PROVE  QueuesOK'
  BY <1>1, <1>8, FewerQueues DEF DeliverEvent
<1>9. ASSUME NEW o \in Listeners, ChangeCapabilities(o)
      PROVE  QueuesOK'
  <2>1. Announce(o, "CapChange", None) /\ Fits(o, [type |-> "CapChange", id |-> None])
    BY <1>9 DEF ChangeCapabilities, Fits
  <2> QED
    BY <1>1, <2>1, AnnounceQueues DEF EventTypes
<1>10. ASSUME NEW s \in Sources, NEW i \in Items, TakePicture(s, i) \/ LosePicture(s, i)
       PROVE  QueuesOK'
  <2>1. CASE TakePicture(s, i)
    <3>1. Announce(Src(s), "AddChild", i) /\ Fits(Src(s), [type |-> "AddChild", id |-> i])
      BY <1>3, <2>1 DEF TakePicture, Fits
    <3> QED
      BY <1>1, <1>3, <3>1, AnnounceQueues DEF EventTypes
  <2>2. CASE LosePicture(s, i)
    BY <1>4, <2>2 DEF LosePicture
  <2> QED
    BY <1>10, <2>1, <2>2
<1>11. CASE \/ UNCHANGED vars
            \/ IssueProcess \/ AsyncModule \/ AsyncReturns \/ UseFreed
            \/ SelectDataFails \/ ExitItem \/ GetVideoImageEx \/ ExitMedia \/ ExitThumbnail
            \/ EventInDialog \/ RemoveChildSpins
            \/ \E s \in Sources : SelectSource(s)
            \/ \E i \in Items : SelectItem(i)
            \/ \E k \in Kinds : SelectData(k)
  BY <1>2, <1>11 DEF vars, IssueProcess, AsyncModule, AsyncReturns, UseFreed, SelectDataFails,
     ExitItem, GetVideoImageEx, ExitMedia, ExitThumbnail, EventInDialog, RemoveChildSpins,
     SelectSource, SelectItem, SelectData
<1> QED
  BY <1>5, <1>6, <1>7, <1>8, <1>9, <1>10, <1>11 DEF Next

(* A callback during a dialog opens or closes a part of the item, or       *)
(* nothing: the objects of the running loops stay open.                    *)
LEMMA DialogTree ==
  ASSUME SessionAssumption, SessionInv, EventInDialog
  PROVE  /\ Closed(tree')
         /\ \A p \in Chain(at) : p \in tree => p \in tree'
<1>1. Closed(tree)
  BY DEF Closed, SessionInv, TypeOK, ParentsOpen
<1>2. CASE tree' = tree
  BY <1>1, <1>2
<1>3. ASSUME at \in ItemObjects, NEW k \in Kinds,
             LET p == Dat(at.src, at.itm, k) IN
               tree' \in IF p \in tree THEN RemoveChild(tree, p) ELSE AddChild(tree, p)
      PROVE  /\ Closed(tree')
             /\ \A p \in Chain(at) : p \in tree => p \in tree'
  <2>1. at.src \in Sources /\ at.itm \in Items /\ at = Itm(at.src, at.itm)
    BY <1>3, Where DEF SessionInv
  <2> DEFINE part == Dat(at.src, at.itm, k)
  <2>2. part \in Objects /\ Chain(at) = {Src(at.src), at}
    BY <2>1, DataObject, Chains
  <2>3. Src(at.src) \notin Subtree(part) /\ at \notin Subtree(part)
    BY <2>1, SourceObject, ItemObject, DataObject DEF Kinds, Subtree, SessionAssumption
  <2>4. tree' \in RemoveChild(tree, part) \cup AddChild(tree, part)
    BY <1>3
  <2> HIDE DEF part
  <2> QED
    BY <1>1, <2>2, <2>3, <2>4, AddChildTree, RemoveChildTree
<1> QED
  BY <1>2, <1>3 DEF EventInDialog

(* The tree stays one, and the objects of the loops further out stay open. *)
LEMMA TreeStep ==
  ASSUME SessionAssumption, SessionInv, [Next]_vars
  PROVE  Closed(tree')
<1>1. Closed(tree)
  BY DEF Closed, SessionInv, TypeOK, ParentsOpen
<1>2. ASSUME UNCHANGED tree
      PROVE  Closed(tree')
  BY <1>1, <1>2
<1>3. ASSUME NEW s \in Sources, SelectSource(s)
      PROVE  Closed(tree')
  BY <1>1, <1>3, SourceObject, AddChildTree DEF SelectSource
<1>4. CASE CloseModule
  <2>1. tree' \subseteq tree /\ \A p \in tree' : Parent(p) \in tree' \cup {Mod}
    BY <1>4 DEF CloseModule
  <2> QED
    BY <1>1, <2>1 DEF Closed
<1>5. ASSUME NEW i \in Items, SelectItem(i)
      PROVE  Closed(tree')
  <2>1. at.src \in Sources
    BY <1>5, Where DEF SelectItem, InSourceLoop, SessionInv
  <2> QED
    BY <1>1, <1>5, <2>1, ItemObject, AddChildTree DEF SelectItem
<1>6. CASE ExitSource
  <2>1. at \in Objects
    BY <1>6 DEF ExitSource, InSourceLoop, Objects
  <2> QED
    BY <1>1, <1>6, <2>1, RemoveChildTree DEF ExitSource
<1>7. ASSUME NEW o \in Listeners, DeliverEvent(o)
      PROVE  Closed(tree')
  <2>1. queue[o] \in Seq(Events) /\ queue[o] # <<>>
    BY <1>7 DEF SessionInv, TypeOK, DeliverEvent
  <2>2. Head(queue[o]) \in Events /\ 1 \in 1 .. Len(queue[o]) /\ Head(queue[o]) = queue[o][1]
    BY <2>1
  <2>3. Fits(o, Head(queue[o]))
    BY <2>2 DEF SessionInv, QueuesFit
  <2> QED
    BY <1>1, <1>7, <2>2, <2>3, EventTree DEF DeliverEvent, Fits
<1>8. ASSUME NEW k \in Kinds, SelectData(k)
      PROVE  Closed(tree')
  <2>1. at.src \in Sources /\ at.itm \in Items
    BY <1>8, Where DEF SelectData, InItemLoop, SessionInv
  <2> QED
    BY <1>1, <1>8, <2>1, DataObject, AddChildTree DEF SelectData
<1>9. CASE Delete
  <2>1. at \in ItemObjects /\ at \in Objects /\ at.src \in Sources /\ at.itm \in Items
    BY <1>9, Where DEF Delete, InItemLoop, SessionInv, Objects
  <2> DEFINE image == Dat(at.src, at.itm, "Image")
  <2>2. image \in Objects
    BY <2>1, DataObject DEF Kinds
  <2>3. PICK t \in IF image \in tree THEN {tree} ELSE AddChild(tree, image) :
        \E u \in {t} \cup RemoveChild(t, image) : tree' \in {u} \cup RemoveChild(u, at)
    BY <1>9 DEF Delete
  <2> HIDE DEF image
  <2>4. Closed(t)
    BY <1>1, <2>2, <2>3, AddChildTree
  <2>5. PICK u \in {t} \cup RemoveChild(t, image) : tree' \in {u} \cup RemoveChild(u, at)
    BY <2>3
  <2>6. Closed(u)
    BY <2>2, <2>4, RemoveChildTree
  <2> QED
    BY <2>1, <2>5, <2>6, RemoveChildTree
<1>10. CASE ExitItem \/ ExitThumbnail
  <2>1. at \in Objects
    BY <1>10 DEF ExitItem, ExitThumbnail, InItemLoop, InDataLoop, Objects
  <2> QED
    BY <1>1, <1>10, <2>1, RemoveChildTree DEF ExitItem, ExitThumbnail
<1>11. CASE Acquire \/ ExitMedia
  <2>1. at \in DataObjects /\ at \in Objects /\ at.src \in Sources /\ at.itm \in Items
    BY <1>11, Where DEF Acquire, ExitMedia, InDataLoop, SessionInv, Objects
  <2>2. Parent(at) \in Objects
    BY <2>1, Where, DataObject, ItemObject DEF SessionInv
  <2>3. \/ UNCHANGED tree
        \/ \E t \in RemoveChild(tree, at) : tree' \in {t} \cup RemoveChild(t, Parent(at))
    BY <1>11 DEF Acquire, ExitMedia
  <2> QED
    BY <1>1, <2>1, <2>2, <2>3, RemoveChildTree
<1>12. CASE \/ UNCHANGED vars
            \/ IssueProcess \/ AsyncModule \/ AsyncReturns \/ UseFreed
            \/ SelectDataFails \/ GetVideoImageEx \/ RemoveChildSpins
            \/ \E s \in Sources : TurnOn(s) \/ TurnOff(s)
            \/ \E o \in Listeners : ChangeCapabilities(o)
            \/ \E s \in Sources, i \in Items : TakePicture(s, i) \/ LosePicture(s, i)
  BY <1>2, <1>12 DEF vars, IssueProcess, AsyncModule, AsyncReturns, UseFreed, SelectDataFails,
     GetVideoImageEx, RemoveChildSpins, TurnOn, TurnOff, ChangeCapabilities, TakePicture,
     LosePicture, Client
<1>13. CASE EventInDialog
  BY <1>13, DialogTree
<1> QED
  BY <1>3, <1>4, <1>5, <1>6, <1>7, <1>8, <1>9, <1>10, <1>11, <1>12, <1>13 DEF Next

LEMMA TypeStep ==
  ASSUME SessionAssumption, SessionInv, [Next]_vars
  PROVE  TypeOK'
<1>1. tree' \in SUBSET Objects
  BY TreeStep DEF Closed
<1>2. queue' \in [Listeners -> Seq(Events)]
  BY QueuesStep DEF QueuesOK
<1>3. EnumCapabilities \/ UNCHANGED capable => capable' \in SUBSET (Objects \cup {Mod})
  BY <1>1 DEF EnumCapabilities, SessionInv, TypeOK
<1>4. PointersKept \/ UNCHANGED freed => freed' \in BOOLEAN
  BY DEF PointersKept, SessionInv, TypeOK
<1>5. \A s \in Sources, i \in Items : Vanishes(s, i) => stored' \in [Sources -> SUBSET Items]
  BY DEF Vanishes, SessionInv, TypeOK
<1> DEFINE Rest == /\ at' \in Objects \cup {Mod}
                   /\ phase' \in {"menu", "asyncModule", "asyncSource", "exited",
                                  "undefined", "spinning"}
                   /\ freed' \in BOOLEAN /\ fileRemoved' \in BOOLEAN
                   /\ capable' \in SUBSET (Objects \cup {Mod})
                   /\ ended' \in {"none", "asked", "removed", "read", "failed"}
                   /\ on' \in SUBSET Sources
                   /\ stored' \in [Sources -> SUBSET Items]
<1> SUFFICES Rest
  BY <1>1, <1>2 DEF TypeOK
<1>6. CASE CloseModule \/ ExitSource
  BY <1>3, <1>4, <1>6 DEF CloseModule, ExitSource, Moves, Camera, SessionInv, TypeOK
<1>7. ASSUME NEW s \in Sources, SelectSource(s)
      PROVE  Rest
  BY <1>3, <1>4, <1>7, SourceObject DEF SelectSource, Moves, Camera, SessionInv, TypeOK
<1>8. ASSUME NEW i \in Items, SelectItem(i)
      PROVE  Rest
  <2>1. at.src \in Sources
    BY <1>8, Where DEF SelectItem, InSourceLoop, SessionInv
  <2>2. at' \in Objects \cup {Mod}
    BY <1>8, <2>1, ItemObject DEF SelectItem, Moves, SessionInv, TypeOK
  <2> QED
    BY <1>3, <1>4, <1>8, <2>2 DEF SelectItem, Moves, Camera, SessionInv, TypeOK
<1>9. ASSUME NEW o \in Listeners, DeliverEvent(o)
      PROVE  Rest
  <2>1. EnumCapabilities \/ capable' \in {capable \cup {o}, capable \ {o}}
    <3>1. queue[o] \in Seq(Events) /\ queue[o] # <<>>
      BY <1>9 DEF SessionInv, TypeOK, DeliverEvent
    <3>2. Head(queue[o]) \in Events
      BY <3>1
    <3>3. Head(queue[o]).type \in EventTypes
      BY <3>2 DEF Events
    <3> QED
      BY <1>9, <3>3 DEF DeliverEvent, HandleEvent, EventTypes
  <2>2. capable' \in SUBSET (Objects \cup {Mod})
    BY <1>3, <2>1 DEF SessionInv, TypeOK, Listeners, Objects
  <2> QED
    BY <1>4, <1>9, <2>2 DEF DeliverEvent, Camera, SessionInv, TypeOK
<1>10. ASSUME at \in ItemObjects \cup DataObjects
       PROVE  /\ at.src \in Sources /\ at.itm \in Items /\ Parent(at) \in Objects
              /\ Src(at.src) \in Objects /\ Itm(at.src, at.itm) \in Objects
              /\ \A k \in Kinds : Dat(at.src, at.itm, k) \in Objects
  <2>1. at.src \in Sources /\ at.itm \in Items
    BY <1>10, Where DEF SessionInv
  <2>2. Parent(at) \in {Src(at.src), Itm(at.src, at.itm)}
    BY <1>10, Where, ItemObject, DataObject DEF SessionInv
  <2> QED
    BY <2>1, <2>2, SourceObject, ItemObject, DataObject
<1>11. CASE SelectDataFails
  BY <1>10, <1>11 DEF SelectDataFails, InItemLoop, Returns, Camera, SessionInv, TypeOK
<1>12. ASSUME NEW k \in Kinds, SelectData(k)
       PROVE  Rest
  BY <1>3, <1>4, <1>10, <1>12
     DEF SelectData, InItemLoop, Returns, Camera, SessionInv, TypeOK
<1>13. CASE Delete
  <2>1. at' \in Objects /\ ended' \in {"none", "asked", "removed", "read", "failed"}
    <3>1. at' \in {at, Src(at.src)} /\ ended' \in {ended, "removed", "read"}
      BY <1>13 DEF Delete, Returns, LoopAfterRemoval
    <3>2. at \in Objects /\ Src(at.src) \in Objects
      BY <1>10, <1>13 DEF Delete, InItemLoop, Objects
    <3> QED
      BY <3>1, <3>2 DEF SessionInv, TypeOK
  <2>2. stored' \in [Sources -> SUBSET Items] /\ fileRemoved' \in BOOLEAN
    BY <1>5, <1>10, <1>13 DEF Delete, InItemLoop, SessionInv, TypeOK
  <2> QED
    BY <1>3, <1>4, <1>13, <2>1, <2>2 DEF Delete, SessionInv, TypeOK
<1>14. CASE ExitItem \/ ExitThumbnail
  BY <1>3, <1>4, <1>10, <1>14
     DEF ExitItem, ExitThumbnail, InItemLoop, InDataLoop, Returns, Camera, SessionInv, TypeOK
<1>15. CASE Acquire
  <2>1. at' \in Objects /\ ended' \in {"none", "asked", "removed", "read", "failed"}
    <3>1. at' \in {at, Src(at.src)} /\ ended' \in {ended, "removed", "read"}
      BY <1>15 DEF Acquire, Returns, LoopAfterRemoval
    <3>2. at \in Objects /\ Src(at.src) \in Objects
      BY <1>10, <1>15 DEF Acquire, InDataLoop, Objects
    <3> QED
      BY <3>1, <3>2 DEF SessionInv, TypeOK
  <2>2. stored' \in [Sources -> SUBSET Items] /\ fileRemoved' \in BOOLEAN
    BY <1>5, <1>10, <1>15 DEF Acquire, InDataLoop, SessionInv, TypeOK
  <2> QED
    BY <1>3, <1>4, <1>15, <2>1, <2>2 DEF Acquire, SessionInv, TypeOK
<1>16. CASE ExitMedia
  BY <1>3, <1>4, <1>10, <1>16
     DEF ExitMedia, InDataLoop, Returns, LoopAfterRemoval, Camera, SessionInv, TypeOK
<1>17. CASE \/ UNCHANGED vars \/ IssueProcess \/ AsyncModule \/ AsyncReturns \/ UseFreed
            \/ GetVideoImageEx \/ RemoveChildSpins
            \/ \E o \in Listeners : ChangeCapabilities(o)
  BY <1>17 DEF vars, IssueProcess, AsyncModule, AsyncReturns, UseFreed, GetVideoImageEx,
     RemoveChildSpins, ChangeCapabilities, Client, Camera, SessionInv, TypeOK
<1>18. CASE \/ \E s \in Sources : TurnOn(s) \/ TurnOff(s)
            \/ \E s \in Sources, i \in Items : TakePicture(s, i) \/ LosePicture(s, i)
  BY <1>5, <1>18 DEF TurnOn, TurnOff, TakePicture, LosePicture, Client, SessionInv, TypeOK
<1>19. CASE EventInDialog
  <2>1. EnumCapabilities \/ capable' \subseteq capable
    BY <1>19 DEF EventInDialog
  <2>2. capable' \in SUBSET (Objects \cup {Mod})
    BY <1>3, <2>1 DEF SessionInv, TypeOK
  <2> QED
    BY <1>4, <1>19, <2>2 DEF EventInDialog, Camera, SessionInv, TypeOK
<1> HIDE DEF Rest
<1> QED
  BY <1>6, <1>7, <1>8, <1>9, <1>11, <1>12, <1>13, <1>14, <1>15, <1>16, <1>17, <1>18, <1>19
     DEF Next

(* The pointers the loops keep.  Whoever moves on, or stays, keeps those of *)
(* open objects as long as none of its own is closed.                       *)
LEMMA Kept ==
  ASSUME ~freed, PointersKept, Chain(at') \subseteq tree,
         \A p \in Chain(at') : p \in tree'
  PROVE  LoopPointers'
<1>1. ~freed'
  BY DEF PointersKept
<1> QED
  BY <1>1 DEF LoopPointers

LEMMA LoopStep ==
  ASSUME SessionAssumption, SessionInv, [Next]_vars
  PROVE  LoopPointers' /\ AsyncLoops'
<1> USE DEF SessionInv
<1>1. Closed(tree)
  BY DEF Closed, TypeOK, ParentsOpen
<1>2. ~freed => Chain(at) \subseteq tree
  BY DEF LoopPointers
<1>3. at = Mod => ~freed
  BY ModIsNone, ObjectForm DEF LoopPointers, SessionAssumption, Kinds, Objects
<1>4. at \in ItemObjects => ~freed
  <2>1. at \in ItemObjects => at \notin SourceObjects /\ at.dat # "Video"
    BY Where, ItemObject, SourceObject DEF SourceObjects, SessionAssumption, Kinds
  <2> QED
    BY <2>1 DEF LoopPointers
<1>5. at \in DataObjects /\ at.dat # "Video" => ~freed
  <2>1. at \in DataObjects => at \notin SourceObjects
    BY Where, DataObject, SourceObject DEF SourceObjects, SessionAssumption
  <2> QED
    BY <2>1 DEF LoopPointers
<1>6. ASSUME UNCHANGED <<at, freed, tree>>
      PROVE  LoopPointers'
  <2>1. Chain(at') = Chain(at)
    BY <1>6
  <2> QED
    BY <1>6, <2>1 DEF LoopPointers
<1> DEFINE Goal == LoopPointers' /\ AsyncLoops'
<1> SUFFICES Goal
  OBVIOUS
<1>7. CASE CloseModule \/ ExitSource
  <2>1. at' = Mod /\ PointersKept
    BY <1>7 DEF CloseModule, ExitSource, Moves
  <2>2. Chain(at') = {} /\ ~freed'
    BY <2>1, Chains DEF PointersKept
  <2>3. phase' \in {"menu", "exited"}
    BY <1>7 DEF CloseModule, ExitSource, InSourceLoop
  <2> QED
    BY <2>2, <2>3 DEF LoopPointers, AsyncLoops
<1>8. ASSUME NEW s \in Sources, SelectSource(s)
      PROVE  Goal
  <2>1. at = Mod /\ ~freed /\ phase' \in {"menu", "asyncSource"}
    BY <1>3, <1>8 DEF SelectSource, InLoop
  <2>2. tree \subseteq tree'
    BY <1>1, <1>8, SourceObject, AddChildTree DEF SelectSource
  <2>3. ~freed'
    BY <1>8, <2>1, <2>2 DEF SelectSource, Moves, PointersKept
  <2>4. CASE Src(s) \in tree'
    <3>1. at' = Src(s)
      BY <1>8, <2>4 DEF SelectSource, Moves
    <3> QED
      BY <2>1, <2>3, <2>4, <3>1, Chains, SourceObject DEF LoopPointers, AsyncLoops
  <2>5. CASE Src(s) \notin tree'
    <3>1. at' = Mod /\ phase' = "menu"
      BY <1>8, <2>5 DEF SelectSource, Moves
    <3> QED
      BY <2>3, <3>1, Chains DEF LoopPointers, AsyncLoops
  <2> QED
    BY <2>4, <2>5
<1>9. ASSUME NEW i \in Items, SelectItem(i)
      PROVE  Goal
  <2>1. at.src \in Sources /\ at = Src(at.src) /\ ~freed /\ phase' = "menu"
    BY <1>9, Where DEF SelectItem, InSourceLoop
  <2>2. tree \subseteq tree'
    BY <1>1, <1>9, <2>1, ItemObject, AddChildTree DEF SelectItem
  <2>3. ~freed'
    BY <1>9, <2>1, <2>2 DEF SelectItem, Moves, PointersKept
  <2>4. Src(at.src) \in tree'
    BY <1>2, <2>1, <2>2, Chains
  <2>5. at' \in {at, Itm(at.src, i)} /\ (at' # at => Itm(at.src, i) \in tree')
    BY <1>9 DEF SelectItem, Moves
  <2>6. Chain(at') \subseteq tree'
    BY <2>1, <2>4, <2>5, Chains
  <2> QED
    BY <2>1, <2>3, <2>6 DEF LoopPointers, AsyncLoops
<1>10. ASSUME NEW o \in Listeners, DeliverEvent(o)
       PROVE  Goal
  <2>1. at' = at /\ phase' = phase /\ PointersKept
    BY <1>10 DEF DeliverEvent
  <2>2. AsyncLoops'
    BY <2>1 DEF AsyncLoops
  <2>3. ~freed' => Chain(at') \subseteq tree'
    <3>1. CASE at = Mod
      BY <2>1, <3>1, Chains
    <3>2. CASE at # Mod
      BY <1>2, <2>1, <3>2 DEF PointersKept
    <3> QED
      BY <3>1, <3>2
  <2>4. freed' => at \in SourceObjects \/ at.dat = "Video"
    <3>1. freed' => at # Mod
      BY <2>1 DEF PointersKept
    <3>2. phase \in {"asyncModule", "asyncSource"} \/ at = Mod
      BY <1>10 DEF DeliverEvent, Listening, InLoop
    <3> QED
      BY <3>1, <3>2 DEF AsyncLoops
  <2> QED
    BY <2>1, <2>2, <2>3, <2>4 DEF LoopPointers
<1>11. CASE SelectDataFails
  <2>1. /\ at \in ItemObjects /\ at' = Parent(at) /\ UNCHANGED <<freed, tree>>
        /\ phase' = "menu"
    BY <1>11 DEF SelectDataFails, InItemLoop, Returns
  <2>2. at.src \in Sources /\ at.itm \in Items /\ at = Itm(at.src, at.itm)
    BY <2>1, Where
  <2>3. at' = Src(at.src) /\ Chain(at') \subseteq tree /\ ~freed
    BY <1>2, <1>4, <2>1, <2>2, ItemObject, Chains
  <2> QED
    BY <2>1, <2>3 DEF LoopPointers, AsyncLoops
<1>12. ASSUME NEW k \in Kinds, SelectData(k)
       PROVE  Goal
  <2>1. at \in ItemObjects /\ phase' = "menu" /\ PointersKept
    BY <1>12 DEF SelectData, InItemLoop
  <2>2. at.src \in Sources /\ at.itm \in Items /\ at = Itm(at.src, at.itm)
    BY <2>1, Where
  <2>3. Src(at.src) \in tree /\ at \in tree /\ ~freed
    BY <1>2, <1>4, <2>1, <2>2, Chains
  <2>4. tree \subseteq tree'
    BY <1>1, <1>12, <2>2, DataObject, AddChildTree DEF SelectData
  <2>5. ~freed'
    BY <2>1, <2>3, <2>4 DEF PointersKept
  <2>6. \/ at' = Dat(at.src, at.itm, k) /\ Dat(at.src, at.itm, k) \in tree'
        \/ at' = Parent(at)
    BY <1>12 DEF SelectData, Returns
  <2>7. Chain(at') \subseteq tree'
    BY <2>2, <2>3, <2>4, <2>6, ItemObject, Chains
  <2> QED
    BY <2>1, <2>5, <2>7 DEF LoopPointers, AsyncLoops
<1>13. CASE Delete
  <2>1. at \in ItemObjects /\ phase' = "menu" /\ PointersKept
    BY <1>13 DEF Delete, InItemLoop
  <2>2. at.src \in Sources /\ at.itm \in Items /\ at = Itm(at.src, at.itm)
    BY <2>1, Where
  <2>3. Chain(at) = {Src(at.src), at} /\ Src(at.src) \in tree /\ at \in tree /\ ~freed
    BY <1>2, <1>4, <2>1, <2>2, Chains
  <2> DEFINE image == Dat(at.src, at.itm, "Image")
  <2>4. image \in Objects /\ at \in Objects /\ Src(at.src) \notin Subtree(image)
        /\ at \notin Subtree(image) /\ Src(at.src) \notin Subtree(at)
    BY <2>2, SourceObject, ItemObject, DataObject DEF Kinds, Subtree, SessionAssumption
  <2>5. PICK t \in IF image \in tree THEN {tree} ELSE AddChild(tree, image) :
        \E u \in {t} \cup RemoveChild(t, image) :
          \/ tree' \in RemoveChild(u, at) /\ at' = Src(at.src)
          \/ tree' = u /\ at' = at
    BY <1>13 DEF Delete, Returns, LoopAfterRemoval
  <2> HIDE DEF image
  <2>6. Closed(t) /\ Src(at.src) \in t /\ at \in t
    BY <1>1, <2>3, <2>4, <2>5, AddChildTree
  <2>7. PICK u \in {t} \cup RemoveChild(t, image) :
          \/ tree' \in RemoveChild(u, at) /\ at' = Src(at.src)
          \/ tree' = u /\ at' = at
    BY <2>5
  <2>8. Closed(u) /\ Src(at.src) \in u /\ at \in u
    BY <2>4, <2>6, <2>7, RemoveChildTree
  <2>9. Chain(at') \subseteq tree /\ Chain(at') \subseteq tree'
    BY <2>2, <2>3, <2>4, <2>7, <2>8, Chains, RemoveChildTree
  <2> QED
    BY <2>1, <2>3, <2>9, Kept DEF AsyncLoops
<1>14. CASE ExitItem
  <2>1. at \in ItemObjects /\ phase' = "menu" /\ PointersKept
    BY <1>14 DEF ExitItem, InItemLoop
  <2>2. at.src \in Sources /\ at.itm \in Items /\ at = Itm(at.src, at.itm)
    BY <2>1, Where
  <2>3. Src(at.src) \in tree /\ ~freed /\ at \in Objects /\ Src(at.src) \notin Subtree(at)
    BY <1>2, <1>4, <2>1, <2>2, Chains, SourceObject, ItemObject DEF Subtree, SessionAssumption
  <2>4. at' = Src(at.src) /\ Src(at.src) \in tree'
    BY <1>1, <1>14, <2>2, <2>3, ItemObject, RemoveChildTree DEF ExitItem, Returns
  <2> QED
    BY <2>1, <2>2, <2>3, <2>4, Chains, Kept DEF AsyncLoops
<1>15. CASE Acquire \/ ExitMedia \/ ExitThumbnail
  <2>1. at \in DataObjects /\ phase' = "menu" /\ PointersKept
    BY <1>15 DEF Acquire, ExitMedia, ExitThumbnail, InDataLoop
  <2>2. /\ at.src \in Sources /\ at.itm \in Items /\ at.dat \in Kinds
        /\ at = Dat(at.src, at.itm, at.dat)
    BY <2>1, Where
  <2>3. ~freed
    BY <1>5, <1>15, <2>1 DEF Acquire, ExitMedia, ExitThumbnail, InDataLoop
  <2> DEFINE s == Src(at.src)
             i == Itm(at.src, at.itm)
  <2>4. /\ Chain(at) = {s, i, at} /\ s \in tree /\ i \in tree /\ at \in tree
        /\ Chain(s) = {s} /\ Chain(i) = {s, i}
    BY <1>2, <2>2, <2>3, Chains
  <2>5. /\ at \in Objects /\ i \in Objects /\ Parent(at) = i /\ Parent(i) = s
        /\ s \notin Subtree(at) /\ i \notin Subtree(at) /\ s \notin Subtree(i)
    BY <2>2, SourceObject, ItemObject, DataObject DEF Subtree, SessionAssumption
  <2>6. \/ UNCHANGED <<tree, at>>
        \/ \E t \in RemoveChild(tree, at) :
             \/ tree' \in RemoveChild(t, i) /\ at' = s
             \/ tree' = t /\ at' \in {s, i}
    BY <1>15, <2>5 DEF Acquire, ExitMedia, ExitThumbnail, Returns, LoopAfterRemoval
  <2> HIDE DEF s, i
  <2>7. CASE UNCHANGED <<tree, at>>
    BY <2>1, <2>3, <2>4, <2>7, Kept DEF AsyncLoops
  <2>8. ASSUME NEW t \in RemoveChild(tree, at),
               \/ tree' \in RemoveChild(t, i) /\ at' = s
               \/ tree' = t /\ at' \in {s, i}
        PROVE  Goal
    <3>1. Closed(t) /\ s \in t /\ i \in t
      BY <1>1, <2>4, <2>5, <2>8, RemoveChildTree
    <3>2. s \in tree' /\ (at' = i => i \in tree')
      <4>1. CASE tree' \in RemoveChild(t, i) /\ at' = s
        <5>1. s # i
          BY <2>5, SubtreeRoot
        <5> QED
          BY <2>5, <3>1, <4>1, <5>1, RemoveChildTree
      <4> QED
        BY <2>8, <3>1, <4>1
    <3>3. Chain(at') \subseteq tree /\ Chain(at') \subseteq tree'
      BY <2>4, <2>8, <3>2
    <3> QED
      BY <2>1, <2>3, <3>3, Kept DEF AsyncLoops
  <2> QED
    BY <2>6, <2>7, <2>8
<1>16. CASE IssueProcess \/ AsyncModule \/ AsyncReturns \/ UseFreed \/ GetVideoImageEx
            \/ RemoveChildSpins
  <2>1. UNCHANGED <<at, freed, tree>>
    BY <1>16 DEF IssueProcess, AsyncModule, AsyncReturns, UseFreed, GetVideoImageEx,
       RemoveChildSpins
  <2>2. AsyncLoops'
    BY <1>16 DEF IssueProcess, AsyncModule, AsyncReturns, UseFreed, GetVideoImageEx,
       RemoveChildSpins, InSourceLoop, InDataLoop, AsyncLoops
  <2> QED
    BY <1>6, <2>1, <2>2
<1>17. CASE \/ UNCHANGED vars \/ \E o \in Listeners : ChangeCapabilities(o)
            \/ \E s \in Sources : TurnOn(s) \/ TurnOff(s)
            \/ \E s \in Sources, i \in Items : TakePicture(s, i) \/ LosePicture(s, i)
  <2>1. UNCHANGED <<at, phase, freed, tree>>
    BY <1>17 DEF vars, ChangeCapabilities, TurnOn, TurnOff, TakePicture, LosePicture, Client
  <2> QED
    BY <1>6, <2>1 DEF AsyncLoops
<1>18. CASE EventInDialog
  <2>1. /\ at' = at /\ phase = "menu" /\ phase' = "menu"
        /\ ~freed /\ PointersKept
    BY <1>18 DEF EventInDialog, InItemLoop, InDataLoop
  <2>2. Chain(at) \subseteq tree /\ Chain(at) \subseteq tree'
    BY <1>2, <1>18, <2>1, DialogTree
  <2> QED
    BY <2>1, <2>2, Kept DEF AsyncLoops
<1> HIDE DEF Goal
<1> QED
  BY <1>7, <1>8, <1>9, <1>10, <1>11, <1>12, <1>13, <1>14, <1>15, <1>16, <1>17, <1>18 DEF Next

(* Only choosing an image or a film leads into the loop of one, and nothing *)
(* that is done there sets the flag without leaving.                        *)
LEMMA FlagStep ==
  ASSUME SessionAssumption, SessionInv, [Next]_vars
  PROVE  FlagIsFresh'
<1>1. FlagIsFresh
  BY DEF SessionInv
<1>2. ASSUME UNCHANGED <<at, fileRemoved>>
      PROVE  FlagIsFresh'
  BY <1>1, <1>2 DEF FlagIsFresh
<1>3. ASSUME at'.dat = None
      PROVE  FlagIsFresh'
  BY <1>3 DEF FlagIsFresh, SessionAssumption, Kinds
<1>4. CASE CloseModule \/ ExitSource
  BY <1>3, <1>4, ModIsNone DEF CloseModule, ExitSource, Moves
<1>5. ASSUME NEW s \in Sources, SelectSource(s)
      PROVE  FlagIsFresh'
  BY <1>3, <1>5, ModIsNone, SourceObject DEF SelectSource, Moves
<1>6. ASSUME NEW i \in Items, SelectItem(i)
      PROVE  FlagIsFresh'
  <2>1. at.src \in Sources /\ at.dat = None
    BY <1>6, Where, SourceObject DEF SelectItem, InSourceLoop, SessionInv
  <2> QED
    BY <1>3, <1>6, <2>1, ItemObject DEF SelectItem, Moves
<1>7. CASE SelectDataFails \/ ExitItem
  <2>1. at' = Parent(at) /\ at \in ItemObjects
    BY <1>7 DEF SelectDataFails, ExitItem, Returns, InItemLoop
  <2> QED
    BY <1>3, <2>1, Where, ItemObject, SourceObject DEF SessionInv
<1>8. ASSUME NEW k \in Kinds, SelectData(k)
      PROVE  FlagIsFresh'
  <2>1. at.src \in Sources /\ at.itm \in Items /\ Parent(at) = Src(at.src)
    BY <1>8, Where, ItemObject DEF SelectData, InItemLoop, SessionInv
  <2>2. at' = Dat(at.src, at.itm, k) \/ at' = Src(at.src)
    BY <1>8, <2>1 DEF SelectData, Returns
  <2>3. at'.dat \in {k, None}
    BY <2>1, <2>2, DataObject, SourceObject
  <2>4. k # "Thumbnail" => ~fileRemoved'
    BY <1>8 DEF SelectData, ResetsFlag
  <2> QED
    BY <1>3, <2>3, <2>4 DEF FlagIsFresh
<1>9. CASE Delete
  <2>1. at \in ItemObjects /\ at' \in {at, Src(at.src)}
    BY <1>9 DEF Delete, InItemLoop, Returns, LoopAfterRemoval
  <2> QED
    BY <1>3, <2>1, Where, ItemObject, SourceObject DEF SessionInv
<1>10. CASE Acquire
  <2>1. at \in DataObjects /\ at.src \in Sources /\ at.dat \in {"Image", "Thumbnail"}
    BY <1>10, Where DEF Acquire, InDataLoop, SessionInv
  <2>2. CASE at.dat = "Image" /\ fileRemoved'
    <3>1. at' = Src(at.src)
      BY <1>10, <2>2 DEF Acquire, Returns, LoopAfterRemoval
    <3> QED
      BY <1>3, <2>1, <3>1, SourceObject
  <2>3. CASE ~(at.dat = "Image" /\ fileRemoved')
    BY <1>10, <2>1, <2>3 DEF Acquire, Returns, FlagIsFresh
  <2> QED
    BY <2>2, <2>3
<1>11. CASE ExitMedia \/ ExitThumbnail
  <2>1. at \in DataObjects /\ at.src \in Sources /\ at.itm \in Items
        /\ Parent(at) = Itm(at.src, at.itm)
    BY <1>11, Where, DataObject DEF ExitMedia, ExitThumbnail, InDataLoop, SessionInv
  <2>2. at' \in {Src(at.src), Itm(at.src, at.itm)}
    BY <1>11, <2>1 DEF ExitMedia, ExitThumbnail, Returns, LoopAfterRemoval
  <2> QED
    BY <1>3, <2>1, <2>2, SourceObject, ItemObject
<1>12. CASE \/ UNCHANGED vars \/ IssueProcess \/ AsyncModule \/ AsyncReturns \/ UseFreed
            \/ GetVideoImageEx \/ EventInDialog \/ RemoveChildSpins
            \/ \E o \in Listeners : DeliverEvent(o) \/ ChangeCapabilities(o)
            \/ \E s \in Sources : TurnOn(s) \/ TurnOff(s)
            \/ \E s \in Sources, i \in Items : TakePicture(s, i) \/ LosePicture(s, i)
  BY <1>2, <1>12 DEF vars, IssueProcess, AsyncModule, AsyncReturns, UseFreed, GetVideoImageEx,
     EventInDialog, RemoveChildSpins, DeliverEvent, ChangeCapabilities, TurnOn, TurnOff, TakePicture,
     LosePicture, Client
<1> QED
  BY <1>4, <1>5, <1>6, <1>7, <1>8, <1>9, <1>10, <1>11, <1>12 DEF Next

LEMMA SessionInit ==
  ASSUME SessionAssumption, Init
  PROVE  SessionInv
<1>1. TypeOK
  <2>1. <<>> \in Seq(Events)
    OBVIOUS
  <2>2. queue \in [Listeners -> Seq(Events)]
    BY <2>1 DEF Init
  <2> QED
    BY <2>2 DEF Init, TypeOK
<1>2. QueuesFit
  <2>1. 1 .. Len(<<>>) = {}
    OBVIOUS
  <2>2. \A o \in Listeners : queue[o] = <<>>
    BY DEF Init
  <2> QED
    BY <2>1, <2>2 DEF QueuesFit
<1>3. ParentsOpen /\ AsyncLoops
  BY DEF Init, ParentsOpen, AsyncLoops
<1>4. LoopPointers
  BY Chains DEF Init, LoopPointers
<1>5. FlagIsFresh
  BY DEF Init, FlagIsFresh
<1> QED
  BY <1>1, <1>2, <1>3, <1>4, <1>5 DEF SessionInv

-----------------------------------------------------------------------------
(* Theorems.                                                               *)

(* The objects, the loops and the waiting events keep to what RemoveChild, *)
(* AddChild and the loops take for granted about one another.              *)
THEOREM Session == Spec => []SessionInv
<1>1. Init => SessionInv
  BY SessionAssumption, SessionInit
<1>2. SessionInv /\ [Next]_vars => SessionInv'
  <2> SUFFICES ASSUME SessionInv, [Next]_vars
               PROVE  SessionInv'
    OBVIOUS
  <2>1. TypeOK' /\ LoopPointers' /\ AsyncLoops' /\ FlagIsFresh'
    BY SessionAssumption, TypeStep, LoopStep, FlagStep
  <2>2. QueuesFit' /\ ParentsOpen'
    BY SessionAssumption, QueuesStep, TreeStep DEF QueuesOK, Closed, ParentsOpen
  <2> QED
    BY <2>1, <2>2 DEF SessionInv
<1> QED
  BY <1>1, <1>2, PTL DEF Spec

(* Every variable keeps its type: no event procedure and no loop opens     *)
(* something that is not a camera, an item or a part of one.               *)
THEOREM TypeCorrect == Spec => []TypeOK
<1>1. SessionInv => TypeOK
  BY DEF SessionInv
<1> QED
  BY <1>1, Session, PTL

(* AddChild and RemoveChild, called by loops and callbacks alike and each  *)
(* failing half way, never leave an object open below a closed one.        *)
THEOREM NothingIsOrphaned == Spec => []ParentsOpen
<1>1. SessionInv => ParentsOpen
  BY DEF SessionInv
<1> QED
  BY <1>1, Session, PTL

(* No loop of main.cpp uses a RefObj that RemoveChild has freed, but those *)
(* of a camera and of a film, below which Async reaches further up.        *)
THEOREM PointersAreLive == Spec => []LoopPointers
<1>1. SessionInv => LoopPointers
  BY DEF SessionInv
<1> QED
  BY <1>1, Session, PTL

(* A loop that closes its item for having been removed is right: the item  *)
(* is gone from the camera, except after Delete's own mistakes.            *)
THEOREM RemovalIsTrue == Spec => RemovedItemIsGone
<1> DEFINE Step ==
      at.itm # None /\ at'.itm = None /\ ended' = "removed"
        => \/ at.itm \notin stored'[at.src]
           \/ InItemLoop /\ fileRemoved
<1>1. SessionInv /\ [Next]_vars => [Step]_vars
  <2> SUFFICES ASSUME SessionInv, Next, at.itm # None, at'.itm = None, ended' = "removed"
               PROVE  at.itm \notin stored'[at.src] \/ (InItemLoop /\ fileRemoved)
    OBVIOUS
  <2>1. stored \in [Sources -> SUBSET Items]
    BY DEF SessionInv, TypeOK
  <2>2. at # Mod /\ at \notin SourceObjects
    BY ModIsNone, SourceObject, SessionAssumption DEF SourceObjects
  <2>3. at' # at
    OBVIOUS
  <2>4. CASE Delete
    <3>1. at.src \in Sources
      BY <2>4, Where, SessionAssumption DEF Delete, InItemLoop, SessionInv
    <3>2. PICK how \in {"refused", "unfinished", "deleted", "read"} :
            /\ fileRemoved' = (fileRemoved \/ how \in {"deleted", "read"})
            /\ IF fileRemoved'
               THEN Returns(LoopAfterRemoval, IF how = "read" THEN "read" ELSE "removed")
               ELSE Returns(at, ended)
            /\ \/ how \in {"unfinished", "deleted", "read"} /\ Vanishes(at.src, at.itm)
               \/ how \in {"refused", "read"} /\ UNCHANGED <<stored, queue>>
      BY <2>4 DEF Delete
    <3>3. how # "read" /\ fileRemoved'
      BY <2>3, <3>2 DEF Returns
    <3>4. CASE how = "deleted"
      BY <2>1, <3>1, <3>2, <3>4 DEF Vanishes
    <3>5. CASE how # "deleted"
      BY <2>4, <3>2, <3>3, <3>5 DEF Delete
    <3> QED
      BY <3>4, <3>5
  <2>5. CASE Acquire
    <3>1. at.src \in Sources
      BY <2>5, Where, SessionAssumption DEF Acquire, InDataLoop, SessionInv
    <3>2. at.dat = "Image" /\ fileRemoved' /\ ~fileRemoved
      BY <2>3, <2>5 DEF Acquire, Returns, SessionInv, FlagIsFresh
    <3>3. Vanishes(at.src, at.itm)
      BY <2>5, <3>2 DEF Acquire, SetsFlag
    <3> QED
      BY <2>1, <3>1, <3>3 DEF Vanishes
  <2>6. CASE ExitMedia
    <3>1. ~fileRemoved
      BY <2>6 DEF ExitMedia, InDataLoop, SessionInv, FlagIsFresh
    <3>2. at.src \in Sources /\ at.itm \in Items /\ Parent(at) = Itm(at.src, at.itm)
      BY <2>6, Where, DataObject, SessionAssumption DEF ExitMedia, InDataLoop, SessionInv
    <3>3. ended' = "failed" \/ at' = Parent(at)
      BY <2>6, <3>1 DEF ExitMedia, Returns
    <3> QED
      BY <3>2, <3>3, ItemObject, SessionAssumption DEF SessionAssumption
  <2>7. CASE ExitThumbnail
    <3>1. at.src \in Sources /\ at.itm \in Items /\ Parent(at) = Itm(at.src, at.itm)
      BY <2>7, Where, DataObject, SessionAssumption DEF ExitThumbnail, InDataLoop, SessionInv
    <3>2. ended' = "failed" \/ at' = Parent(at)
      BY <2>7 DEF ExitThumbnail, Returns
    <3> QED
      BY <3>1, <3>2, ItemObject, SessionAssumption DEF SessionAssumption
  <2>8. ASSUME NEW k \in Kinds, SelectData(k)
        PROVE  FALSE
    <3>1. at.src \in Sources /\ at.itm \in Items
      BY <2>8, Where, SessionAssumption DEF SelectData, InItemLoop, SessionInv
    <3>2. at' = Dat(at.src, at.itm, k) \/ ended' = "failed"
      BY <2>8 DEF SelectData, Returns
    <3> QED
      BY <3>1, <3>2, DataObject, SessionAssumption DEF SessionAssumption
  <2>9. CASE SelectDataFails \/ ExitItem
    BY <2>9 DEF SelectDataFails, ExitItem, Returns
  <2>10. ASSUME \/ CloseModule \/ ExitSource
                \/ \E s \in Sources : SelectSource(s)
                \/ \E i \in Items : SelectItem(i)
         PROVE  FALSE
    BY <2>2, <2>10 DEF CloseModule, ExitSource, SelectSource, SelectItem, InLoop, InSourceLoop
  <2>11. CASE \/ IssueProcess \/ AsyncModule \/ AsyncReturns \/ UseFreed
              \/ GetVideoImageEx \/ EventInDialog \/ RemoveChildSpins
              \/ \E o \in Listeners : DeliverEvent(o) \/ ChangeCapabilities(o)
              \/ \E s \in Sources : TurnOn(s) \/ TurnOff(s)
              \/ \E s \in Sources, i \in Items : TakePicture(s, i) \/ LosePicture(s, i)
    BY <2>3, <2>11 DEF IssueProcess, AsyncModule, AsyncReturns, UseFreed, GetVideoImageEx,
       EventInDialog, RemoveChildSpins, DeliverEvent, ChangeCapabilities, TurnOn, TurnOff, TakePicture,
       LosePicture, Client
  <2> QED
    BY <2>4, <2>5, <2>6, <2>7, <2>8, <2>9, <2>10, <2>11 DEF Next
<1> QED
  BY <1>1, Session, PTL DEF Spec, RemovedItemIsGone

=============================================================================
