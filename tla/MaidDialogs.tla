---------------------------- MODULE MaidDialogs ----------------------------
(***************************************************************************)
(* The dialogs of the Nikon control sample: the functions behind its menus *)
(* that show, ask for and set the capabilities of an object (Function.cpp  *)
(* and the menus of main.cpp of Type0023_CtrlSample).                      *)
(*                                                                         *)
(* A dialog is a straight list of steps.  Each step that may fail, or that *)
(* the user may decline, ends the dialog and frees what the code frees on  *)
(* that path; values, texts and prompts are left out.  A dialog looks its  *)
(* capability up once and keeps the pointer, pCapInfo, into an array which *)
(* a CapChange event makes an event procedure free and allocate anew.      *)
(* Events come while a command that the module has not finished at once is *)
(* waited for; MaidCommands is about that wait.                            *)
(***************************************************************************)
EXTENDS Naturals, Sequences

CONSTANT None  \* no dialog, no resource

Resources == {"data", "file", "image"}

(* Steps.  What a failing step frees is h; r is a resource. *)
Step(op, r, h) == [op |-> op, of |-> r, frees |-> h]

Find == Step("find", None, {})          \* GetCapInfo, and the type is right
Show == Step("show", None, {})          \* the description is printed
Test(h) == Step("test", None, h)        \* a check, or a choice of the user's
Send(h) == Step("command", None, h)     \* a command about a value in the frame
Fill(r, h) == Step("command", r, h)     \* a command that reads or writes r
Allocate(h) == Step("take", "data", h)
AllocateUnchecked == Step("try", "data", {})
Open(r, h) == Step("take", r, h)
Use(r) == Step("use", r, {})            \* r is read or written by the program
Release(r) == Step("release", r, {})    \* free or fclose
Parts(r, h) == Step("parts", r, h)      \* one command per part of a film
Catch(on) == Step(IF on THEN "catch" ELSE "uncatch", None, {})

-----------------------------------------------------------------------------
(* Dialogs about one value: read it, show it, set it. *)
Read == <<Find, Test({}), Send({})>>
SetValue == Read \o <<Show, Test({}), Send({})>>

SetIntegerCapability == SetValue
SetUnsignedCapability == SetValue
SetFloatCapability == SetValue
SetStringCapability == SetValue
SetSizeCapability == SetValue
SetDateTimeCapability == SetValue
SetBoolCapability == SetValue
SetRangeCapability == SetValue
TimeCodeOriginCapability == SetValue
GetUnsignedCapability == Read
GetRecordingInfoCapability == Read
SetTrackingAFAreaCapability == <<Find, Test({}), Test({}), Send({})>>
DeleteCustomPictureControlCapability == <<Test({}), Test({}), Send({})>>
TestFlashCapability == <<Test({}), Find, Test({}), Send({})>>

(* Mutant: a failure forgets the array. *)
FreedOnFailure_Forgotten == {}

(* Choosing an element: the function for its kind of array looks the       *)
(* capability up once more, and has to free the array on every way out.    *)
FreedOnFailure == {"data"}

ChooseElement ==
  <<Find, Test({}), Allocate({}), Fill("data", FreedOnFailure), Show, Test({"data"}),
    Fill("data", FreedOnFailure), Release("data")>>

SetEnumUnsignedCapability == ChooseElement
SetEnumPackedStringCapability == ChooseElement
SetEnumStringCapability == ChooseElement

SetEnumCapability(kind) ==
  Read \o <<Test({})>> \o CASE kind = "Unsigned" -> SetEnumUnsignedCapability
                            [] kind = "PackedString" -> SetEnumPackedStringCapability
                            [] kind = "String" -> SetEnumStringCapability

(* The object to go to is chosen from a list as well. *)
SelectObject == Read \o <<Test({}), Allocate({}), Fill("data", {"data"}), Use("data"), Release("data")>>
SelectSource == SelectObject
SelectItem == SelectObject
SelectData == Read
CheckDataType == Read

GetArrayCapability == Read \o <<Test({}), Allocate({}), Fill("data", {"data"})>>

GetManualSettingLensDataCapability ==
  <<Find, Test({}), Test({}), Send({}), Allocate({}), Fill("data", {})>>

-----------------------------------------------------------------------------
(* Dialogs that load a file into the camera, or save what it sends. *)
Both == {"data", "file"}
Load == <<Use("data"), Test(Both), Fill("data", Both), Release("file"), Release("data")>>
Save == <<Open("file", {"data"}), Use("data"), Release("file"), Release("data")>>

SetPictureControlDataCapability ==
  <<Find, Test({}), Open("file", {}), AllocateUnchecked>> \o Load
GetPictureControlDataCapability ==
  <<Find, Test({}), AllocateUnchecked, Fill("data", {"data"})>> \o Save
SetWBPresetDataCapability ==
  <<Test({}), Find, Test({}), Open("file", {}), AllocateUnchecked>> \o Load

GetSBData == <<Test({}), Find, Test({}), Send({}), Allocate({}), Fill("data", {"data"})>> \o Save
SetSBData == <<Find, Test({}), Open("file", {}), Test({"file"}), Allocate({"file"})>> \o Load

GetSBHandlesCapability == GetSBData
GetSBAttrDescCapability == GetSBData
GetSBGroupAttrDescCapability == GetSBData
GetSBAttrValueCapability == GetSBData
GetSBGroupAttrValueCapability == GetSBData
SetSBAttrValueCapability == SetSBData
SetSBGroupAttrValueCapability == SetSBData

GetLiveViewImageCapability ==
  GetArrayCapability \o
  <<Open("file", {}), Open("image", {"file"}), Use("data"),
    Release("file"), Release("image"), Release("data")>>

(* A film comes in parts, until Ctrl+C is pressed. *)
GetVideoImageExCapability ==
  <<Catch(TRUE), Send({}), Test({}), Allocate({}), Send({}), Open("file", {"file"}),
    Parts("data", {"data"}), Catch(FALSE), Release("file"), Release("data")>>

-----------------------------------------------------------------------------
(* What the menus offer.  A menu inside a dialog is a menu of its own. *)
Scripts == [
  SelectSource |-> SelectSource, SelectItem |-> SelectItem, SelectData |-> SelectData,
  CheckDataType |-> CheckDataType, Integer |-> SetIntegerCapability, Unsigned |-> SetUnsignedCapability,
  Float |-> SetFloatCapability, String |-> SetStringCapability, Size |-> SetSizeCapability,
  DateTime |-> SetDateTimeCapability, Bool |-> SetBoolCapability, Range |-> SetRangeCapability,
  EnumUnsigned |-> SetEnumCapability("Unsigned"),
  EnumPackedString |-> SetEnumCapability("PackedString"),
  EnumString |-> SetEnumCapability("String"),
  TimeCodeOrigin |-> TimeCodeOriginCapability, GetUnsigned |-> GetUnsignedCapability,
  RecordingInfo |-> GetRecordingInfoCapability, TrackingAFArea |-> SetTrackingAFAreaCapability,
  DeleteCustom |-> DeleteCustomPictureControlCapability, TestFlash |-> TestFlashCapability,
  ManualLens |-> GetManualSettingLensDataCapability,
  SetPictureControl |-> SetPictureControlDataCapability,
  GetPictureControl |-> GetPictureControlDataCapability, WBPreset |-> SetWBPresetDataCapability,
  SBHandles |-> GetSBHandlesCapability, SBAttrDesc |-> GetSBAttrDescCapability,
  SBGroupAttrDesc |-> GetSBGroupAttrDescCapability,
  GetSBAttr |-> GetSBAttrValueCapability, SetSBAttr |-> SetSBAttrValueCapability,
  GetSBGroupAttr |-> GetSBGroupAttrValueCapability,
  SetSBGroupAttr |-> SetSBGroupAttrValueCapability,
  LiveView |-> GetLiveViewImageCapability, Film |-> GetVideoImageExCapability]

ASSUME DialogsAssumption == None \notin Resources \cup DOMAIN Scripts

Enums == {"EnumUnsigned", "EnumPackedString", "EnumString"}

SetUpCamera1 == {"Bool", "String", "Unsigned", "Integer", "Float", "Range", "DateTime"} \cup Enums
SetUpCamera2 == {"Bool", "Unsigned", "String", "ManualLens"} \cup Enums
SetMovieMenu == {"Unsigned", "DeleteCustom", "TimeCodeOrigin"} \cup Enums
SetShootingMenu == {"Range", "Unsigned", "WBPreset", "DeleteCustom"} \cup Enums
SetLiveView == {"Unsigned", "LiveView", "TrackingAFArea"} \cup Enums
SetCustomSettings == {"Unsigned", "Range"} \cup Enums
SetSBMenu == {"Unsigned", "SBHandles", "SBAttrDesc", "SBGroupAttrDesc", "TestFlash"} \cup Enums
ModuleCommandLoop == {"SelectSource", "Bool", "String", "Unsigned"}
SourceCommandLoop == {"SelectItem", "GetUnsigned"}
ItemCommandLoop == {"SelectData", "CheckDataType", "Bool", "String", "Unsigned", "DateTime"}
ImageCommandLoop == {"Bool", "String", "Unsigned", "Size"}
ThumbnailCommandLoop == ImageCommandLoop
MovieCommandLoop == ImageCommandLoop \cup {"Film", "RecordingInfo"}
PictureControlDataCapability == {"SetPictureControl", "GetPictureControl"}
SBAttrValueCapability == {"SetSBAttr", "GetSBAttr"}
SBGroupAttrValueCapability == {"SetSBGroupAttr", "GetSBGroupAttr"}

SourceMenus == [
  SetUpCamera1 |-> SetUpCamera1, SetUpCamera2 |-> SetUpCamera2, SetMovieMenu |-> SetMovieMenu,
  SetShootingMenu |-> SetShootingMenu, SetLiveView |-> SetLiveView,
  SetCustomSettings |-> SetCustomSettings, SetSBMenu |-> SetSBMenu]

Loops == [Module |-> ModuleCommandLoop, Source |-> SourceCommandLoop, Item |-> ItemCommandLoop,
          Image |-> ImageCommandLoop, Movie |-> MovieCommandLoop,
          Thumbnail |-> ThumbnailCommandLoop]

DialogMenus == [PictureControlData |-> PictureControlDataCapability,
                SBAttrValue |-> SBAttrValueCapability, SBGroupAttrValue |-> SBGroupAttrValueCapability]

Offered ==
  [m \in DOMAIN Loops \cup DOMAIN SourceMenus \cup DOMAIN DialogMenus |->
     IF m \in DOMAIN Loops THEN Loops[m]
     ELSE IF m \in DOMAIN SourceMenus THEN SourceMenus[m] ELSE DialogMenus[m]]

(* The menus entered from a menu.  The loops of main.cpp are left and      *)
(* entered as MaidSession has it; here any of them may be the outermost.   *)
Submenus(m) ==
  CASE m = "Source" -> DOMAIN SourceMenus
    [] m \in {"SetMovieMenu", "SetShootingMenu"} -> {"PictureControlData"}
    [] m = "SetSBMenu" -> {"SBAttrValue", "SBGroupAttrValue"}
    [] OTHER -> {}

-----------------------------------------------------------------------------
VARIABLES
  menus,     \* the menus entered, the innermost last
  dialog,    \* the dialog that is running, or None
  pc,        \* its next step
  info,      \* pCapInfo: unset, live, or freed by an event procedure
  held,      \* what the dialog has allocated and opened
  waiting,   \* no; or for a command, or for the one that cancels a film
  catching,  \* is Ctrl+C caught?
  cancel,    \* g_bCancel
  lost,      \* history: what the last dialog left allocated or open
  misused,   \* history: what it used, freed or closed without holding it
  film       \* history of the last film: Ctrl+C was pressed in it, it was
             \* cancelled, Ctrl+C was already caught when it began

vars == <<menus, dialog, pc, info, held, waiting, catching, cancel, lost, misused, film>>

TypeOK ==
  /\ menus \in Seq(DOMAIN Offered)
  /\ dialog \in DOMAIN Scripts \cup {None}
  /\ dialog # None => pc \in 1 .. Len(Scripts[dialog]) + 1
  /\ info \in {"unset", "live", "freed"}
  /\ held \in SUBSET Resources
  /\ waiting \in {"no", "command", "cancel"} /\ catching \in BOOLEAN /\ cancel \in BOOLEAN
  /\ lost \in SUBSET ((DOMAIN Scripts) \X Resources)
  /\ misused \in SUBSET ((DOMAIN Scripts) \X (Resources \cup {"info"}))
  /\ film \in [asked : BOOLEAN, cancelled : BOOLEAN, caught : BOOLEAN]

Init ==
  /\ menus \in {<<l>> : l \in DOMAIN Loops}
  /\ dialog = None /\ pc = 1 /\ info = "unset" /\ held = {} /\ waiting = "no"
  /\ catching = FALSE /\ cancel = FALSE /\ lost = {} /\ misused = {}
  /\ film = [asked |-> FALSE, cancelled |-> FALSE, caught |-> FALSE]

Menu == menus[Len(menus)]

Enter(m) ==
  /\ dialog = None /\ m \in Submenus(Menu)
  /\ menus' = Append(menus, m)
  /\ UNCHANGED <<dialog, pc, info, held, waiting, catching, cancel, lost, misused, film>>

Leave ==
  /\ dialog = None /\ Len(menus) > 1
  /\ menus' = SubSeq(menus, 1, Len(menus) - 1)
  /\ UNCHANGED <<dialog, pc, info, held, waiting, catching, cancel, lost, misused, film>>

(* From a loop the user goes to that of another object. *)
Move(l) ==
  /\ dialog = None /\ Len(menus) = 1
  /\ menus' = <<l>>
  /\ UNCHANGED <<dialog, pc, info, held, waiting, catching, cancel, lost, misused, film>>

Choose(d) ==
  /\ dialog = None /\ d \in Offered[Menu]
  /\ dialog' = d /\ pc' = 1 /\ lost' = {} /\ misused' = {}
  /\ film' = IF d # "Film" THEN film
             ELSE [asked |-> FALSE, cancelled |-> FALSE, caught |-> catching]
  /\ UNCHANGED <<menus, info, held, waiting, catching, cancel>>

-----------------------------------------------------------------------------
Running == dialog # None /\ waiting = "no"
Now == Scripts[dialog][pc]
AtStep(ops) == Running /\ pc <= Len(Scripts[dialog]) /\ Now.op \in ops

(* The dialog ends; what it holds and does not free is lost. *)
Ends(frees) ==
  /\ dialog' = None /\ pc' = 1 /\ info' = "unset" /\ held' = {} /\ waiting' = "no"
  /\ lost' = {dialog} \X (held \ frees)
  /\ misused' = misused \cup ({dialog} \X (frees \ held))

(* A step uses what it names, and Show uses what pCapInfo points to. *)
Misuses ==
  {dialog} \X ({"info" : x \in {<<Now.op, info>>} \cap {<<"show", "freed">>}}
               \cup {r \in {Now.of} \ {None} : /\ r \notin held
                                            /\ Now.op \notin {"take", "try"}})

(* Mutant: a step is left out. *)
NextStep_Skipping == pc + 2

(* The next step succeeds. *)
NextStep == pc + 1

GoesOn ==
  /\ pc' = NextStep /\ dialog' = dialog /\ waiting' = "no"
  /\ lost' = lost /\ misused' = misused \cup Misuses

Succeed ==
  /\ AtStep({"find", "show", "test", "command", "take", "try", "use", "release"})
  /\ GoesOn
  /\ info' = IF Now.op = "find" THEN "live" ELSE info
  /\ held' = CASE Now.op \in {"take", "try"} -> held \cup {Now.of}
               [] Now.op = "release" -> held \ {Now.of}
               [] OTHER -> held
  /\ UNCHANGED <<menus, catching, cancel, film>>

(* malloc fails, and the dialog goes on. *)
TakeNothing ==
  /\ AtStep({"try"}) /\ GoesOn
  /\ UNCHANGED <<menus, info, held, catching, cancel, film>>

Fail ==
  /\ AtStep({"find", "test", "command", "take"})
  /\ Ends(Now.frees)
  /\ UNCHANGED <<menus, catching, cancel, film>>

(* The module does not finish the command at once: IdleLoop. *)
Wait ==
  /\ AtStep({"command", "parts"})
  /\ waiting' = IF Now.op = "parts" /\ cancel THEN "cancel" ELSE "command"
  /\ misused' = misused \cup Misuses
  /\ UNCHANGED <<menus, dialog, pc, info, held, catching, cancel, lost, film>>

(* An event procedure frees pCapArray. *)
CapChange ==
  /\ waiting # "no"
  /\ info' = IF info = "live" THEN "freed" ELSE info
  /\ UNCHANGED <<menus, dialog, pc, held, waiting, catching, cancel, lost, misused, film>>

(* A command that was waited for counts as failed, whatever came of it:    *)
(* its result was Pending.  Only a film that is being cancelled does not   *)
(* look at the result.                                                     *)
PendingFails == waiting = "command"

EndWait ==
  /\ waiting # "no"
  /\ IF PendingFails THEN Ends(Now.frees) /\ film' = film
     ELSE /\ GoesOn
          /\ film' = [film EXCEPT !.cancelled = @ \/ waiting = "cancel"]
          /\ UNCHANGED <<info, held>>
  /\ UNCHANGED <<menus, catching, cancel>>

Return ==
  /\ Running /\ pc > Len(Scripts[dialog])
  /\ Ends({})
  /\ UNCHANGED <<menus, catching, cancel, film>>

-----------------------------------------------------------------------------
(* Films. *)
CatchCtrlC ==
  /\ AtStep({"catch"}) /\ GoesOn
  /\ catching' = TRUE
  /\ UNCHANGED <<menus, info, held, cancel, film>>

(* Mutant: the flag stays as it is. *)
Cleared_Kept == cancel

(* The flag is cleared whether or not it was looked at. *)
Cleared == FALSE

UncatchCtrlC ==
  /\ AtStep({"uncatch"}) /\ GoesOn
  /\ catching' = FALSE /\ cancel' = Cleared
  /\ UNCHANGED <<menus, info, held, film>>

(* cancelhandler; when Ctrl+C is not caught it ends the program. *)
PressCtrlC ==
  /\ catching /\ cancel' = TRUE
  /\ film' = [film EXCEPT !.asked = @ \/ dialog = "Film"]
  /\ UNCHANGED <<menus, dialog, pc, info, held, waiting, catching, lost, misused>>

(* One more part, which may be the last; or a cancelled film. *)
NextPart ==
  /\ AtStep({"parts"}) /\ ~cancel
  /\ \/ GoesOn /\ held' = held
     \/ UNCHANGED <<pc, dialog, waiting, lost, held>> /\ misused' = misused \cup Misuses
  /\ UNCHANGED <<menus, info, catching, cancel, film>>

PartFails ==
  /\ AtStep({"parts"}) /\ ~cancel
  /\ Ends(Now.frees)
  /\ UNCHANGED <<menus, catching, cancel, film>>

CancelFilm ==
  /\ AtStep({"parts"}) /\ cancel
  /\ GoesOn
  /\ film' = [film EXCEPT !.cancelled = TRUE]
  /\ UNCHANGED <<menus, info, held, catching, cancel>>

Next ==
  \/ \E m \in DOMAIN Offered : Enter(m)
  \/ \E l \in DOMAIN Loops : Move(l)
  \/ \E d \in DOMAIN Scripts : Choose(d)
  \/ Leave \/ Succeed \/ TakeNothing \/ Fail \/ Wait \/ CapChange \/ EndWait \/ Return
  \/ CatchCtrlC \/ UncatchCtrlC \/ PressCtrlC \/ NextPart \/ PartFails \/ CancelFilm

Spec == Init /\ [][Next]_vars

-----------------------------------------------------------------------------
(* Whatever fails, is declined or has to be waited for, a dialog frees     *)
(* what it allocated and closes what it opened, but for three: one never   *)
(* frees, one forgets its array when a file cannot be opened, and the one  *)
(* for films forgets its buffer, or its file, on three of its ways out.    *)
EverythingIsGivenBack ==
  lost \subseteq {"ManualLens", "LiveView", "Film"} \X {"data"} \cup {<<"Film", "file">>}

(* No dialog reads pCapInfo after an event procedure freed the array, and  *)
(* none uses, frees or closes what it does not hold: but those that do not *)
(* look at what malloc returned, and the one that closes the film's file   *)
(* when it could not be opened.                                            *)
NothingIsMisused ==
  misused \subseteq {"SetPictureControl", "GetPictureControl", "WBPreset"} \X {"data"}
                  \cup {<<"Film", "file">>}

(* Each dialog accounts for its memory, its files and pCapInfo on every    *)
(* way out (Function.cpp:1983-5578), but for the seven named above.        *)
ResourcesAreAccounted == EverythingIsGivenBack /\ NothingIsMisused

(* A film is cancelled only if Ctrl+C was pressed while it was fetched,    *)
(* unless an earlier film failed, which leaves Ctrl+C caught and g_bCancel *)
(* as it is until a film succeeds.                                         *)
CancelIsAsked == film.cancelled => film.asked \/ film.caught

=============================================================================
