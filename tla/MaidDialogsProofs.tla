-------------------------- MODULE MaidDialogsProofs --------------------------
(***************************************************************************)
(* Theorems about MaidDialogs, for any depth of menus, any sequence of     *)
(* dialogs, and whatever fails, is declined, waited for or cancelled.      *)
(*                                                                         *)
(* A dialog's script says at which of its steps each resource should be    *)
(* held (its span).  That a script keeps to its span is a matter of the    *)
(* script alone; that a dialog holds what the span of its script says is a *)
(* matter of the steps of the machine, whatever the scripts.               *)
(***************************************************************************)
EXTENDS MaidDialogs, SequenceTheorems, TLAPS

-----------------------------------------------------------------------------
(* Spans: the steps before which a resource should be held.                *)

Ops == {"find", "show", "test", "command", "take", "try", "use", "release", "parts",
        "catch", "uncatch"}
Steps == [op : Ops, of : Resources \cup {None}, frees : SUBSET Resources]

MayEnd(x) == x.op \in {"find", "test", "command", "take", "parts"}

SpanOf(data, file, image) ==
  [r \in Resources |-> IF r = "data" THEN data ELSE IF r = "file" THEN file ELSE image]

Nothing == SpanOf({}, {}, {})

(* One step of a script: it takes what is not held, and gives back, uses   *)
(* or frees what is; but for what the dialog may lose, and may misuse.     *)
(* Only a film comes in parts, and it never looks a capability up.         *)
Keeps(x, i, span, mayLose, mayMisuse, never) ==
  /\ x \in Steps
  /\ x.op # never
  /\ x.of = None => x.op \notin {"take", "try", "release"}
  /\ x.op = "try" => x.of \in mayMisuse
  /\ \A r \in Resources :
       /\ i + 1 \in span[r] <=> \/ x.op \in {"take", "try"} /\ x.of = r
                                \/ ~(x.op = "release" /\ x.of = r) /\ i \in span[r]
       /\ x.of = r /\ x.op \notin {"take", "try"} => i \in span[r]
       /\ MayEnd(x) /\ i \in span[r] => r \in x.frees \cup mayLose
       /\ MayEnd(x) /\ r \in x.frees => i \in span[r] \/ r \in mayMisuse

Disciplined(s, span, mayLose, mayMisuse, never) ==
  /\ Len(s) \in Nat
  /\ \A i \in 1 .. Len(s) : Keeps(s[i], i, span, mayLose, mayMisuse, never)
  /\ \A r \in Resources : 1 \notin span[r]
  /\ \A r \in Resources : Len(s) + 1 \in span[r] => r \in mayLose

-----------------------------------------------------------------------------
(* What each script may do.                                                *)

Span(d) ==
  CASE d \in Enums -> SpanOf(8 .. 12, {}, {})
    [] d \in {"SelectSource", "SelectItem"} -> SpanOf(6 .. 8, {}, {})
    [] d = "ManualLens" -> SpanOf(6 .. 7, {}, {})
    [] d = "SetPictureControl" -> SpanOf(5 .. 9, 4 .. 8, {})
    [] d = "GetPictureControl" -> SpanOf(4 .. 8, 6 .. 7, {})
    [] d = "WBPreset" -> SpanOf(6 .. 10, 5 .. 9, {})
    [] d \in {"SBHandles", "SBAttrDesc", "SBGroupAttrDesc", "GetSBAttr", "GetSBGroupAttr"} ->
         SpanOf(6 .. 10, 8 .. 9, {})
    [] d \in {"SetSBAttr", "SetSBGroupAttr"} -> SpanOf(6 .. 10, 4 .. 9, {})
    [] d = "LiveView" -> SpanOf(6 .. 12, 8 .. 10, 9 .. 11)
    [] d = "Film" -> SpanOf(5 .. 10, 7 .. 9, {})
    [] OTHER -> Nothing

MayLose(d) ==
  CASE d \in {"ManualLens", "LiveView"} -> {"data"}
    [] d = "Film" -> {"data", "file"}
    [] OTHER -> {}

MayMisuse(d) ==
  CASE d \in {"SetPictureControl", "GetPictureControl", "WBPreset"} -> {"data"}
    [] d = "Film" -> {"file"}
    [] OTHER -> {}

Never(d) == IF d = "Film" THEN "find" ELSE "parts"

-----------------------------------------------------------------------------
(* The inductive invariants.                                               *)

(* A dialog holds what its span says; what malloc may have refused, it may *)
(* hold.                                                                   *)
HeldInv ==
  /\ dialog = None => held = {}
  /\ dialog # None => \A r \in Resources :
       /\ r \in held => pc \in Span(dialog)[r]
       /\ pc \in Span(dialog)[r] /\ r \notin MayMisuse(dialog) => r \in held

(* pCapInfo is freed only under a dialog that waits, and the only dialog   *)
(* that goes on after a wait has none.                                     *)
InfoInv ==
  /\ dialog \in {None, "Film"} => info = "unset"
  /\ info = "freed" => waiting # "no"

(* g_bCancel is set only while Ctrl+C is caught, and in a film only after  *)
(* Ctrl+C was pressed in it, or if it was caught from before.              *)
CancelInv ==
  /\ cancel => catching
  /\ waiting = "cancel" => dialog = "Film" /\ cancel
  /\ dialog = "Film" /\ cancel => film.asked \/ film.caught
  /\ CancelIsAsked

(* Only a command is waited for. *)
WaitInv ==
  waiting # "no" =>
    dialog # None /\ pc \in 1 .. Len(Scripts[dialog]) /\ Now.op \in {"command", "parts"}

DialogInv == TypeOK /\ WaitInv /\ HeldInv /\ InfoInv /\ CancelInv /\ ResourcesAreAccounted

AllDisciplined ==
  \A d \in DOMAIN Scripts : Disciplined(Scripts[d], Span(d), MayLose(d), MayMisuse(d), Never(d))

-----------------------------------------------------------------------------
(* The steps of the scripts.                                               *)

(* The steps of each script that holds something, and of those that do not.*)

ValueSteps(s) ==
  /\ Len(s) \in Nat
  /\ \A i \in 1 .. Len(s) : s[i] \in {Find, Show, Test({}), Send({})}

EnumSteps(s) ==
  /\ Len(s) = 12
  /\ s[1] = Find /\ s[2] = Test({}) /\ s[3] = Send({}) /\ s[4] = Test({}) /\ s[5] = Find
  /\ s[6] = Test({}) /\ s[7] = Allocate({}) /\ s[8] = Fill("data", {"data"})
  /\ s[9] = Show /\ s[10] = Test({"data"}) /\ s[11] = Fill("data", {"data"})
  /\ s[12] = Release("data")

SelectObjectSteps(s) ==
  /\ Len(s) = 8
  /\ s[1] = Find /\ s[2] = Test({}) /\ s[3] = Send({}) /\ s[4] = Test({})
  /\ s[5] = Allocate({}) /\ s[6] = Fill("data", {"data"}) /\ s[7] = Use("data")
  /\ s[8] = Release("data")

ManualLensSteps(s) ==
  /\ Len(s) = 6
  /\ s[1] = Find /\ s[2] = Test({}) /\ s[3] = Test({}) /\ s[4] = Send({})
  /\ s[5] = Allocate({}) /\ s[6] = Fill("data", {})

SetPictureControlSteps(s) ==
  /\ Len(s) = 9
  /\ s[1] = Find /\ s[2] = Test({}) /\ s[3] = Open("file", {}) /\ s[4] = AllocateUnchecked
  /\ s[5] = Use("data") /\ s[6] = Test(Both) /\ s[7] = Fill("data", Both)
  /\ s[8] = Release("file") /\ s[9] = Release("data")

GetPictureControlSteps(s) ==
  /\ Len(s) = 8
  /\ s[1] = Find /\ s[2] = Test({}) /\ s[3] = AllocateUnchecked
  /\ s[4] = Fill("data", {"data"}) /\ s[5] = Open("file", {"data"}) /\ s[6] = Use("data")
  /\ s[7] = Release("file") /\ s[8] = Release("data")

WBPresetSteps(s) ==
  /\ Len(s) = 10
  /\ s[1] = Test({}) /\ s[2] = Find /\ s[3] = Test({}) /\ s[4] = Open("file", {})
  /\ s[5] = AllocateUnchecked /\ s[6] = Use("data") /\ s[7] = Test(Both)
  /\ s[8] = Fill("data", Both) /\ s[9] = Release("file") /\ s[10] = Release("data")

GetSBDataSteps(s) ==
  /\ Len(s) = 10
  /\ s[1] = Test({}) /\ s[2] = Find /\ s[3] = Test({}) /\ s[4] = Send({})
  /\ s[5] = Allocate({}) /\ s[6] = Fill("data", {"data"}) /\ s[7] = Open("file", {"data"})
  /\ s[8] = Use("data") /\ s[9] = Release("file") /\ s[10] = Release("data")

SetSBDataSteps(s) ==
  /\ Len(s) = 10
  /\ s[1] = Find /\ s[2] = Test({}) /\ s[3] = Open("file", {}) /\ s[4] = Test({"file"})
  /\ s[5] = Allocate({"file"}) /\ s[6] = Use("data") /\ s[7] = Test(Both)
  /\ s[8] = Fill("data", Both) /\ s[9] = Release("file") /\ s[10] = Release("data")

LiveViewSteps(s) ==
  /\ Len(s) = 12
  /\ s[1] = Find /\ s[2] = Test({}) /\ s[3] = Send({}) /\ s[4] = Test({})
  /\ s[5] = Allocate({}) /\ s[6] = Fill("data", {"data"}) /\ s[7] = Open("file", {})
  /\ s[8] = Open("image", {"file"}) /\ s[9] = Use("data") /\ s[10] = Release("file")
  /\ s[11] = Release("image") /\ s[12] = Release("data")

FilmSteps(s) ==
  /\ Len(s) = 10
  /\ s[1] = Catch(TRUE) /\ s[2] = Send({}) /\ s[3] = Test({}) /\ s[4] = Allocate({})
  /\ s[5] = Send({}) /\ s[6] = Open("file", {"file"}) /\ s[7] = Parts("data", {"data"})
  /\ s[8] = Catch(FALSE) /\ s[9] = Release("file") /\ s[10] = Release("data")

-----------------------------------------------------------------------------
(* Such steps keep to the span of the script.                              *)

USE DialogsAssumption DEF Resources, Step, Find, Show, Test, Send, Fill, Allocate,
  AllocateUnchecked, Open, Use, Release, Parts, Catch, Both, Steps, Ops, MayEnd, SpanOf, Nothing

LEMMA ValueKeeps ==
  ASSUME NEW s, ValueSteps(s)
  PROVE  Disciplined(s, Nothing, {}, {}, "parts")
<1> DEFINE Good(x, i) == Keeps(x, i, Nothing, {}, {}, "parts")
<1>1. \A x \in {Find, Show, Test({}), Send({})}, i \in Nat : Good(x, i)
  BY DEF Keeps
<1>2. \A r \in Resources : 1 \notin Nothing[r] /\ Len(s) + 1 \notin Nothing[r]
  BY DEF ValueSteps
<1> HIDE DEF Good, Nothing, Find, Show, Test, Send
<1>3. \A i \in 1 .. Len(s) : Good(s[i], i)
  BY <1>1 DEF ValueSteps
<1> QED
  BY <1>2, <1>3 DEF Disciplined, Good, ValueSteps

LEMMA EnumKeeps ==
  ASSUME NEW s, EnumSteps(s)
  PROVE  Disciplined(s, SpanOf(8 .. 12, {}, {}), {}, {}, "parts")
<1> DEFINE span == SpanOf(8 .. 12, {}, {})
           Good(x, i) == Keeps(x, i, span, {}, {}, "parts")
<1>1. Good(s[1], 1) /\ Good(s[2], 2)
  BY DEF EnumSteps, Keeps
<1>2. Good(s[3], 3) /\ Good(s[4], 4)
  BY DEF EnumSteps, Keeps
<1>3. Good(s[5], 5) /\ Good(s[6], 6)
  BY DEF EnumSteps, Keeps
<1>4. Good(s[7], 7) /\ Good(s[8], 8)
  BY DEF EnumSteps, Keeps
<1>5. Good(s[9], 9) /\ Good(s[10], 10)
  BY DEF EnumSteps, Keeps
<1>6. Good(s[11], 11) /\ Good(s[12], 12)
  BY DEF EnumSteps, Keeps
<1>7. \A r \in Resources : 1 \notin span[r] /\ (12 + 1 \in span[r] => r \in {})
  OBVIOUS
<1>8. Len(s) = 12
  BY DEF EnumSteps
<1> HIDE DEF Good, span
<1>9. \A i \in 1 .. 12 : Good(s[i], i)
  BY <1>1, <1>2, <1>3, <1>4, <1>5, <1>6
<1> QED
  BY <1>7, <1>8, <1>9 DEF Disciplined, Good, span

LEMMA SelectObjectKeeps ==
  ASSUME NEW s, SelectObjectSteps(s)
  PROVE  Disciplined(s, SpanOf(6 .. 8, {}, {}), {}, {}, "parts")
<1> DEFINE span == SpanOf(6 .. 8, {}, {})
           Good(x, i) == Keeps(x, i, span, {}, {}, "parts")
<1>1. Good(s[1], 1) /\ Good(s[2], 2)
  BY DEF SelectObjectSteps, Keeps
<1>2. Good(s[3], 3) /\ Good(s[4], 4)
  BY DEF SelectObjectSteps, Keeps
<1>3. Good(s[5], 5) /\ Good(s[6], 6)
  BY DEF SelectObjectSteps, Keeps
<1>4. Good(s[7], 7) /\ Good(s[8], 8)
  BY DEF SelectObjectSteps, Keeps
<1>5. \A r \in Resources : 1 \notin span[r] /\ (8 + 1 \in span[r] => r \in {})
  OBVIOUS
<1>6. Len(s) = 8
  BY DEF SelectObjectSteps
<1> HIDE DEF Good, span
<1>7. \A i \in 1 .. 8 : Good(s[i], i)
  BY <1>1, <1>2, <1>3, <1>4
<1> QED
  BY <1>5, <1>6, <1>7 DEF Disciplined, Good, span

LEMMA ManualLensKeeps ==
  ASSUME NEW s, ManualLensSteps(s)
  PROVE  Disciplined(s, SpanOf(6 .. 7, {}, {}), {"data"}, {}, "parts")
<1> DEFINE span == SpanOf(6 .. 7, {}, {})
           Good(x, i) == Keeps(x, i, span, {"data"}, {}, "parts")
<1>1. Good(s[1], 1) /\ Good(s[2], 2)
  BY DEF ManualLensSteps, Keeps
<1>2. Good(s[3], 3) /\ Good(s[4], 4)
  BY DEF ManualLensSteps, Keeps
<1>3. Good(s[5], 5) /\ Good(s[6], 6)
  BY DEF ManualLensSteps, Keeps
<1>4. \A r \in Resources : 1 \notin span[r] /\ (6 + 1 \in span[r] => r \in {"data"})
  OBVIOUS
<1>5. Len(s) = 6
  BY DEF ManualLensSteps
<1> HIDE DEF Good, span
<1>6. \A i \in 1 .. 6 : Good(s[i], i)
  BY <1>1, <1>2, <1>3
<1> QED
  BY <1>4, <1>5, <1>6 DEF Disciplined, Good, span

LEMMA SetPictureControlKeeps ==
  ASSUME NEW s, SetPictureControlSteps(s)
  PROVE  Disciplined(s, SpanOf(5 .. 9, 4 .. 8, {}), {}, {"data"}, "parts")
<1> DEFINE span == SpanOf(5 .. 9, 4 .. 8, {})
           Good(x, i) == Keeps(x, i, span, {}, {"data"}, "parts")
<1>1. Good(s[1], 1) /\ Good(s[2], 2)
  BY DEF SetPictureControlSteps, Keeps
<1>2. Good(s[3], 3) /\ Good(s[4], 4)
  BY DEF SetPictureControlSteps, Keeps
<1>3. Good(s[5], 5) /\ Good(s[6], 6)
  BY DEF SetPictureControlSteps, Keeps
<1>4. Good(s[7], 7) /\ Good(s[8], 8)
  BY DEF SetPictureControlSteps, Keeps
<1>5. Good(s[9], 9)
  BY DEF SetPictureControlSteps, Keeps
<1>6. \A r \in Resources : 1 \notin span[r] /\ (9 + 1 \in span[r] => r \in {})
  OBVIOUS
<1>7. Len(s) = 9
  BY DEF SetPictureControlSteps
<1> HIDE DEF Good, span
<1>8. \A i \in 1 .. 9 : Good(s[i], i)
  BY <1>1, <1>2, <1>3, <1>4, <1>5
<1> QED
  BY <1>6, <1>7, <1>8 DEF Disciplined, Good, span

LEMMA GetPictureControlKeeps ==
  ASSUME NEW s, GetPictureControlSteps(s)
  PROVE  Disciplined(s, SpanOf(4 .. 8, 6 .. 7, {}), {}, {"data"}, "parts")
<1> DEFINE span == SpanOf(4 .. 8, 6 .. 7, {})
           Good(x, i) == Keeps(x, i, span, {}, {"data"}, "parts")
<1>1. Good(s[1], 1) /\ Good(s[2], 2)
  BY DEF GetPictureControlSteps, Keeps
<1>2. Good(s[3], 3) /\ Good(s[4], 4)
  BY DEF GetPictureControlSteps, Keeps
<1>3. Good(s[5], 5) /\ Good(s[6], 6)
  BY DEF GetPictureControlSteps, Keeps
<1>4. Good(s[7], 7) /\ Good(s[8], 8)
  BY DEF GetPictureControlSteps, Keeps
<1>5. \A r \in Resources : 1 \notin span[r] /\ (8 + 1 \in span[r] => r \in {})
  OBVIOUS
<1>6. Len(s) = 8
  BY DEF GetPictureControlSteps
<1> HIDE DEF Good, span
<1>7. \A i \in 1 .. 8 : Good(s[i], i)
  BY <1>1, <1>2, <1>3, <1>4
<1> QED
  BY <1>5, <1>6, <1>7 DEF Disciplined, Good, span

LEMMA WBPresetKeeps ==
  ASSUME NEW s, WBPresetSteps(s)
  PROVE  Disciplined(s, SpanOf(6 .. 10, 5 .. 9, {}), {}, {"data"}, "parts")
<1> DEFINE span == SpanOf(6 .. 10, 5 .. 9, {})
           Good(x, i) == Keeps(x, i, span, {}, {"data"}, "parts")
<1>1. Good(s[1], 1) /\ Good(s[2], 2)
  BY DEF WBPresetSteps, Keeps
<1>2. Good(s[3], 3) /\ Good(s[4], 4)
  BY DEF WBPresetSteps, Keeps
<1>3. Good(s[5], 5) /\ Good(s[6], 6)
  BY DEF WBPresetSteps, Keeps
<1>4. Good(s[7], 7) /\ Good(s[8], 8)
  BY DEF WBPresetSteps, Keeps
<1>5. Good(s[9], 9) /\ Good(s[10], 10)
  BY DEF WBPresetSteps, Keeps
<1>6. \A r \in Resources : 1 \notin span[r] /\ (10 + 1 \in span[r] => r \in {})
  OBVIOUS
<1>7. Len(s) = 10
  BY DEF WBPresetSteps
<1> HIDE DEF Good, span
<1>8. \A i \in 1 .. 10 : Good(s[i], i)
  BY <1>1, <1>2, <1>3, <1>4, <1>5
<1> QED
  BY <1>6, <1>7, <1>8 DEF Disciplined, Good, span

LEMMA GetSBDataKeeps ==
  ASSUME NEW s, GetSBDataSteps(s)
  PROVE  Disciplined(s, SpanOf(6 .. 10, 8 .. 9, {}), {}, {}, "parts")
<1> DEFINE span == SpanOf(6 .. 10, 8 .. 9, {})
           Good(x, i) == Keeps(x, i, span, {}, {}, "parts")
<1>1. Good(s[1], 1) /\ Good(s[2], 2)
  BY DEF GetSBDataSteps, Keeps
<1>2. Good(s[3], 3) /\ Good(s[4], 4)
  BY DEF GetSBDataSteps, Keeps
<1>3. Good(s[5], 5) /\ Good(s[6], 6)
  BY DEF GetSBDataSteps, Keeps
<1>4. Good(s[7], 7) /\ Good(s[8], 8)
  BY DEF GetSBDataSteps, Keeps
<1>5. Good(s[9], 9) /\ Good(s[10], 10)
  BY DEF GetSBDataSteps, Keeps
<1>6. \A r \in Resources : 1 \notin span[r] /\ (10 + 1 \in span[r] => r \in {})
  OBVIOUS
<1>7. Len(s) = 10
  BY DEF GetSBDataSteps
<1> HIDE DEF Good, span
<1>8. \A i \in 1 .. 10 : Good(s[i], i)
  BY <1>1, <1>2, <1>3, <1>4, <1>5
<1> QED
  BY <1>6, <1>7, <1>8 DEF Disciplined, Good, span

LEMMA SetSBDataKeeps ==
  ASSUME NEW s, SetSBDataSteps(s)
  PROVE  Disciplined(s, SpanOf(6 .. 10, 4 .. 9, {}), {}, {}, "parts")
<1> DEFINE span == SpanOf(6 .. 10, 4 .. 9, {})
           Good(x, i) == Keeps(x, i, span, {}, {}, "parts")
<1>1. Good(s[1], 1) /\ Good(s[2], 2)
  BY DEF SetSBDataSteps, Keeps
<1>2. Good(s[3], 3) /\ Good(s[4], 4)
  BY DEF SetSBDataSteps, Keeps
<1>3. Good(s[5], 5) /\ Good(s[6], 6)
  BY DEF SetSBDataSteps, Keeps
<1>4. Good(s[7], 7) /\ Good(s[8], 8)
  BY DEF SetSBDataSteps, Keeps
<1>5. Good(s[9], 9) /\ Good(s[10], 10)
  BY DEF SetSBDataSteps, Keeps
<1>6. \A r \in Resources : 1 \notin span[r] /\ (10 + 1 \in span[r] => r \in {})
  OBVIOUS
<1>7. Len(s) = 10
  BY DEF SetSBDataSteps
<1> HIDE DEF Good, span
<1>8. \A i \in 1 .. 10 : Good(s[i], i)
  BY <1>1, <1>2, <1>3, <1>4, <1>5
<1> QED
  BY <1>6, <1>7, <1>8 DEF Disciplined, Good, span

LEMMA LiveViewKeeps ==
  ASSUME NEW s, LiveViewSteps(s)
  PROVE  Disciplined(s, SpanOf(6 .. 12, 8 .. 10, 9 .. 11), {"data"}, {}, "parts")
<1> DEFINE span == SpanOf(6 .. 12, 8 .. 10, 9 .. 11)
           Good(x, i) == Keeps(x, i, span, {"data"}, {}, "parts")
<1>1. Good(s[1], 1) /\ Good(s[2], 2)
  BY DEF LiveViewSteps, Keeps
<1>2. Good(s[3], 3) /\ Good(s[4], 4)
  BY DEF LiveViewSteps, Keeps
<1>3. Good(s[5], 5) /\ Good(s[6], 6)
  BY DEF LiveViewSteps, Keeps
<1>4. Good(s[7], 7) /\ Good(s[8], 8)
  BY DEF LiveViewSteps, Keeps
<1>5. Good(s[9], 9) /\ Good(s[10], 10)
  BY DEF LiveViewSteps, Keeps
<1>6. Good(s[11], 11) /\ Good(s[12], 12)
  BY DEF LiveViewSteps, Keeps
<1>7. \A r \in Resources : 1 \notin span[r] /\ (12 + 1 \in span[r] => r \in {"data"})
  OBVIOUS
<1>8. Len(s) = 12
  BY DEF LiveViewSteps
<1> HIDE DEF Good, span
<1>9. \A i \in 1 .. 12 : Good(s[i], i)
  BY <1>1, <1>2, <1>3, <1>4, <1>5, <1>6
<1> QED
  BY <1>7, <1>8, <1>9 DEF Disciplined, Good, span

LEMMA FilmKeeps ==
  ASSUME NEW s, FilmSteps(s)
  PROVE  Disciplined(s, SpanOf(5 .. 10, 7 .. 9, {}), Both, {"file"}, "find")
<1> DEFINE span == SpanOf(5 .. 10, 7 .. 9, {})
           Good(x, i) == Keeps(x, i, span, Both, {"file"}, "find")
<1>1. Good(s[1], 1) /\ Good(s[2], 2)
  BY DEF FilmSteps, Keeps
<1>2. Good(s[3], 3) /\ Good(s[4], 4)
  BY DEF FilmSteps, Keeps
<1>3. Good(s[5], 5) /\ Good(s[6], 6)
  BY DEF FilmSteps, Keeps
<1>4. Good(s[7], 7) /\ Good(s[8], 8)
  BY DEF FilmSteps, Keeps
<1>5. Good(s[9], 9) /\ Good(s[10], 10)
  BY DEF FilmSteps, Keeps
<1>6. \A r \in Resources : 1 \notin span[r] /\ (10 + 1 \in span[r] => r \in Both)
  OBVIOUS
<1>7. Len(s) = 10
  BY DEF FilmSteps
<1> HIDE DEF Good, span
<1>8. \A i \in 1 .. 10 : Good(s[i], i)
  BY <1>1, <1>2, <1>3, <1>4, <1>5
<1> QED
  BY <1>6, <1>7, <1>8 DEF Disciplined, Good, span

HIDE DialogsAssumption DEF Resources, Step, Find, Show, Test, Send, Fill, Allocate,
  AllocateUnchecked, Open, Use, Release, Parts, Catch, Both, Steps, Ops, MayEnd, SpanOf, Nothing

-----------------------------------------------------------------------------
(* Every script keeps to its span.                                         *)

LEMMA ValuesAreDisciplined ==
  \A s \in {Read, SetValue, SetTrackingAFAreaCapability, DeleteCustomPictureControlCapability,
            TestFlashCapability} : Disciplined(s, Nothing, {}, {}, "parts")
<1>1. ValueSteps(Read) /\ ValueSteps(SetValue)
  BY DEF ValueSteps, SetValue, Read
<1>2. ValueSteps(SetTrackingAFAreaCapability)
  BY DEF ValueSteps, SetTrackingAFAreaCapability
<1>3. ValueSteps(DeleteCustomPictureControlCapability)
  BY DEF ValueSteps, DeleteCustomPictureControlCapability
<1>4. ValueSteps(TestFlashCapability)
  BY DEF ValueSteps, TestFlashCapability
<1> QED
  BY <1>1, <1>2, <1>3, <1>4, ValueKeeps

LEMMA EnumIsDisciplined ==
  \A k \in {"Unsigned", "PackedString", "String"} :
    Disciplined(SetEnumCapability(k), SpanOf(8 .. 12, {}, {}), {}, {}, "parts")
<1>1. EnumSteps(Read \o <<Test({})>> \o ChooseElement)
  BY DEF EnumSteps, Read, ChooseElement, FreedOnFailure
<1>2. Disciplined(Read \o <<Test({})>> \o ChooseElement, SpanOf(8 .. 12, {}, {}), {}, {}, "parts")
  BY <1>1, EnumKeeps
<1> QED
  BY <1>2 DEF SetEnumCapability, SetEnumUnsignedCapability, SetEnumPackedStringCapability,
              SetEnumStringCapability

LEMMA SelectObjectIsDisciplined ==
  Disciplined(SelectObject, SpanOf(6 .. 8, {}, {}), {}, {}, "parts")
<1>1. SelectObjectSteps(SelectObject)
  BY DEF SelectObjectSteps, SelectObject, Read
<1> QED
  BY <1>1, SelectObjectKeeps

LEMMA ManualLensIsDisciplined ==
  Disciplined(GetManualSettingLensDataCapability, SpanOf(6 .. 7, {}, {}), {"data"}, {}, "parts")
<1>1. ManualLensSteps(GetManualSettingLensDataCapability)
  BY DEF ManualLensSteps, GetManualSettingLensDataCapability
<1> QED
  BY <1>1, ManualLensKeeps

LEMMA SetPictureControlIsDisciplined ==
  Disciplined(SetPictureControlDataCapability, SpanOf(5 .. 9, 4 .. 8, {}), {}, {"data"}, "parts")
<1>1. SetPictureControlSteps(SetPictureControlDataCapability)
  BY DEF SetPictureControlSteps, SetPictureControlDataCapability, Load
<1> QED
  BY <1>1, SetPictureControlKeeps

LEMMA GetPictureControlIsDisciplined ==
  Disciplined(GetPictureControlDataCapability, SpanOf(4 .. 8, 6 .. 7, {}), {}, {"data"}, "parts")
<1>1. GetPictureControlSteps(GetPictureControlDataCapability)
  BY DEF GetPictureControlSteps, GetPictureControlDataCapability, Save
<1> QED
  BY <1>1, GetPictureControlKeeps

LEMMA WBPresetIsDisciplined ==
  Disciplined(SetWBPresetDataCapability, SpanOf(6 .. 10, 5 .. 9, {}), {}, {"data"}, "parts")
<1>1. WBPresetSteps(SetWBPresetDataCapability)
  BY DEF WBPresetSteps, SetWBPresetDataCapability, Load
<1> QED
  BY <1>1, WBPresetKeeps

LEMMA GetSBDataIsDisciplined ==
  Disciplined(GetSBData, SpanOf(6 .. 10, 8 .. 9, {}), {}, {}, "parts")
<1>1. GetSBDataSteps(GetSBData)
  BY DEF GetSBDataSteps, GetSBData, Save
<1> QED
  BY <1>1, GetSBDataKeeps

LEMMA SetSBDataIsDisciplined ==
  Disciplined(SetSBData, SpanOf(6 .. 10, 4 .. 9, {}), {}, {}, "parts")
<1>1. SetSBDataSteps(SetSBData)
  BY DEF SetSBDataSteps, SetSBData, Load
<1> QED
  BY <1>1, SetSBDataKeeps

LEMMA LiveViewIsDisciplined ==
  Disciplined(GetLiveViewImageCapability, SpanOf(6 .. 12, 8 .. 10, 9 .. 11), {"data"}, {}, "parts")
<1>1. LiveViewSteps(GetLiveViewImageCapability)
  BY DEF LiveViewSteps, GetLiveViewImageCapability, GetArrayCapability, Read
<1> QED
  BY <1>1, LiveViewKeeps

LEMMA FilmIsDisciplined ==
  Disciplined(GetVideoImageExCapability, SpanOf(5 .. 10, 7 .. 9, {}), Both, {"file"}, "find")
<1>1. FilmSteps(GetVideoImageExCapability)
  BY DEF FilmSteps, GetVideoImageExCapability
<1> QED
  BY <1>1, FilmKeeps

LEMMA EveryScriptIsDisciplined == AllDisciplined
<1> SUFFICES ASSUME NEW d \in DOMAIN Scripts
             PROVE  Disciplined(Scripts[d], Span(d), MayLose(d), MayMisuse(d), Never(d))
  BY DEF AllDisciplined
<1> DEFINE Script == Scripts[d]
           Plain == {"SelectData", "CheckDataType", "Integer", "Unsigned", "Float", "String", "Size",
             "DateTime", "Bool", "Range", "TimeCodeOrigin", "GetUnsigned", "RecordingInfo",
             "TrackingAFArea", "DeleteCustom", "TestFlash"}
           GetsSBData == {"SBHandles", "SBAttrDesc", "SBGroupAttrDesc", "GetSBAttr",
                          "GetSBGroupAttr"}
<1>1. \/ d \in Plain \cup Enums \cup GetsSBData
      \/ d \in {"SelectSource", "SelectItem", "ManualLens", "SetPictureControl",
               "GetPictureControl", "WBPreset", "SetSBAttr", "SetSBGroupAttr", "LiveView", "Film"}
  BY DEF Scripts, Enums
<1>2. CASE d \in Plain
  <2>1. Script \in {Read, SetValue, SetTrackingAFAreaCapability,
                   DeleteCustomPictureControlCapability, TestFlashCapability}
    BY <1>2 DEF Scripts, SelectData, CheckDataType, SetIntegerCapability, SetUnsignedCapability,
      SetFloatCapability, SetStringCapability, SetSizeCapability, SetDateTimeCapability,
      SetBoolCapability, SetRangeCapability, TimeCodeOriginCapability, GetUnsignedCapability,
      GetRecordingInfoCapability
  <2>2. Span(d) = Nothing /\ MayLose(d) = {} /\ MayMisuse(d) = {} /\ Never(d) = "parts"
    BY <1>2 DEF Span, MayLose, MayMisuse, Never, Enums
  <2> QED
    BY <2>1, <2>2, ValuesAreDisciplined
<1>3. CASE d \in Enums
  <2>1. \E k \in {"Unsigned", "PackedString", "String"} : Script = SetEnumCapability(k)
    BY <1>3 DEF Scripts, Enums
  <2>2. Span(d) = SpanOf(8 .. 12, {}, {}) /\ MayLose(d) = {} /\ MayMisuse(d) = {} /\ Never(d) = "parts"
    BY <1>3 DEF Span, MayLose, MayMisuse, Never, Enums
  <2> QED
    BY <2>1, <2>2, EnumIsDisciplined
<1>4. CASE d \in GetsSBData
  <2>1. Script = GetSBData
    BY <1>4 DEF Scripts, GetSBHandlesCapability, GetSBAttrDescCapability,
      GetSBGroupAttrDescCapability, GetSBAttrValueCapability, GetSBGroupAttrValueCapability
  <2>2. Span(d) = SpanOf(6 .. 10, 8 .. 9, {}) /\ MayLose(d) = {} /\ MayMisuse(d) = {} /\ Never(d) = "parts"
    BY <1>4 DEF Span, MayLose, MayMisuse, Never, Enums
  <2> QED
    BY <2>1, <2>2, GetSBDataIsDisciplined
<1>5. CASE d \in {"SelectSource", "SelectItem"}
  <2>1. Script = SelectObject
    BY <1>5 DEF Scripts, SelectSource, SelectItem
  <2>2. Span(d) = SpanOf(6 .. 8, {}, {}) /\ MayLose(d) = {} /\ MayMisuse(d) = {} /\ Never(d) = "parts"
    BY <1>5 DEF Span, MayLose, MayMisuse, Never, Enums
  <2> QED
    BY <2>1, <2>2, SelectObjectIsDisciplined
<1>6. CASE d \in {"SetSBAttr", "SetSBGroupAttr"}
  <2>1. Script = SetSBData
    BY <1>6 DEF Scripts, SetSBAttrValueCapability, SetSBGroupAttrValueCapability
  <2>2. Span(d) = SpanOf(6 .. 10, 4 .. 9, {}) /\ MayLose(d) = {} /\ MayMisuse(d) = {} /\ Never(d) = "parts"
    BY <1>6 DEF Span, MayLose, MayMisuse, Never, Enums
  <2> QED
    BY <2>1, <2>2, SetSBDataIsDisciplined
<1>7. CASE d = "ManualLens"
  BY <1>7, ManualLensIsDisciplined DEF Scripts, Span, MayLose, MayMisuse, Never, Enums
<1>8. CASE d = "SetPictureControl"
  BY <1>8, SetPictureControlIsDisciplined DEF Scripts, Span, MayLose, MayMisuse, Never, Enums
<1>9. CASE d = "GetPictureControl"
  BY <1>9, GetPictureControlIsDisciplined DEF Scripts, Span, MayLose, MayMisuse, Never, Enums
<1>10. CASE d = "WBPreset"
  BY <1>10, WBPresetIsDisciplined DEF Scripts, Span, MayLose, MayMisuse, Never, Enums
<1>11. CASE d = "LiveView"
  BY <1>11, LiveViewIsDisciplined DEF Scripts, Span, MayLose, MayMisuse, Never, Enums
<1>12. CASE d = "Film"
  BY <1>12, FilmIsDisciplined DEF Scripts, Span, MayLose, MayMisuse, Never, Enums, Both
<1> QED
  BY <1>1, <1>2, <1>3, <1>4, <1>5, <1>6, <1>7, <1>8, <1>9, <1>10, <1>11, <1>12

-----------------------------------------------------------------------------
(* The step a dialog is at.                                                *)

LEMMA NowKeeps ==
  ASSUME TypeOK, dialog # None, pc <= Len(Scripts[dialog])
  PROVE  /\ dialog \in DOMAIN Scripts
         /\ pc \in 1 .. Len(Scripts[dialog]) /\ Len(Scripts[dialog]) \in Nat
         /\ Keeps(Now, pc, Span(dialog), MayLose(dialog), MayMisuse(dialog), Never(dialog))
<1>1. dialog \in DOMAIN Scripts /\ pc \in 1 .. Len(Scripts[dialog]) + 1
  BY DEF TypeOK
<1>2. Disciplined(Scripts[dialog], Span(dialog), MayLose(dialog), MayMisuse(dialog), Never(dialog))
  BY <1>1, EveryScriptIsDisciplined DEF AllDisciplined
<1> QED
  BY <1>1, <1>2 DEF Disciplined, Now

(* What may be lost and misused is what the three named dialogs may lose,  *)
(* and the four may misuse.                                                *)
LEMMA MayBeAccounted ==
  ASSUME NEW d \in DOMAIN Scripts, NEW r \in Resources
  PROVE  /\ r \in MayLose(d) =>
              <<d, r>> \in {"ManualLens", "LiveView", "Film"} \X {"data"} \cup {<<"Film", "file">>}
         /\ r \in MayMisuse(d) =>
              <<d, r>> \in {"SetPictureControl", "GetPictureControl", "WBPreset"} \X {"data"}
                             \cup {<<"Film", "file">>}
BY DEF MayLose, MayMisuse

(* A dialog that ends frees what it holds, but for what it may lose.       *)
LEMMA EndsAccounted ==
  ASSUME DialogInv, dialog # None, NEW frees \in SUBSET Resources, Ends(frees),
         \A r \in Resources : /\ r \in held \ frees => r \in MayLose(dialog)
                              /\ r \in frees \ held => r \in MayMisuse(dialog)
  PROVE  /\ ResourcesAreAccounted' /\ HeldInv' /\ InfoInv' /\ WaitInv'
         /\ lost' \in SUBSET ((DOMAIN Scripts) \X Resources)
         /\ misused' \in SUBSET ((DOMAIN Scripts) \X (Resources \cup {"info"}))
<1>1. dialog \in DOMAIN Scripts /\ held \in SUBSET Resources
  BY DEF DialogInv, TypeOK
<1>2. lost' = {dialog} \X (held \ frees) /\ misused' = misused \cup ({dialog} \X (frees \ held))
  BY DEF Ends
<1>3. EverythingIsGivenBack'
  <2>1. \A r \in held \ frees : r \in Resources /\ r \in MayLose(dialog)
    BY <1>1
  <2>2. \A r \in held \ frees :
          <<dialog, r>> \in {"ManualLens", "LiveView", "Film"} \X {"data"} \cup {<<"Film", "file">>}
    BY <1>1, <2>1, MayBeAccounted
  <2> QED
    BY <1>2, <2>2 DEF EverythingIsGivenBack
<1>4. NothingIsMisused'
  BY <1>1, <1>2, MayBeAccounted
  DEF NothingIsMisused, DialogInv, ResourcesAreAccounted
<1>5. HeldInv' /\ InfoInv' /\ WaitInv'
  BY DEF Ends, HeldInv, InfoInv, WaitInv
<1>6. /\ lost' \in SUBSET ((DOMAIN Scripts) \X Resources)
      /\ misused' \in SUBSET ((DOMAIN Scripts) \X (Resources \cup {"info"}))
  BY <1>1, <1>2 DEF DialogInv, TypeOK
<1> QED
  BY <1>3, <1>4, <1>5, <1>6 DEF ResourcesAreAccounted

(* A step at which a dialog may end frees what the dialog holds.           *)
LEMMA StepFrees ==
  ASSUME DialogInv, dialog # None, pc <= Len(Scripts[dialog]), MayEnd(Now)
  PROVE  /\ Now.frees \in SUBSET Resources
         /\ \A r \in Resources : /\ r \in held \ Now.frees => r \in MayLose(dialog)
                                 /\ r \in Now.frees \ held => r \in MayMisuse(dialog)
BY NowKeeps DEF DialogInv, HeldInv, Keeps, Steps

(* A step misuses nothing that the dialog may not misuse.                  *)
LEMMA StepMisuses ==
  ASSUME DialogInv, dialog # None, pc <= Len(Scripts[dialog]),
         waiting = "no" \/ Now.op # "show"
  PROVE  Misuses \subseteq {dialog} \X (MayMisuse(dialog) \cap Resources)
<1>1. <<Now.op, info>> # <<"show", "freed">>
  BY DEF DialogInv, InfoInv
<1>2. ASSUME Now.of # None, Now.of \notin held, Now.op \notin {"take", "try"}
      PROVE  Now.of \in MayMisuse(dialog) \cap Resources
  BY <1>2, NowKeeps DEF DialogInv, HeldInv, Keeps, Steps
<1> QED
  BY <1>1, <1>2 DEF Misuses

(* A dialog that goes on holds what the span of its next step says.        *)
LEMMA GoesOnAccounted ==
  ASSUME DialogInv, dialog # None, pc <= Len(Scripts[dialog]), GoesOn,
         waiting = "no" \/ Now.op # "show", info' # "freed",
         dialog = "Film" => info' = "unset", held' \in SUBSET Resources,
         \/ Now.op = "try" /\ held' = held
         \/ \A r \in Resources : r \in held' <=>
              \/ Now.op \in {"take", "try"} /\ Now.of = r
              \/ ~(Now.op = "release" /\ Now.of = r) /\ r \in held
  PROVE  /\ ResourcesAreAccounted' /\ HeldInv' /\ InfoInv' /\ WaitInv'
         /\ pc' \in 1 .. Len(Scripts[dialog]) + 1
         /\ lost' \in SUBSET ((DOMAIN Scripts) \X Resources)
         /\ misused' \in SUBSET ((DOMAIN Scripts) \X (Resources \cup {"info"}))
<1>1. /\ dialog \in DOMAIN Scripts /\ pc \in 1 .. Len(Scripts[dialog])
      /\ Len(Scripts[dialog]) \in Nat
  BY NowKeeps DEF DialogInv
<1>2. /\ pc' = pc + 1 /\ dialog' = dialog /\ waiting' = "no"
      /\ lost' = lost /\ misused' = misused \cup Misuses
  BY DEF GoesOn, NextStep
<1>3. Misuses \subseteq {dialog} \X (MayMisuse(dialog) \cap Resources)
  BY StepMisuses
<1>4. ResourcesAreAccounted'
  <2>1. NothingIsMisused'
    BY <1>1, <1>2, <1>3, MayBeAccounted DEF DialogInv, ResourcesAreAccounted, NothingIsMisused
  <2> QED
    BY <1>2, <2>1 DEF DialogInv, ResourcesAreAccounted, EverythingIsGivenBack
<1>5. HeldInv'
  <2> SUFFICES ASSUME NEW r \in Resources
               PROVE  /\ r \in held' => pc + 1 \in Span(dialog)[r]
                      /\ pc + 1 \in Span(dialog)[r] /\ r \notin MayMisuse(dialog) => r \in held'
    BY <1>2 DEF HeldInv
  <2>1. /\ r \in held => pc \in Span(dialog)[r]
        /\ pc \in Span(dialog)[r] /\ r \notin MayMisuse(dialog) => r \in held
    BY DEF DialogInv, HeldInv
  <2>2. pc + 1 \in Span(dialog)[r] <=>
          \/ Now.op \in {"take", "try"} /\ Now.of = r
          \/ ~(Now.op = "release" /\ Now.of = r) /\ pc \in Span(dialog)[r]
    BY NowKeeps DEF Keeps, DialogInv
  <2>3. Now.op = "try" => Now.of \in MayMisuse(dialog)
    BY NowKeeps DEF Keeps, DialogInv
  <2> QED
    BY <2>1, <2>2, <2>3
<1>6. InfoInv' /\ WaitInv'
  BY <1>1, <1>2, DialogsAssumption DEF InfoInv, WaitInv
<1>7. /\ lost' \in SUBSET ((DOMAIN Scripts) \X Resources)
      /\ misused' \in SUBSET ((DOMAIN Scripts) \X (Resources \cup {"info"}))
  BY <1>1, <1>2, <1>3 DEF DialogInv, TypeOK
<1> QED
  BY <1>1, <1>2, <1>4, <1>5, <1>6, <1>7

-----------------------------------------------------------------------------
(* The steps of the menus, the dialogs and the module.                     *)

Books == TypeOK /\ WaitInv /\ HeldInv /\ InfoInv /\ ResourcesAreAccounted

LEMMA LoopsAreOffered == DOMAIN Loops \subseteq DOMAIN Offered
BY DEF Offered

LEMMA BooksInitially == Init => Books
<1> SUFFICES ASSUME Init PROVE Books
  OBVIOUS
<1>1. menus \in Seq(DOMAIN Offered)
  <2>1. PICK l \in DOMAIN Loops : menus = <<l>>
    BY DEF Init
  <2>2. l \in DOMAIN Offered
    BY LoopsAreOffered
  <2> QED
    BY <2>1, <2>2
<1>2. TypeOK /\ WaitInv /\ HeldInv /\ InfoInv
  BY <1>1 DEF Init, TypeOK, WaitInv, HeldInv, InfoInv
<1> QED
  BY <1>2 DEF Books, Init, ResourcesAreAccounted, EverythingIsGivenBack, NothingIsMisused

LEMMA MenuSteps ==
  ASSUME DialogInv,
         \/ \E m \in DOMAIN Offered : Enter(m)
         \/ \E l \in DOMAIN Loops : Move(l)
         \/ Leave
  PROVE  Books'
<1>1. /\ dialog = None
      /\ UNCHANGED <<dialog, pc, info, held, waiting, catching, cancel, lost, misused, film>>
  BY DEF Enter, Move, Leave
<1>2. menus' \in Seq(DOMAIN Offered)
  <2>1. CASE \E m \in DOMAIN Offered : Enter(m)
    BY <2>1 DEF Enter, DialogInv, TypeOK
  <2>2. CASE \E l \in DOMAIN Loops : Move(l)
    BY <2>2, LoopsAreOffered DEF Move
  <2>3. CASE Leave
    <3>1. /\ menus \in Seq(DOMAIN Offered) /\ Len(menus) > 1 /\ Len(menus) \in Nat
          /\ menus' = SubSeq(menus, 1, Len(menus) - 1)
      BY <2>3 DEF Leave, DialogInv, TypeOK
    <3>2. \A i \in 1 .. Len(menus) - 1 : menus[i] \in DOMAIN Offered
      BY <3>1
    <3> QED
      BY <3>1, <3>2, SubSeqProperties
  <2> QED
    BY <2>1, <2>2, <2>3
<1> QED
  BY <1>1, <1>2
  DEF Books, DialogInv, TypeOK, WaitInv, HeldInv, InfoInv, ResourcesAreAccounted,
      EverythingIsGivenBack, NothingIsMisused

LEMMA ChooseStep ==
  ASSUME DialogInv, NEW d \in DOMAIN Scripts, Choose(d)
  PROVE  Books'
<1>1. Len(Scripts[d]) \in Nat /\ \A r \in Resources : 1 \notin Span(d)[r]
  BY EveryScriptIsDisciplined DEF AllDisciplined, Disciplined
<1>2. /\ dialog = None /\ dialog' = d /\ pc' = 1 /\ lost' = {} /\ misused' = {}
      /\ UNCHANGED <<menus, info, held, waiting, catching, cancel>>
  BY DEF Choose
<1>3. info = "unset" /\ held = {} /\ waiting = "no"
  BY <1>2 DEF DialogInv, HeldInv, InfoInv, WaitInv, TypeOK
<1>4. film' \in [asked : BOOLEAN, cancelled : BOOLEAN, caught : BOOLEAN]
  BY DEF Choose, DialogInv, TypeOK
<1>5. TypeOK'
  BY <1>1, <1>2, <1>4 DEF DialogInv, TypeOK
<1>6. WaitInv' /\ HeldInv' /\ InfoInv'
  BY <1>1, <1>2, <1>3 DEF WaitInv, HeldInv, InfoInv
<1>7. ResourcesAreAccounted'
  BY <1>2 DEF ResourcesAreAccounted, EverythingIsGivenBack, NothingIsMisused
<1> QED
  BY <1>5, <1>6, <1>7 DEF Books

(* The steps of a dialog itself. *)
LEMMA GoesOnSteps ==
  ASSUME DialogInv, Succeed \/ TakeNothing \/ CatchCtrlC \/ UncatchCtrlC \/ CancelFilm
  PROVE  Books'
<1>1. dialog # None /\ waiting = "no" /\ pc <= Len(Scripts[dialog]) /\ GoesOn
  BY DEF Succeed, TakeNothing, CatchCtrlC, UncatchCtrlC, CancelFilm, AtStep, Running
<1>2. /\ dialog \in DOMAIN Scripts /\ Now \in Steps
      /\ Now.op = "find" => dialog # "Film"
      /\ Now.op \in {"take", "try", "release"} => Now.of \in Resources
  BY <1>1, NowKeeps DEF DialogInv, Keeps, Steps, Never
<1>3. held' \in SUBSET Resources
  BY <1>2 DEF Succeed, TakeNothing, CatchCtrlC, UncatchCtrlC, CancelFilm, DialogInv, TypeOK
<1>4. \/ Now.op = "try" /\ held' = held
      \/ \A r \in Resources : r \in held' <=>
           \/ Now.op \in {"take", "try"} /\ Now.of = r
           \/ ~(Now.op = "release" /\ Now.of = r) /\ r \in held
  BY <1>2 DEF Succeed, TakeNothing, CatchCtrlC, UncatchCtrlC, CancelFilm, AtStep
<1>5. info' # "freed" /\ (dialog = "Film" => info' = "unset")
  BY <1>1, <1>2
  DEF Succeed, TakeNothing, CatchCtrlC, UncatchCtrlC, CancelFilm, DialogInv, InfoInv
<1>6. /\ ResourcesAreAccounted' /\ HeldInv' /\ InfoInv' /\ WaitInv'
      /\ pc' \in 1 .. Len(Scripts[dialog]) + 1
      /\ lost' \in SUBSET ((DOMAIN Scripts) \X Resources)
      /\ misused' \in SUBSET ((DOMAIN Scripts) \X (Resources \cup {"info"}))
  BY <1>1, <1>3, <1>4, <1>5, GoesOnAccounted
<1>7. /\ dialog' = dialog /\ waiting' = "no" /\ menus' = menus
      /\ info' \in {"unset", "live", "freed"} /\ catching' \in BOOLEAN /\ cancel' \in BOOLEAN
      /\ film' \in [asked : BOOLEAN, cancelled : BOOLEAN, caught : BOOLEAN]
  BY <1>1 DEF GoesOn, Succeed, TakeNothing, CatchCtrlC, UncatchCtrlC, CancelFilm, DialogInv,
              TypeOK, Cleared
<1>8. TypeOK'
  BY <1>2, <1>3, <1>6, <1>7 DEF DialogInv, TypeOK
<1> QED
  BY <1>6, <1>8 DEF Books

LEMMA EndSteps ==
  ASSUME DialogInv, Fail \/ PartFails \/ Return
  PROVE  Books'
<1>1. dialog # None /\ menus' = menus /\ catching' = catching /\ cancel' = cancel /\ film' = film
  BY DEF Fail, PartFails, Return, AtStep, Running
<1>2. PICK frees \in SUBSET Resources :
        /\ Ends(frees)
        /\ \A r \in Resources : /\ r \in held \ frees => r \in MayLose(dialog)
                                /\ r \in frees \ held => r \in MayMisuse(dialog)
  <2>1. CASE Fail \/ PartFails
    <3>1. pc <= Len(Scripts[dialog]) /\ MayEnd(Now) /\ Ends(Now.frees)
      BY <2>1 DEF Fail, PartFails, AtStep, MayEnd
    <3> QED
      BY <1>1, <3>1, StepFrees
  <2>2. CASE Return
    <3>1. /\ dialog \in DOMAIN Scripts /\ Ends({}) /\ Len(Scripts[dialog]) \in Nat
          /\ \A r \in Resources : Len(Scripts[dialog]) + 1 \in Span(dialog)[r] => r \in MayLose(dialog)
      BY <1>1, <2>2, EveryScriptIsDisciplined
      DEF Return, DialogInv, TypeOK, AllDisciplined, Disciplined
    <3>2. pc = Len(Scripts[dialog]) + 1
      BY <1>1, <2>2, <3>1 DEF Return, DialogInv, TypeOK
    <3>3. \A r \in Resources : r \in held => r \in MayLose(dialog)
      BY <1>1, <3>1, <3>2 DEF DialogInv, HeldInv
    <3> QED
      BY <3>1, <3>3
  <2> QED
    BY <2>1, <2>2
<1>3. /\ ResourcesAreAccounted' /\ HeldInv' /\ InfoInv' /\ WaitInv'
      /\ lost' \in SUBSET ((DOMAIN Scripts) \X Resources)
      /\ misused' \in SUBSET ((DOMAIN Scripts) \X (Resources \cup {"info"}))
  BY <1>1, <1>2, EndsAccounted
<1>4. TypeOK'
  BY <1>1, <1>2, <1>3 DEF Ends, DialogInv, TypeOK
<1> QED
  BY <1>3, <1>4 DEF Books

(* Waiting for a command, and what happens meanwhile. *)
LEMMA WaitSteps ==
  ASSUME DialogInv, Wait \/ CapChange
  PROVE  Books'
<1>1. /\ dialog # None /\ pc <= Len(Scripts[dialog])
      /\ UNCHANGED <<menus, dialog, pc, held, catching, cancel, lost, film>>
  BY DEF Wait, CapChange, AtStep, Running, DialogInv, WaitInv
<1>2. WaitInv' /\ waiting' # "no" /\ waiting' \in {"no", "command", "cancel"}
  <2>1. pc \in 1 .. Len(Scripts[dialog])
    BY <1>1, NowKeeps DEF DialogInv
  <2>2. Now' = Now
    BY <1>1 DEF Now
  <2>3. CASE Wait
    BY <1>1, <2>1, <2>2, <2>3 DEF Wait, AtStep, MayEnd, WaitInv
  <2>4. CASE CapChange
    BY <1>1, <2>1, <2>2, <2>4 DEF CapChange, DialogInv, TypeOK, WaitInv
  <2> QED
    BY <2>3, <2>4
<1>3. InfoInv' /\ info' \in {"unset", "live", "freed"}
  BY <1>1, <1>2 DEF Wait, CapChange, DialogInv, InfoInv, TypeOK
<1>4. HeldInv'
  BY <1>1 DEF DialogInv, HeldInv
<1>5. misused' = misused \/ (misused' = misused \cup Misuses /\ waiting = "no")
  BY DEF Wait, CapChange, AtStep, Running
<1>6. /\ ResourcesAreAccounted'
      /\ misused' \in SUBSET ((DOMAIN Scripts) \X (Resources \cup {"info"}))
  <2>1. dialog \in DOMAIN Scripts
    BY <1>1, NowKeeps DEF DialogInv
  <2>2. waiting = "no" => Misuses \subseteq {dialog} \X (MayMisuse(dialog) \cap Resources)
    BY <1>1, StepMisuses
  <2>3. NothingIsMisused'
    BY <1>5, <2>1, <2>2, MayBeAccounted DEF DialogInv, ResourcesAreAccounted, NothingIsMisused
  <2>4. EverythingIsGivenBack'
    BY <1>1 DEF DialogInv, ResourcesAreAccounted, EverythingIsGivenBack
  <2>5. misused' \in SUBSET ((DOMAIN Scripts) \X (Resources \cup {"info"}))
    BY <1>5, <2>1, <2>2 DEF DialogInv, TypeOK
  <2> QED
    BY <2>3, <2>4, <2>5 DEF ResourcesAreAccounted
<1>7. TypeOK'
  BY <1>1, <1>2, <1>3, <1>6 DEF DialogInv, TypeOK
<1> QED
  BY <1>2, <1>3, <1>4, <1>6, <1>7 DEF Books

LEMMA EndWaitStep ==
  ASSUME DialogInv, EndWait
  PROVE  Books'
<1>1. /\ waiting # "no" /\ dialog # None /\ pc \in 1 .. Len(Scripts[dialog]) /\ MayEnd(Now)
      /\ dialog \in DOMAIN Scripts /\ pc <= Len(Scripts[dialog])
      /\ UNCHANGED <<menus, catching, cancel>>
  BY NowKeeps DEF EndWait, DialogInv, WaitInv, TypeOK, MayEnd
<1>2. CASE PendingFails
  <2>1. Ends(Now.frees) /\ film' = film
    BY <1>2 DEF EndWait
  <2>2. /\ ResourcesAreAccounted' /\ HeldInv' /\ InfoInv' /\ WaitInv'
        /\ lost' \in SUBSET ((DOMAIN Scripts) \X Resources)
        /\ misused' \in SUBSET ((DOMAIN Scripts) \X (Resources \cup {"info"}))
    BY <1>1, <2>1, StepFrees, EndsAccounted
  <2>3. TypeOK'
    BY <1>1, <2>1, <2>2 DEF Ends, DialogInv, TypeOK
  <2> QED
    BY <2>2, <2>3 DEF Books
<1>3. CASE ~PendingFails
  <2>1. /\ dialog = "Film" /\ info = "unset" /\ GoesOn /\ UNCHANGED <<info, held>>
        /\ film' = [film EXCEPT !.cancelled = @ \/ waiting = "cancel"]
    BY <1>1, <1>3 DEF EndWait, PendingFails, DialogInv, TypeOK, CancelInv, InfoInv
  <2>2. Now.op \notin {"show", "take", "try", "release"}
    BY <1>1 DEF DialogInv, WaitInv
  <2>3. held' \in SUBSET Resources
    BY <2>1 DEF DialogInv, TypeOK
  <2>4. /\ ResourcesAreAccounted' /\ HeldInv' /\ InfoInv' /\ WaitInv'
        /\ pc' \in 1 .. Len(Scripts[dialog]) + 1
        /\ lost' \in SUBSET ((DOMAIN Scripts) \X Resources)
        /\ misused' \in SUBSET ((DOMAIN Scripts) \X (Resources \cup {"info"}))
    BY <1>1, <2>1, <2>2, <2>3, GoesOnAccounted
  <2>5. TypeOK'
    BY <1>1, <2>1, <2>3, <2>4 DEF GoesOn, DialogInv, TypeOK
  <2> QED
    BY <2>4, <2>5 DEF Books
<1> QED
  BY <1>2, <1>3

(* Parts of a film. *)
LEMMA PartSteps ==
  ASSUME DialogInv, NextPart
  PROVE  Books'
<1>1. /\ dialog # None /\ waiting = "no" /\ pc <= Len(Scripts[dialog]) /\ Now.op = "parts"
      /\ UNCHANGED <<menus, info, held, catching, cancel, film>>
  BY DEF NextPart, AtStep, Running, GoesOn
<1>2. dialog = "Film" /\ info = "unset" /\ dialog \in DOMAIN Scripts
  BY <1>1, NowKeeps DEF Keeps, Never, DialogInv, InfoInv
<1>3. held' \in SUBSET Resources
  BY <1>1 DEF DialogInv, TypeOK
<1>4. CASE GoesOn
  <2>1. /\ ResourcesAreAccounted' /\ HeldInv' /\ InfoInv' /\ WaitInv'
        /\ pc' \in 1 .. Len(Scripts[dialog]) + 1
        /\ lost' \in SUBSET ((DOMAIN Scripts) \X Resources)
        /\ misused' \in SUBSET ((DOMAIN Scripts) \X (Resources \cup {"info"}))
    BY <1>1, <1>2, <1>3, <1>4, GoesOnAccounted
  <2>2. TypeOK'
    BY <1>1, <1>3, <1>4, <2>1 DEF GoesOn, DialogInv, TypeOK
  <2> QED
    BY <2>1, <2>2 DEF Books
<1>5. CASE UNCHANGED <<pc, dialog, waiting, lost, held>> /\ misused' = misused \cup Misuses
  <2>1. Misuses \subseteq {dialog} \X (MayMisuse(dialog) \cap Resources)
    BY <1>1, StepMisuses
  <2>2. ResourcesAreAccounted'
    <3>1. NothingIsMisused'
      BY <1>2, <1>5, <2>1, MayBeAccounted DEF DialogInv, ResourcesAreAccounted, NothingIsMisused
    <3> QED
      BY <1>5, <3>1 DEF DialogInv, ResourcesAreAccounted, EverythingIsGivenBack
  <2>3. WaitInv' /\ InfoInv' /\ HeldInv'
    BY <1>1, <1>2, <1>5 DEF WaitInv, InfoInv, HeldInv, DialogInv
  <2>4. TypeOK'
    BY <1>1, <1>2, <1>5, <2>1 DEF DialogInv, TypeOK
  <2> QED
    BY <2>2, <2>3, <2>4 DEF Books
<1> QED
  BY <1>4, <1>5 DEF NextPart

LEMMA PressStep ==
  ASSUME DialogInv, PressCtrlC
  PROVE  Books'
<1>1. UNCHANGED <<menus, dialog, pc, info, held, waiting, catching, lost, misused>>
  BY DEF PressCtrlC
<1>2. cancel' \in BOOLEAN /\ film' \in [asked : BOOLEAN, cancelled : BOOLEAN, caught : BOOLEAN]
  BY DEF PressCtrlC, DialogInv, TypeOK
<1>3. TypeOK'
  BY <1>1, <1>2 DEF DialogInv, TypeOK
<1>4. Now' = Now
  BY <1>1 DEF Now
<1> QED
  BY <1>1, <1>3, <1>4
  DEF Books, DialogInv, WaitInv, HeldInv, InfoInv, ResourcesAreAccounted, EverythingIsGivenBack,
      NothingIsMisused

LEMMA BooksStep == DialogInv /\ [Next]_vars => Books'
<1> SUFFICES ASSUME DialogInv, [Next]_vars PROVE Books'
  OBVIOUS
<1>1. CASE UNCHANGED vars
  <2>1. Now' = Now
    BY <1>1 DEF vars, Now
  <2> QED
    BY <1>1, <2>1
    DEF vars, Books, DialogInv, TypeOK, WaitInv, HeldInv, InfoInv, ResourcesAreAccounted,
        EverythingIsGivenBack, NothingIsMisused
<1> QED
  BY <1>1, MenuSteps, ChooseStep, GoesOnSteps, EndSteps, WaitSteps, EndWaitStep, PartSteps, PressStep
  DEF Next

-----------------------------------------------------------------------------
(* Cancelling a film.                                                      *)

(* A step about the parts of a film is a step of the film. *)
LEMMA PartsAreOfAFilm == DialogInv /\ AtStep({"parts", "command"}) /\ Now.op = "parts" => dialog = "Film"
BY NowKeeps DEF DialogInv, AtStep, Running, Keeps, Never

LEMMA CancelStep == DialogInv /\ [Next]_vars => CancelInv'
<1> SUFFICES ASSUME DialogInv, [Next]_vars PROVE CancelInv'
  OBVIOUS
<1>a. None # "Film"
  BY DialogsAssumption DEF Scripts
<1>0. TypeOK /\ CancelInv /\ (waiting # "no" => dialog # None) /\ None # "Film"
  BY <1>a DEF DialogInv, WaitInv
<1>1. CASE UNCHANGED <<dialog, waiting, catching, cancel, film>>
  BY <1>0, <1>1 DEF CancelInv, CancelIsAsked
<1>2. ASSUME NEW d \in DOMAIN Scripts, Choose(d) PROVE CancelInv'
  <2>1. /\ dialog' = d /\ UNCHANGED <<waiting, catching, cancel>> /\ dialog = None
        /\ film' = IF d # "Film" THEN film
                   ELSE [asked |-> FALSE, cancelled |-> FALSE, caught |-> catching]
    BY <1>2 DEF Choose
  <2> QED
    BY <1>0, <2>1 DEF CancelInv, CancelIsAsked, TypeOK
<1>3. CASE dialog' = None /\ waiting' = "no" /\ UNCHANGED <<catching, cancel, film>>
  BY <1>0, <1>3 DEF CancelInv, CancelIsAsked
<1>4. CASE Wait
  <2>1. /\ UNCHANGED <<dialog, catching, cancel, film>>
        /\ waiting' = "cancel" => Now.op = "parts" /\ cancel /\ dialog = "Film"
    <3>1. waiting' = "cancel" => Now.op = "parts" /\ cancel
      BY <1>4 DEF Wait
    <3> QED
      BY <1>4, <3>1, PartsAreOfAFilm DEF Wait, AtStep
  <2> QED
    BY <1>0, <2>1 DEF CancelInv, CancelIsAsked
<1>5. CASE EndWait
  <2>1. CASE PendingFails
    BY <1>3, <1>5, <2>1 DEF EndWait, Ends
  <2>2. CASE ~PendingFails
    <3>1. /\ waiting = "cancel" /\ dialog' = dialog /\ waiting' = "no"
          /\ UNCHANGED <<catching, cancel>>
          /\ film' = [film EXCEPT !.cancelled = @ \/ waiting = "cancel"]
      BY <1>0, <1>5, <2>2 DEF EndWait, PendingFails, GoesOn, TypeOK
    <3> QED
      BY <1>0, <3>1 DEF CancelInv, CancelIsAsked, TypeOK
  <2> QED
    BY <2>1, <2>2
<1>6. CASE CatchCtrlC
  BY <1>0, <1>6 DEF CatchCtrlC, GoesOn, CancelInv, CancelIsAsked
<1>7. CASE UncatchCtrlC
  BY <1>0, <1>7 DEF UncatchCtrlC, GoesOn, Cleared, CancelInv, CancelIsAsked
<1>8. CASE PressCtrlC
  <2>1. film' = [film EXCEPT !.asked = @ \/ dialog = "Film"]
    BY <1>8 DEF PressCtrlC
  <2>2. /\ film'.asked = (film.asked \/ dialog = "Film") /\ film'.cancelled = film.cancelled
        /\ film'.caught = film.caught
    BY <1>0, <2>1 DEF TypeOK
  <2> QED
    BY <1>0, <1>8, <2>2 DEF PressCtrlC, CancelInv, CancelIsAsked
<1>9. CASE CancelFilm
  <2>1. dialog = "Film" /\ cancel
    BY <1>9, PartsAreOfAFilm DEF CancelFilm, AtStep
  <2>2. /\ dialog' = dialog /\ waiting' = "no" /\ UNCHANGED <<catching, cancel>>
        /\ film' = [film EXCEPT !.cancelled = TRUE]
    BY <1>9 DEF CancelFilm, GoesOn
  <2> QED
    BY <1>0, <2>1, <2>2 DEF CancelInv, CancelIsAsked, TypeOK
<1>10. CASE Succeed \/ TakeNothing \/ NextPart
  <2>1. /\ dialog' = dialog /\ (waiting' = "no" \/ waiting' = waiting)
        /\ UNCHANGED <<catching, cancel, film>>
    BY <1>10 DEF Succeed, TakeNothing, NextPart, GoesOn
  <2> QED
    BY <1>0, <2>1 DEF CancelInv, CancelIsAsked
<1>11. CASE Fail \/ Return \/ PartFails
  BY <1>3, <1>11 DEF Fail, Return, PartFails, Ends
<1>12. CASE (\E m \in DOMAIN Offered : Enter(m)) \/ (\E l \in DOMAIN Loops : Move(l)) \/ Leave
            \/ CapChange \/ UNCHANGED vars
  BY <1>1, <1>12 DEF Enter, Move, Leave, CapChange, vars
<1> QED
  BY <1>2, <1>4, <1>5, <1>6, <1>7, <1>8, <1>9, <1>10, <1>11, <1>12 DEF Next

-----------------------------------------------------------------------------
(* The theorems.                                                           *)

(* The inductive invariant: what a dialog holds is what the span of its    *)
(* script says, and what it may still look at has not been freed.          *)
THEOREM DialogsKeepTheirBooks == Spec => []DialogInv
<1>1. Init => DialogInv
  <2>1. Init => CancelInv
    BY DialogsAssumption DEF Init, CancelInv, CancelIsAsked
  <2> QED
    BY <2>1, BooksInitially DEF Books, DialogInv
<1>2. DialogInv /\ [Next]_vars => DialogInv'
  BY BooksStep, CancelStep DEF Books, DialogInv
<1> QED
  BY <1>1, <1>2, PTL DEF Spec

(* Every variable keeps its type, however deep the menus. *)
THEOREM TypeCorrect == Spec => []TypeOK
<1>1. DialogInv => TypeOK
  BY DEF DialogInv
<1> QED
  BY <1>1, DialogsKeepTheirBooks, PTL

(* Every dialog accounts for its memory, its files and pCapInfo on every   *)
(* way out, but for the seven exceptions (Function.cpp:1983-5578).         *)
THEOREM ResourcesAccounted == Spec => []ResourcesAreAccounted
<1>1. DialogInv => ResourcesAreAccounted
  BY DEF DialogInv
<1> QED
  BY <1>1, DialogsKeepTheirBooks, PTL

(* A film is cancelled only if Ctrl+C was pressed while it was fetched, or *)
(* was caught from before (GetVideoImageExCapability).                     *)
THEOREM CancelWasAsked == Spec => []CancelIsAsked
<1>1. DialogInv => CancelIsAsked
  BY DEF DialogInv, CancelInv
<1> QED
  BY <1>1, DialogsKeepTheirBooks, PTL

=============================================================================
