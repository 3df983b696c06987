----------------------------- MODULE CallProtocol -----------------------------
(***************************************************************************)
(* What a caller sees of a page that makes calls: at most one call, which  *)
(* goes through offer and answer in the order the protocol has them, from  *)
(* whichever side it is begun; a new call takes the place of the old one.  *)
(* Signals are sent and media appear only where the protocol says so, and  *)
(* a call that has been offered or answered can be ended by its user.      *)
(***************************************************************************)
VARIABLES
  phase,     \* "idle"; "calling", "offered"; "ringing", "answering"; "agreed"
  connected, \* do the media flow?
  endable,   \* can the user hang up?
  video,     \* is the other side on screen?
  signals    \* the kinds of signal ever sent

vars == <<phase, connected, endable, video, signals>>

Init ==
  /\ phase = "idle"
  /\ connected = FALSE /\ endable = FALSE /\ video = FALSE
  /\ signals = {}

Sends(kind) == signals' \in {signals, signals \cup {kind}}

(* A call is begun by the user, or by an offer that comes in: in place of  *)
(* an earlier one, whose picture and Hang Up it inherits.                  *)
Begin(how) ==
  /\ phase' = how /\ connected' = FALSE
  /\ UNCHANGED <<endable, video, signals>>

Offer ==
  /\ phase = "calling" /\ phase' = "offered"
  /\ Sends("offer") /\ endable' = TRUE
  /\ UNCHANGED <<connected, video>>

GetAnswer ==
  /\ phase = "offered" /\ phase' = "agreed"
  /\ video' \in {video, TRUE}
  /\ UNCHANGED <<connected, endable, signals>>

AcceptOffer ==
  /\ phase = "ringing" /\ phase' = "answering"
  /\ video' \in {video, TRUE}
  /\ UNCHANGED <<connected, endable, signals>>

Answer ==
  /\ phase = "answering" /\ phase' = "agreed"
  /\ Sends("answer") /\ endable' = TRUE
  /\ UNCHANGED <<connected, video>>

Connect ==
  /\ phase = "agreed" /\ connected' = TRUE
  /\ UNCHANGED <<phase, endable, video, signals>>

(* The set-up fails; what is on screen stays, and so does Hang Up. *)
GiveUp ==
  /\ phase \in {"calling", "ringing", "answering"} /\ phase' = "idle"
  /\ connected' = FALSE
  /\ UNCHANGED <<endable, video, signals>>

HangUp ==
  /\ phase' = "idle" /\ connected' = FALSE
  /\ endable' = FALSE /\ video' = FALSE
  /\ UNCHANGED signals

Next ==
  \/ Begin("calling") \/ Offer \/ GetAnswer
  \/ Begin("ringing") \/ AcceptOffer \/ Answer
  \/ Connect \/ GiveUp \/ HangUp

Spec == Init /\ [][Next]_vars

===============================================================================
