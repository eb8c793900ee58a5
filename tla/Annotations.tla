----------------------------- MODULE Annotations -----------------------------
(***************************************************************************)
(* Pins and strokes on the element that is picked in live mode, before Go. *)
(* A pin is known to the handlers by its place in a list: in the pointer   *)
(* that is down, the editor that is open and the last press, any of which  *)
(* may outlive a change of the list.  who tells the pins apart.            *)
(***************************************************************************)
EXTENDS Naturals, Sequences, FiniteSets, SequencesExt

CONSTANTS
  MaxPins,     \* bound: pins made
  MaxStrokes,  \* bound: strokes made
  MaxPresses   \* bound: presses

ASSUME AnnotationBounds == MaxPins \in Nat /\ MaxStrokes \in Nat /\ MaxPresses \in Nat

VARIABLES
  pins,     \* annotState.comments: who, with a text or without
  strokes,  \* annotState.strokes: how many
  note,     \* annotEditing
  hand,     \* annotPointer
  press,    \* annotLastPinClick, whether it is less than 400 ms old
  carried,     \* pins of the last Go
  deeds   \* presses and pins so far, whether the editor's place went stale, the last deletion

annotVars == <<pins, strokes, note, hand, press, carried, deeds>>

NoNote == [at |-> 0, who |-> 0, text |-> FALSE, had |-> FALSE]
NoHand == [kind |-> "none", at |-> 0, who |-> 0, moved |-> FALSE, shifted |-> FALSE]
NoPress == [at |-> 0, recent |-> FALSE, who |-> 0, since |-> 0]
Nowhere == pins = <<>> /\ strokes = 0 /\ note = NoNote /\ hand = NoHand /\ press = NoPress

AnnotationsInit ==
  /\ Nowhere /\ carried = <<>>
  /\ deeds = [presses |-> 0, made |-> 0, slipped |-> FALSE, removed |-> 0, deleted |-> [first |-> 0, second |-> 0, apart |-> FALSE]]

-----------------------------------------------------------------------------
(* The list. *)

Without(list, at) == IF at \in DOMAIN list THEN RemoveAt(list, at) ELSE list
Removed(list) == deeds.removed + Len(pins) - Len(list)

\* Enter, blur, or a press elsewhere: a note without text removes its pin.  The
\* handler throws if there is text for a place the list does not have any more.
BreaksOn(list) == note # NoNote /\ note.text /\ note.at \notin DOMAIN list
FinalizedOf(list) ==
  IF note = NoNote \/ BreaksOn(list) THEN list
  ELSE IF note.text THEN [list EXCEPT ![note.at].text = TRUE] ELSE Without(list, note.at)
Breaks == BreaksOn(pins)
Finalized == FinalizedOf(pins)

\* Escape: back to the text it had; a pin that had none is removed.
Cancelled ==
  IF note.had THEN (IF note.at \in DOMAIN pins THEN [pins EXCEPT ![note.at].text = TRUE] ELSE pins)
  ELSE Without(pins, note.at)

\* An open editor is left for the new one, which takes the text the pin has.
BeginEdit(list, at) ==
  note' = IF at \notin DOMAIN list THEN note
          ELSE [at |-> at, who |-> list[at].who, text |-> list[at].text, had |-> list[at].text]

Pressed == deeds.presses < MaxPresses

-----------------------------------------------------------------------------
(* onAnnotDown. *)

PressClear ==
  /\ Pressed /\ (pins # <<>> \/ strokes > 0)
  /\ pins' = <<>> /\ strokes' = 0 /\ note' = NoNote /\ hand' = NoHand /\ press' = NoPress
  /\ deeds' = [deeds EXCEPT !.presses = @ + 1]
  /\ UNCHANGED carried

PressStroke ==
  /\ Pressed /\ strokes > 0
  /\ strokes' = strokes - 1
  /\ deeds' = [deeds EXCEPT !.presses = @ + 1]
  /\ UNCHANGED <<pins, note, hand, press, carried>>

\* The second press of a double click deletes.  The input of another pin goes with the
\* rest of the old pins; browsers differ in whether its blur commits it, at its old place.
PressTwice(at) ==
  /\ press.at = at /\ press.recent
  /\ LET other == note # NoNote /\ note.at # at
     IN \/ pins' = Without(pins, at) /\ note' = IF other THEN note ELSE NoNote
        \/ other /\ pins' = FinalizedOf(Without(pins, at)) /\ note' = NoNote
  /\ press' = NoPress
  /\ deeds' = [deeds EXCEPT !.presses = @ + 1, !.removed = Removed(pins'),
                   !.slipped = @ \/ (note # NoNote /\ note.at # at),
                   !.deleted = [first |-> press.who, second |-> pins[at].who, apart |-> press.since # deeds.removed]]
  /\ UNCHANGED <<strokes, hand, carried>>

\* A first press commits the editor of another pin, and then takes hold of the pin
\* that has the place by now; of the pin that is edited nothing.
PressOnce(at) ==
  /\ ~(press.at = at /\ press.recent)
  /\ LET other == note # NoNote /\ note.at # at
         list == IF other THEN Finalized ELSE pins
     IN /\ press' = [at |-> at, recent |-> TRUE, who |-> pins[at].who, since |-> deeds.removed]
        /\ deeds' = [deeds EXCEPT !.presses = @ + 1, !.removed = Removed(list)]
        /\ pins' = list
        /\ note' = IF other THEN NoNote ELSE note
        /\ hand' = IF note.at = at \/ (other /\ Breaks) \/ at \notin DOMAIN list THEN hand
                   ELSE [kind |-> "pin", at |-> at, who |-> pins[at].who, moved |-> FALSE,
                         shifted |-> Len(list) < Len(pins) /\ note.at < at]
  /\ UNCHANGED <<strokes, carried>>

PressPin == \E at \in DOMAIN pins : Pressed /\ hand = NoHand /\ (PressTwice(at) \/ PressOnce(at))

PressEmpty ==
  /\ Pressed /\ hand = NoHand
  /\ IF note # NoNote
     THEN pins' = Finalized /\ note' = NoNote /\ UNCHANGED hand
     ELSE hand' = [NoHand EXCEPT !.kind = "new"] /\ UNCHANGED <<pins, note>>
  /\ deeds' = [deeds EXCEPT !.presses = @ + 1, !.removed = Removed(pins')]
  /\ UNCHANGED <<strokes, press, carried>>

-----------------------------------------------------------------------------
(* onAnnotMove and onAnnotUp. *)

Drag ==
  /\ hand # NoHand /\ ~hand.moved
  /\ hand' = IF hand.kind = "pin" /\ hand.at \notin DOMAIN pins THEN NoHand ELSE [hand EXCEPT !.moved = TRUE]
  /\ UNCHANGED <<pins, strokes, note, press, carried, deeds>>

ReleasePin ==
  /\ hand.kind = "pin" /\ hand' = NoHand
  /\ IF hand.moved THEN press' = NoPress /\ UNCHANGED note
     ELSE BeginEdit(pins, hand.at) /\ UNCHANGED press
  /\ UNCHANGED <<pins, strokes, carried, deeds>>

ReleaseNew ==
  /\ hand.kind = "new" /\ hand' = NoHand
  /\ IF hand.moved
     THEN strokes < MaxStrokes /\ strokes' = strokes + 1 /\ UNCHANGED <<pins, note, deeds>>
     ELSE /\ deeds.made < MaxPins
          /\ deeds' = [deeds EXCEPT !.made = @ + 1]
          /\ pins' = Append(pins, [who |-> deeds.made + 1, text |-> FALSE])
          /\ BeginEdit(pins', Len(pins'))
          /\ UNCHANGED strokes
  /\ UNCHANGED <<press, carried>>

-----------------------------------------------------------------------------
(* The editor, the clock, and the ways out. *)

TypeNote ==
  /\ note # NoNote /\ note' = [note EXCEPT !.text = ~@]
  /\ UNCHANGED <<pins, strokes, hand, press, carried, deeds>>

CloseNote(list) ==
  /\ note # NoNote /\ note' = NoNote
  /\ pins' = list
  /\ deeds' = [deeds EXCEPT !.removed = Removed(list)]
  /\ UNCHANGED <<strokes, hand, press, carried>>
EnterOrBlur == CloseNote(Finalized)
EscapeNote == CloseNote(Cancelled)

PressAges ==
  /\ press.recent /\ press' = [press EXCEPT !.recent = FALSE]
  /\ UNCHANGED <<pins, strokes, note, hand, carried, deeds>>

Cleared == pins' = <<>> /\ strokes' = 0 /\ note' = NoNote /\ hand' = NoHand /\ press' = NoPress

\* Another element is picked by an arrow, or none.
Leave == ~Nowhere /\ Cleared /\ UNCHANGED <<carried, deeds>>

\* Go commits the editor and takes a copy; it does nothing if that throws.
GoWithNotes ==
  /\ hand = NoHand
  /\ IF Breaks
     THEN note' = NoNote /\ UNCHANGED <<pins, strokes, hand, press, carried, deeds>>
     ELSE /\ carried' = Finalized /\ Cleared
          /\ UNCHANGED deeds

AnnotationsNext ==
  \/ PressClear \/ PressStroke \/ PressPin \/ PressEmpty
  \/ Drag \/ ReleasePin \/ ReleaseNew
  \/ TypeNote \/ EnterOrBlur \/ EscapeNote \/ PressAges \/ Leave \/ GoWithNotes
AnnotationsSpec == AnnotationsInit /\ [][AnnotationsNext]_annotVars
-----------------------------------------------------------------------------

\* The pin in the hand is the one that was pressed, unless the press removed an empty
\* one before it: then it is the next.
HeldIsPressed ==
  hand.kind = "pin" /\ hand.at \in DOMAIN pins =>
    IF hand.shifted THEN pins[hand.at].who > hand.who ELSE pins[hand.at].who = hand.who

\* The editor is of the pin it was opened for, and only its pin is without a text,
\* until a double click deletes another pin under it.
EditorIsOfItsPin ==
  ~deeds.slipped =>
    /\ note # NoNote => note.at \in DOMAIN pins /\ pins[note.at].who = note.who
    /\ \A i \in DOMAIN pins : ~pins[i].text => i = note.at
    /\ \A i \in DOMAIN carried : carried[i].text

\* Both presses of a deletion were on one pin unless the list lost a pin in between.
DeletedWasPressedTwice ==
  ~deeds.deleted.apart => deeds.deleted.first = deeds.deleted.second

AnnotationsInv == HeldIsPressed /\ EditorIsOfItsPin /\ DeletedWasPressedTwice
==============================================================================
