-------------------------------- MODULE Tuning -------------------------------
(***************************************************************************)
(* The parameters of variants in live mode: a popover of controls writes   *)
(* their values to the variant that is shown, the script keeps them, and   *)
(* checkpoints and the accept carry them.  Closing the popover, another    *)
(* variant, hot reloads, reloads and the next session come in between.     *)
(* Bound: two variants, one parameter each.                                *)
(***************************************************************************)
EXTENDS Naturals, FiniteSets

CONSTANTS
  MaxSessions,   \* bound: sessions
  MaxReplaced    \* bound: hot reloads and reloads

ASSUME TuningBounds == MaxSessions \in Nat /\ MaxReplaced \in Nat

VARIABLES
  knobs,    \* per variant the kind of its parameter
  tuned,    \* the script: phase, session, variant, its values, the popover's controls
  styled,   \* the page: the variant it shows and what its elements were given
  tell,     \* a checkpoint that is due, and the last one: session, values
  chosen,   \* the accept under way, with what the page showed then
  wishes    \* per variant what the user set last, and whether that was reset since

tuningVars == <<knobs, tuned, styled, tell, chosen, wishes>>

Pair == {1, 2}
Unset == 99
DefaultOf == [range |-> 5, toggle |-> 0, steps |-> 2, odd |-> 9]
\* Steps whose default is none of the options are shown as the first of them.
ReadOf(kind, value) == IF kind = "odd" /\ value \notin {1, 2} THEN 1 ELSE value
Settable(kind, value) == CASE kind = "range" -> {5, 7} [] kind = "toggle" -> {1 - value} [] OTHER -> {1, 2}

NoControls == [of |-> 0, at |-> 0, reads |-> Unset]
Untouched == [v \in Pair |-> [value |-> Unset, lost |-> FALSE]]
NotChosen == [variant |-> 0]
Bare == [value |-> [v \in Pair |-> Unset], at |-> 0, shows |-> 1]

TuningInit ==
  /\ knobs \in {<<"range", "toggle">>, <<"toggle", "odd">>, <<"none", "steps">>, <<"steps", "none">>}
  /\ tuned = [phase |-> "picking", session |-> 0, visible |-> 0, values |-> Unset, open |-> FALSE, controls |-> NoControls]
  /\ styled = Bare
  /\ tell = [due |-> FALSE, session |-> 0, values |-> Unset]
  /\ chosen = NotChosen /\ wishes = Untouched

-----------------------------------------------------------------------------
(* refreshParamsPanel. *)

Applied(page, v, value) == [page EXCEPT !.value[v] = value]
ResetWishes == [v \in Pair |-> [wishes[v] EXCEPT !.lost = TRUE]]

\* The controls are made anew for the variant that is shown, at its default.
Built(t, page) ==
  LET default == DefaultOf[knobs[t.visible]]
  IN [t EXCEPT !.values = default,
               !.controls = [of |-> t.visible, at |-> page.at, reads |-> ReadOf(knobs[t.visible], default)]]

\* Out of cycling, or without a parameter, the values are gone and the popover closes.
NoParams(t) == t.phase # "cycling" \/ t.visible = 0 \/ knobs[t.visible] = "none"
Refresh(t, page) ==
  IF NoParams(t)
  THEN tuned' = [t EXCEPT !.values = Unset, !.open = FALSE] /\ styled' = page
  ELSE tuned' = Built(t, page) /\ styled' = Applied(page, t.visible, DefaultOf[knobs[t.visible]])

Shown(page, v) == [page EXCEPT !.shows = v]

-----------------------------------------------------------------------------
(* A session. *)

\* Go keeps what the session before left, and tells it in its first checkpoint.
StartSession ==
  /\ tuned.phase = "picking" /\ tuned.session < MaxSessions
  /\ tuned' = [tuned EXCEPT !.phase = "generating", !.session = @ + 1, !.visible = 0]
  /\ styled' = Bare
  /\ tell' = [tell EXCEPT !.session = tuned'.session, !.values = tuned.values]
  /\ wishes' = Untouched
  /\ UNCHANGED <<knobs, chosen>>

\* The first variant is shown, without values; with the second cycling starts.
FirstArrives ==
  /\ tuned.phase = "generating" /\ tuned.visible = 0
  /\ Refresh([tuned EXCEPT !.visible = 1], Shown(styled, 1))
  /\ tell' = [tell EXCEPT !.due = TRUE]
  /\ UNCHANGED <<knobs, chosen, wishes>>
AllArrive ==
  /\ tuned.phase = "generating"
  /\ LET v == IF tuned.visible = 0 THEN 1 ELSE tuned.visible
     IN Refresh([tuned EXCEPT !.phase = "cycling", !.visible = v], Shown(styled, v))
  /\ tell' = [tell EXCEPT !.due = TRUE]
  /\ UNCHANGED <<knobs, chosen, wishes>>

StepTo(v) ==
  /\ tuned.phase = "cycling" /\ v # tuned.visible
  /\ Refresh([tuned EXCEPT !.visible = v], Shown(styled, v))
  /\ wishes' = ResetWishes /\ tell' = [tell EXCEPT !.due = TRUE]
  /\ UNCHANGED <<knobs, chosen>>

\* Opening the popover puts the values back, with or without an earlier setting.
OpenTune ==
  /\ ~tuned.open /\ ~NoParams(tuned)
  /\ tuned' = [Built(tuned, styled) EXCEPT !.open = TRUE]
  /\ styled' = Applied(styled, tuned.visible, DefaultOf[knobs[tuned.visible]])
  /\ wishes' = ResetWishes
  /\ UNCHANGED <<knobs, tell, chosen>>
CloseTune ==
  /\ tuned.open /\ tuned' = [tuned EXCEPT !.open = FALSE]
  /\ UNCHANGED <<knobs, styled, tell, chosen, wishes>>

\* A control writes to the element it was made for, which may be off the page by now.
SetKnob ==
  /\ tuned.open /\ tuned.controls.of # 0
  /\ LET c == tuned.controls
         kind == knobs[c.of]
     IN \E value \in Settable(kind, IF tuned.values = Unset THEN 0 ELSE tuned.values) :
          /\ tuned' = [tuned EXCEPT !.values = value, !.controls.reads = value]
          /\ styled' = IF c.at = styled.at THEN Applied(styled, c.of, value) ELSE styled
          /\ wishes' = [wishes EXCEPT ![c.of] = [value |-> value, lost |-> FALSE]]
  /\ tell' = [tell EXCEPT !.due = TRUE]
  /\ UNCHANGED <<knobs, chosen>>

TellValues ==
  /\ tell.due
  /\ tell' = IF tuned.phase = "picking" THEN [tell EXCEPT !.due = FALSE]
             ELSE [due |-> FALSE, session |-> tuned.session, values |-> tuned.values]
  /\ UNCHANGED <<knobs, tuned, styled, chosen, wishes>>

-----------------------------------------------------------------------------
(* What happens to the page. *)

\* A hot reload may put new elements in place of all: the first variant shows, with
\* no value.  The observer sees no new variant and does nothing.
HotReplace ==
  /\ tuned.phase \in {"cycling", "saving"} /\ styled.at < MaxReplaced
  /\ styled' = [Bare EXCEPT !.at = styled.at + 1]
  /\ UNCHANGED <<knobs, tuned, tell, chosen, wishes>>

\* A reload while the accept is under way brings cycling back.
ReloadTuned ==
  /\ tuned.phase \in {"cycling", "saving"} /\ styled.at < MaxReplaced
  /\ Refresh([tuned EXCEPT !.phase = "cycling", !.open = FALSE, !.controls = NoControls],
             [Bare EXCEPT !.at = styled.at + 1, !.shows = tuned.visible])
  /\ wishes' = ResetWishes /\ tell' = [tell EXCEPT !.due = TRUE] /\ chosen' = NotChosen
  /\ UNCHANGED knobs

-----------------------------------------------------------------------------
(* Accept and the end of a session. *)

\* The controls are those of the variant that the page shows.
Matched == tuned.controls.at = styled.at /\ tuned.controls.of = styled.shows

\* The variant that is sent is the one the page shows.
VariantInPage == styled.shows

AcceptTuned ==
  /\ tuned.phase = "cycling"
  /\ tuned' = [tuned EXCEPT !.phase = "saving", !.visible = VariantInPage]
  /\ chosen' = [variant |-> VariantInPage, values |-> tuned.values, shows |-> styled.shows,
                has |-> styled.value[styled.shows], stale |-> ~Matched]
  /\ UNCHANGED <<knobs, styled, tell, wishes>>

AcceptFails ==
  /\ tuned.phase = "saving" /\ tuned' = [tuned EXCEPT !.phase = "cycling"]
  /\ chosen' = NotChosen
  /\ UNCHANGED <<knobs, styled, tell, wishes>>

\* Accepted, or discarded: the bar and the popover go, the values stay.
EndSession ==
  /\ tuned.phase \in {"saving", "cycling"}
  /\ tuned' = [tuned EXCEPT !.phase = "picking", !.open = FALSE]
  /\ styled' = Bare /\ chosen' = NotChosen
  /\ UNCHANGED <<knobs, tell, wishes>>

TuningNext ==
  \/ StartSession \/ FirstArrives \/ AllArrive \/ OpenTune \/ CloseTune \/ SetKnob \/ TellValues
  \/ HotReplace \/ ReloadTuned \/ AcceptTuned \/ AcceptFails \/ EndSession
  \/ \E v \in Pair : StepTo(v)
TuningSpec == TuningInit /\ [][TuningNext]_tuningVars
-----------------------------------------------------------------------------

\* An accept names the variant on the page.  Its values are those the page has unless
\* a hot reload took the elements the controls were made for: then they are those of
\* the variant the script had, and the page has none, be they set before it or after.
AcceptIsOfThePage ==
  chosen.variant # 0 =>
    /\ chosen.variant = chosen.shows
    /\ chosen.values # Unset => chosen.has = IF chosen.stale THEN Unset ELSE chosen.values
    /\ chosen.stale /\ chosen.values # Unset => styled.at > 0

\* While cycling the script's values are those on the page and in the controls, which
\* show a default that is none of the steps as the first, until a hot reload.
ControlsAreOfThePage ==
  tuned.phase = "cycling" /\ tuned.values # Unset =>
    IF Matched
    THEN /\ styled.value[styled.shows] = tuned.values
         /\ tuned.controls.reads = ReadOf(knobs[styled.shows], tuned.values)
    ELSE styled.at > 0

\* What the user set for the variant lasts until the popover is opened again, another
\* variant was shown, or a reload; a hot reload takes it from the page only.
SettingLasts ==
  tuned.phase = "cycling" /\ wishes[tuned.visible].value # Unset /\ tuned.controls.of = tuned.visible =>
    wishes[tuned.visible].lost \/ tuned.values = wishes[tuned.visible].value

\* The first checkpoint of the first session has no values, that of a later one the last
\* of the session before.  While cycling the last checkpoint has the script's values
\* unless another is due or they were reset without one.
CheckpointIsOfSession ==
  /\ tell.session = 1 /\ tuned.phase = "generating" => tell.values = Unset
  /\ tuned.phase = "cycling" /\ ~tell.due /\ tell.session = tuned.session =>
       tell.values = tuned.values \/ wishes[tuned.visible].lost

TuningInv == AcceptIsOfThePage /\ ControlsAreOfThePage /\ SettingLasts /\ CheckpointIsOfSession
==============================================================================
