------------------------------ MODULE WebForms -------------------------------
(***************************************************************************)
(* A form of the web client that asks the API for a preview of what is     *)
(* typed, while it is typed.  Answers come late, in any order, or never.   *)
(***************************************************************************)
EXTENDS Naturals

CONSTANTS Inputs,    \* what may be typed and is valid
          None,      \* no valid input; no preview
          MaxAsked   \* bound: requests

FormsAssumption == None \notin Inputs /\ MaxAsked \in Nat

VARIABLES form,      \* which form it is
          typed,     \* what is typed
          armed,     \* the timer that waits for the typing to stop runs
          shown,     \* the input whose preview is shown
          pending,   \* requests that are under way and not aborted
          asked,     \* how many requests were sent
          outcome    \* what became of the last request: open, answered, refused, lost

vars == <<form, typed, armed, shown, pending, asked, outcome>>

Forms == {"send", "fiat", "sponsorship", "offer", "funding"}

\* The forms whose effect aborts the request of the effect before it.
Aborting == {"send", "fiat", "sponsorship"}

\* The forms with inputs about which nothing is asked.
Validating == {"send", "fiat", "offer"}

Init ==
  /\ form \in Forms /\ typed = None /\ armed = FALSE /\ shown = None
  /\ pending = {} /\ asked = 0 /\ outcome = "open"

\* Faulty variant: the effect clears its timer only.
AbortNothing == pending

\* What is left of the requests when the input changes.
AbortOlder == IF form \in Aborting THEN {} ELSE pending

\* With nothing to ask about the preview is cleared; that of a new offer when its timer
\* fires, the others at once.
Type(v) ==
  /\ v # typed /\ (v = None => form \in Validating)
  /\ typed' = v /\ outcome' = "open"
  /\ armed' = (v # None \/ form = "offer")
  /\ shown' = IF v = None /\ form # "offer" THEN None ELSE shown
  /\ pending' = AbortOlder
  /\ UNCHANGED <<form, asked>>

\* The funding desk and the sponsorship card ask at once: a timer of no length.
Ask ==
  /\ armed /\ armed' = FALSE /\ outcome' = "open"
  /\ IF typed = None
       THEN shown' = None /\ UNCHANGED <<pending, asked>>
       ELSE /\ asked < MaxAsked /\ asked' = asked + 1
            /\ pending' = pending \cup {[id |-> asked', input |-> typed]}
            /\ UNCHANGED shown
  /\ UNCHANGED <<form, typed>>

\* Request r is over, with the outcome o.
Over(r, o) ==
  /\ pending' = pending \ {r} /\ outcome' = IF r.id = asked THEN o ELSE outcome
  /\ UNCHANGED <<form, typed, armed, asked>>

Answer(r) == shown' = r.input /\ Over(r, "answered")

\* An answer that is not OK: the send form shows what it says if it can be read, the
\* sponsorship card goes on showing what it showed, the others show nothing.
Refuse(r) ==
  /\ shown' \in IF form = "send" THEN {r.input, None}
                ELSE IF form = "sponsorship" THEN {shown} ELSE {None}
  /\ Over(r, "refused")

\* No answer: the forms that do not abort show nothing, the others what they showed.
Fail(r) ==
  /\ shown' = IF form \in Aborting THEN shown ELSE None
  /\ Over(r, "lost")

Next ==
  \/ \E v \in Inputs \cup {None} : Type(v)
  \/ Ask
  \/ \E r \in pending : Answer(r) \/ Refuse(r) \/ Fail(r)

Spec == Init /\ [][Next]_vars

-----------------------------------------------------------------------------
(* Properties *)

\* In whatever order the answers come, an aborting form at rest (typing stopped, nothing
\* under way) shows the preview of what is typed if that was answered, and no preview if
\* nothing valid is typed; if it was refused, send and fiat show that or nothing, never the
\* preview of another input.  Nothing is said of the time before the answer, of a request
\* that was lost, nor of the sponsorship card after a refusal: there the older preview stays.
PreviewFitsInput ==
  form \in Aborting /\ ~ armed /\ pending = {} =>
    /\ typed = None \/ outcome = "answered" => shown = typed
    /\ outcome = "refused" /\ form # "sponsorship" => shown \in {typed, None}
=============================================================================
