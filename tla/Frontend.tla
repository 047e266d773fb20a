------------------------------- MODULE Frontend -------------------------------
(***************************************************************************)
(* One browser session of the Streamlit page (frontend/app.py), with what  *)
(* presenter.py makes of a reply.                                          *)
(*                                                                         *)
(* Streamlit runs the script from the top after every interaction: first   *)
(* the callbacks of the buttons pressed, then the page, which first        *)
(* probes the service, then applies a newly selected example, then draws   *)
(* the composer, then handles Ask.  Interactions that come meanwhile end   *)
(* the run, in favour of a new one, at the next thing it does with the     *)
(* page: so not while it waits for the probe or for /query, but right      *)
(* afterwards.  A run that ends so has lost the clicks it was run for and  *)
(* what it meant to draw, and a reply; the new run begins with what the    *)
(* widgets hold in the browser, but keeps what the old one wrote to the    *)
(* session.                                                                *)
(***************************************************************************)
EXTENDS Sequences, SequencesExt

CONSTANTS
  None,
  Blank,            \* the empty composer
  NoExample,        \* NO_EXAMPLE, the selector's "(type your own)"
  Examples,         \* the texts the selector offers
  Typed,            \* what the user may type
  Askable,          \* the texts within MIN_ and MAX_QUESTION_CHARS
  MaxRecent         \* MAX_RECENT_QUESTIONS

Texts == {Blank} \cup Examples \cup Typed

ASSUME FrontendAssumption ==
  /\ Askable \subseteq Texts \ {Blank}
  /\ NoExample \notin Texts /\ None \notin Texts
  /\ MaxRecent \in Nat \ {0}

VARIABLES
  question,         \* QUESTION_KEY, what the text area holds in the browser
  example,          \* EXAMPLE_KEY, what the selector shows there
  applied,          \* APPLIED_EXAMPLE_KEY, the selection that was applied last
  recent,           \* RECENT_KEY
  view,             \* what the page shows of the last question, or None
  status,           \* what the cached probe of /ready said, and whether it is still kept
  service,          \* what /ready would say
  pc,               \* where the script is: see States
  events,           \* what the user did since the script last began
  cause,            \* what it was begun for
  composer,         \* what it means to draw of the two widgets
  asked,            \* the question of the call
  onlyText          \* history: since the composer was drawn the user edited or asked, at most
widgets == <<question, example>>
session == <<applied, recent, view>>
run == <<cause, composer>>
vars == <<widgets, session, status, service, pc, events, run, asked, onlyText>>

\* "rerun": it is to run; "probing", "synced" and "drawn": it has come so far; "asking": it
\* waits for /query.
States == {"idle", "rerun", "probing", "synced", "drawn", "asking"}
Readiness == {"ready", "not_ready", "unreachable"}
EditEvent == <<"edit">>
Ask == <<"ask">>
Clear == <<"clear">>
Reuse(text) == <<"reuse", text>>
Callbacks == {Clear} \cup {Reuse(t) : t \in Texts}

Init ==
  /\ question = Blank /\ example = NoExample /\ applied = NoExample
  /\ recent = <<>> /\ view = None
  /\ service \in Readiness /\ status = [ready |-> service, kept |-> FALSE]
  /\ pc = "idle" /\ events = {} /\ cause = {} /\ composer = None
  /\ asked = None /\ onlyText = TRUE

-----------------------------------------------------------------------------
(***************************************************************************)
(* The user, and the service behind the page.                              *)
(***************************************************************************)
\* An interaction asks for a run of the script, now or in place of the one under way.
Interact(event) ==
  /\ events' = events \cup {event}
  /\ pc' = IF pc = "idle" THEN "rerun" ELSE pc
  /\ onlyText' = (onlyText /\ event \in {EditEvent, Ask})
  /\ UNCHANGED <<session, status, service, run, asked>>

Edit(text) ==
  /\ text # question /\ question' = text
  /\ Interact(EditEvent)
  /\ UNCHANGED example

Choose(choice) ==
  /\ choice # example /\ example' = choice
  /\ Interact(<<"choose">>)
  /\ UNCHANGED question

\* Of the buttons with a callback one at a time.
Press(button) ==
  /\ button \in Callbacks => events \cap Callbacks = {}
  /\ Interact(button)
  /\ UNCHANGED widgets

ServiceChanges(readiness) ==
  /\ service' = readiness
  /\ UNCHANGED <<widgets, session, status, pc, events, run, asked, onlyText>>

\* STATUS_TTL_S has passed since the probe.
ProbeExpires ==
  /\ status' = [status EXCEPT !.kept = FALSE]
  /\ UNCHANGED <<widgets, session, service, pc, events, run, asked, onlyText>>

-----------------------------------------------------------------------------
(***************************************************************************)
(* The script.  A composer is what a run means to show in the two widgets. *)
(***************************************************************************)
Composer == [question |-> question, example |-> example]

\* _clear_question and _reuse_question; both drop the view as well.
ClearQuestion == [question |-> Blank, example |-> NoExample]
ReuseQuestion(text) == [question |-> text, example |-> NoExample]

AfterCallbacks ==
  IF Clear \in events THEN ClearQuestion
  ELSE IF \E t \in Texts : Reuse(t) \in events
       THEN ReuseQuestion(CHOOSE t \in Texts : Reuse(t) \in events)
       ELSE Composer

SyncAnySelection(c) ==
  IF c.example = NoExample THEN c ELSE [c EXCEPT !.question = c.example]

\* The marker tells a new selection from a rerun for another reason.
SyncSelectedExample(c) ==
  IF c.example = applied THEN c
  ELSE [c EXCEPT !.question = IF c.example = NoExample THEN Blank ELSE c.example]

\* A question asked again moves to the front.
RememberQuestion(text) ==
  LET history == <<text>> \o SelectSeq(recent, LAMBDA item : item # text)
  IN recent' = SubSeq(history, 1, Min({Len(history), MaxRecent}))

\* _service_status, cached for STATUS_TTL_S.
ServiceStatus == IF status.kept THEN status ELSE [ready |-> service, kept |-> TRUE]

\* The box the page shows: an error by its code, a reply by its outcome.
ErrorKind(code) ==
  CASE code \in {"not_ready", "service_not_ready"} -> "warning"
    [] code = "invalid_question" -> "info"
    [] OTHER -> "error"
OutcomeKind == [answer |-> "success", clarify |-> "info", abstain |-> "warning",
                escalate |-> "warning"]
Present(text, reply) ==
  [of |-> text, kind |-> IF reply \in DOMAIN OutcomeKind THEN OutcomeKind[reply]
                         ELSE ErrorKind(reply)]

\* call_api: the error each failure is mapped to, and the error codes and the outcomes
\* that the API itself replies with.
Failures == {"timeout", "unreachable", "bad_response", "http_error"}
Refusals == {"service_not_ready", "model_unavailable", "provider_unavailable", "rate_limited",
             "service_busy", "invalid_request", "internal_error"}
Replies == Failures \cup Refusals \cup DOMAIN OutcomeKind

\* Where the script next touches the page, interactions that came meanwhile end its run.
CutOff ==
  /\ events # {}
  /\ pc' = "rerun" /\ cause' = {} /\ composer' = None

Begin ==
  /\ pc = "rerun" /\ pc' = "probing"
  /\ composer' = AfterCallbacks
  /\ view' = IF events \cap Callbacks = {} THEN view ELSE None
  /\ cause' = events /\ events' = {}
  /\ UNCHANGED <<widgets, applied, recent, status, service, asked, onlyText>>

\* The probe is over; the selector is drawn, and a new selection applied.
Sync ==
  /\ pc = "probing"
  /\ status' = ServiceStatus
  /\ \/ CutOff /\ UNCHANGED <<example, applied, view>>
     \/ /\ events = {} /\ pc' = "synced"
        /\ example' = composer.example /\ applied' = composer.example
        /\ composer' = SyncSelectedExample(composer)
        /\ view' = IF composer.example = applied THEN view ELSE None
        /\ UNCHANGED cause
  /\ UNCHANGED <<question, recent, service, events, asked, onlyText>>

\* The text area is drawn.
Draw ==
  /\ pc = "synced"
  /\ \/ CutOff /\ UNCHANGED <<question, onlyText>>
     \/ /\ events = {} /\ pc' = "drawn"
        /\ question' = composer.question
        /\ onlyText' = TRUE
        /\ UNCHANGED run
  /\ UNCHANGED <<example, session, status, service, events, asked>>

\* The buttons are drawn, and Ask is handled if it was pressed.
Submit ==
  LET text == composer.question
      ends(v) == pc' = "idle" /\ view' = v /\ asked' = None
  IN /\ pc = "drawn"
     /\ \/ CutOff /\ UNCHANGED <<recent, view, asked>>
        \/ /\ events = {} /\ cause' = {} /\ composer' = None
           /\ \/ /\ Ask \notin cause
                 /\ ends(view)
                 /\ UNCHANGED recent
              \/ /\ Ask \in cause /\ text \notin Askable
                 /\ ends(Present(text, "invalid_question"))
                 /\ UNCHANGED recent
              \/ /\ Ask \in cause /\ text \in Askable
                 /\ RememberQuestion(text)
                 /\ \/ /\ status.ready # "ready"
                       /\ ends(Present(text, "not_ready"))
                    \/ /\ status.ready = "ready"
                       /\ pc' = "asking" /\ asked' = text
                       /\ UNCHANGED view
     /\ UNCHANGED <<widgets, applied, status, service, events, onlyText>>

\* The call has returned.
Receive(reply) ==
  /\ pc = "asking"
  /\ \/ events = {} /\ view' = Present(asked, reply) /\ pc' = "idle"
     \/ events # {} /\ pc' = "rerun" /\ UNCHANGED view
  /\ asked' = None
  /\ UNCHANGED <<widgets, applied, recent, status, service, events, run, onlyText>>

Next ==
  \/ \E t \in Typed : Edit(t)
  \/ \E e \in Examples \cup {NoExample} : Choose(e)
  \/ \E b \in {Ask, Clear} \cup {Reuse(t) : t \in ToSet(recent)} : Press(b)
  \/ \E r \in Readiness : ServiceChanges(r)
  \/ ProbeExpires
  \/ Begin \/ Sync \/ Draw \/ Submit
  \/ \E r \in Replies : Receive(r)

Spec == Init /\ [][Next]_vars

-----------------------------------------------------------------------------
(***************************************************************************)
(* Properties.                                                             *)
(***************************************************************************)
Draws == pc = "synced" /\ pc' = "drawn"

\* "A rerun cannot overwrite what the user typed", in the form that the code keeps: as long
\* as the user has done nothing but edit and ask since the composer was last drawn, drawing
\* it leaves the text alone, however many runs were begun and cut off in between; and what
\* is asked is always what the text area holds.
EditsSurvive ==
  [][/\ Draws /\ onlyText => question' = question
     /\ pc = "drawn" => asked' \in {None, question}]_vars

\* The same of every rerun "caused by editing the textarea" (app.py:494-496), as the comments
\* have it.  The code does not keep it: a run that is to apply an example may be cut off while
\* it probes the service, before the marker is written, and the next run, caused by an edit,
\* applies the example over the text.
RerunKeepsText ==
  [][Draws /\ cause \subseteq {EditEvent, Ask} => question' = question]_vars

\* "Put a session question back in the editable composer."  The code does not, once an
\* example has been applied: the callback resets the selector but not the marker, so the
\* run takes the reset for a new selection and empties the composer.
ReuseFillsComposer ==
  [][\A t \in Texts : Draws /\ Reuse(t) \in cause => question' = t]_vars
=============================================================================
