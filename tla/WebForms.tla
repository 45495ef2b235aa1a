------------------------------ MODULE WebForms ------------------------------
(***************************************************************************)
(* The configuration pages of the web interface (webUI.cpp): a page shows  *)
(* what is configured, the user changes some of it or nothing, and the     *)
(* browser submits the form, maybe long after something else has changed   *)
(* the configuration.                                                      *)
(*                                                                         *)
(* Each page is on its own, so one is open here, any of them.  Its fields  *)
(* are reduced to one of each kind, which browsers treat differently: a    *)
(* box is submitted only when it is ticked, a text and a password always,  *)
(* the password never being shown, and a list shows its first option when  *)
(* the value is none of its options.  What a new network or broker does to *)
(* the gateway is in Supervisor and Connections.                           *)
(***************************************************************************)
EXTENDS Naturals

CONSTANTS
    Pages,          \* of "wu", "wi", "mq", "cg", "lo", "bl", "la", "rf", "cl"
    Texts,          \* values of a text
    Options,        \* those of them a list offers, and ...
    First,          \* ... the first of these
    Passwords,      \* "" among them
    MaxInputs       \* bound: what users and commands change

\* What the constants must be (assumed where they get their values).
WebFormsAssumption ==
    /\ Pages \subseteq {"wu", "wi", "mq", "cg", "lo", "bl", "la", "rf", "cl"}
    /\ First \in Options /\ Options \subseteq Texts
    /\ "" \in Passwords
    /\ MaxInputs \in Nat

VARIABLES
    page,
    live,       \* what the page configures, as it is
    stored,     \* and as it is in flash
    shown,      \* what it was when the browser got the page
    form,       \* what stands in the form now, or NoForm
    touched,    \* the user has changed the form
    restarted,  \* the last request has restarted the gateway
    inputs

formVars == <<page, live, stored, shown, form, touched, restarted, inputs>>

Values == [box : BOOLEAN, text : Texts, name : Texts, pass : Passwords]
NoForm == [form |-> "none"]

\* The pages whose text is a list.
Lists == {"la", "lo", "rf"}

\* A handler's outcome.
Outcome(l, s, r) == [live |-> l, stored |-> s, restarts |-> r]

-----------------------------------------------------------------------------
\* The handlers, for the arguments of a form submitted with "save".

\* The switches work at once; they are stored only if they have changed.
handleWU(a) ==
    LET l == [live EXCEPT !.box = a.box]
    IN  Outcome(l, IF l # live THEN l ELSE stored, FALSE)

\* Another network or password: it is tried, and the gateway restarts.
handleWI(a) ==
    LET l == [live EXCEPT !.text = a.text, !.pass = a.pass]
    IN  IF l = live THEN Outcome(live, stored, FALSE) ELSE Outcome(l, l, TRUE)

\* The broker's fields are sent on if one of them differs, the names in any case; the
\* gateway reconnects, and saves what works.
handleMQ(a) ==
    LET b == [live EXCEPT !.box = a.box, !.text = a.text, !.pass = a.pass]
        l == [b EXCEPT !.name = a.name]
    IN  IF l = live THEN Outcome(live, stored, FALSE) ELSE Outcome(l, l, TRUE)

\* Mutant of handleCG: an empty password is a new one.
handleCGEmpty(a) ==
    LET l == [live EXCEPT !.pass = a.pass, !.box = a.box]
    IN  Outcome(l, l, l # live)

\* A password that was typed, and the discovery.
handleCG(a) ==
    LET new == a.pass # "" /\ a.pass # live.pass
        l == [live EXCEPT !.pass = IF new THEN a.pass ELSE @, !.box = a.box]
        s == [stored EXCEPT !.pass = IF new THEN a.pass ELSE @,
                            !.box = IF a.box # live.box THEN a.box ELSE @]
    IN  Outcome(l, s, l # live)

\* The log level is not stored.
handleLO(a) == Outcome([live EXCEPT !.text = a.text], stored, FALSE)

\* Everything is given to the configuration of the gateway, and saved.
handleBL(a) ==
    LET l == [live EXCEPT !.box = a.box, !.text = a.text] IN Outcome(l, l, FALSE)

handleLA(a) ==
    LET l == [live EXCEPT !.box = a.box, !.text = a.text] IN Outcome(l, l, FALSE)

\* An invalid value is ignored; a page offers none.
handleRF(a) ==
    LET l == [live EXCEPT !.text = a.text] IN Outcome(l, l, FALSE)

handleCL(a) ==
    LET l == [live EXCEPT !.box = a.box] IN Outcome(l, l, FALSE)

Handle(a) ==
    CASE page = "wu" -> handleWU(a) [] page = "wi" -> handleWI(a)
      [] page = "mq" -> handleMQ(a) [] page = "cg" -> handleCG(a)
      [] page = "lo" -> handleLO(a) [] page = "bl" -> handleBL(a)
      [] page = "la" -> handleLA(a) [] page = "rf" -> handleRF(a)
      [] page = "cl" -> handleCL(a)

-----------------------------------------------------------------------------
Init ==
    /\ page \in Pages
    /\ live \in [box : BOOLEAN, text : Options, name : {First}, pass : Passwords]
    /\ stored = live /\ shown = live
    /\ form = NoForm /\ touched = FALSE /\ restarted = FALSE /\ inputs = 0

\* What the form shows: no password, and an option.
Prefilled(l) ==
    [l EXCEPT !.pass = "",
              !.text = IF page \in Lists /\ l.text \notin Options THEN First ELSE @]

\* The page is loaded, or shown again after it was saved.
Opened ==
    /\ form' = Prefilled(live)
    /\ shown' = live
    /\ touched' = FALSE /\ restarted' = FALSE
    /\ UNCHANGED <<page, live, stored, inputs>>

\* The user types, ticks, or chooses; other values than the list's cannot be chosen.
Edited(new) ==
    /\ form # NoForm /\ inputs < MaxInputs
    /\ page \in Lists => new.text \in Options
    /\ new # form
    /\ form' = new
    /\ touched' = TRUE
    /\ inputs' = inputs + 1
    /\ UNCHANGED <<page, live, stored, shown, restarted>>

\* And saves.
Submitted ==
    LET o == Handle(form)
    IN  /\ form # NoForm
        /\ live' = o.live /\ stored' = o.stored /\ restarted' = o.restarts
        /\ form' = NoForm
        /\ UNCHANGED <<page, shown, touched, inputs>>

\* A command changes the same configuration, and may save it.
Commanded(new, save) ==
    /\ inputs < MaxInputs
    /\ inputs' = inputs + 1
    /\ live' = new
    /\ stored' = IF save THEN new ELSE stored
    /\ restarted' = FALSE
    /\ UNCHANGED <<page, shown, form, touched>>

\* Restart from the main page, or by the power.
handleRoot ==
    /\ live' = stored
    /\ restarted' = TRUE
    /\ UNCHANGED <<page, stored, shown, form, touched, inputs>>

Next ==
    \/ Opened
    \/ \E new \in Values : Edited(new)
    \/ Submitted
    \/ \E new \in Values, save \in BOOLEAN : Commanded(new, save)
    \/ handleRoot

Spec == Init /\ [][Next]_formVars

-----------------------------------------------------------------------------
TypeOK ==
    /\ page \in Pages
    /\ live \in Values /\ stored \in Values /\ shown \in Values
    /\ form \in Values \cup {NoForm}
    /\ touched \in BOOLEAN /\ restarted \in BOOLEAN /\ inputs \in 0..MaxInputs

\* Saving a page as it was shown, nothing having changed since, changes nothing that
\* works and does not restart.  Not so for the pages of the network and the broker,
\* whose passwords are submitted empty, nor for a list that does not offer the value.
SavingUnchangedIsHarmless ==
    [][ /\ Submitted /\ ~touched /\ live = shown
        /\ page \notin {"wi", "mq"}
        /\ page \in Lists => live.text \in Options
        => live' = live /\ ~restarted' ]_formVars

\* Not so for the passwords: nor do the pages of the network and the broker restart
\* (739, 867, "No changes").
UnchangedDoesNotRestart ==
    [][Submitted /\ ~touched /\ live = shown => ~restarted']_formVars
=============================================================================
