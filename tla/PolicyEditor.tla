---------------------------- MODULE PolicyEditor ----------------------------
(***************************************************************************)
(* The policy editor of the dashboard,                                     *)
(* static/policy-editor/PolicyEditor.js, with the endpoints it calls       *)
(* (handlers/policies.rs: get, validate, create and update, each one step  *)
(* here; PolicyStore has their statements).                                *)
(*                                                                         *)
(* The browser runs one handler at a time, but every `await` of a handler  *)
(* lets the others run: a call is a handler that waits for an answer, and  *)
(* answers arrive in any order.  What a handler reads after an await is    *)
(* the editor's field at that moment.  There is one editor object; opening *)
(* it is possible only while the modal is hidden, everything else only     *)
(* while it is shown.  ghostYaml is left out: nothing reads it.            *)
(***************************************************************************)
EXTENDS PolicyLanguage

CONSTANTS
    PolicyNames,    \* names of policies
    Stored,         \* Stored[n]: the text of policy n at the start, or none
    Typed,          \* texts the user may leave in the YAML area
    TypedActions,   \* values the user may choose in the rule section
    Samples,        \* texts of the first policy that are only opened
    Slots,          \* handlers that may be waiting at one time
    MaxCalls,       \* bound: clicks that call the manager
    MaxEdits        \* bound: edits

\* The table holds what create and update have let in.
ASSUME EditorAssumption ==
    /\ DOMAIN Stored = PolicyNames
    /\ \A n \in PolicyNames : Stored[n] # None =>
          from_yaml(Stored[n][1]) # None /\ from_yaml(Stored[n][1])[1].name = n
    /\ MaxCalls \in Nat \ {0}
    /\ MaxEdits \in Nat

\* Every text is a document, accepted or not.
ASSUME TextsAssumption ==
    /\ \A n \in PolicyNames : Stored[n] # None => IsDocument(Stored[n][1])
    /\ \A t \in Typed \cup Samples : IsDocument(t)

VARIABLES
    policies,       \* the table `policies`: an optional text for every name
    editingName,    \* none for a new policy
    shown,          \* is the modal visible (and `validation` not null)?
    mode,           \* "form" or "yaml"
    formState,
    yamlText,
    timer,          \* is _previewTimer running?
    calls,          \* calls[c]: a handler waiting for an answer
    session,        \* how often the editor was closed (history variable)
    seen,           \* seen[c]: texts on display since Save c was clicked (history)
    started,        \* calls so far (for the bound)
    edits           \* edits so far (for the bound)

editorVars == <<editingName, shown, mode, formState, yamlText, timer, session>>
vars == <<policies, editorVars, calls, seen, started, edits>>

NoCall == [kind |-> "none", stage |-> "none", name |-> None, clicked |-> None,
           text |-> None, session |-> 0]

Stages == [none   |-> {"none"},
           open   |-> {"get", "got", "validate"},
           switch |-> {"validate", "confirm"},
           check  |-> {"validate"},
           save   |-> {"validate", "put", "stored", "refused"}]

OptionName == {None} \cup {Some(n) : n \in PolicyNames}

TypeOK ==
    /\ DOMAIN policies = PolicyNames
    /\ editingName \in OptionName
    /\ shown \in BOOLEAN /\ timer \in BOOLEAN
    /\ mode \in {"form", "yaml"}
    /\ timer => shown /\ mode = "form"
    /\ \A c \in Slots :
          /\ calls[c].stage \in Stages[calls[c].kind]
          /\ calls[c].name \in OptionName
          /\ calls[c].kind \in {"switch", "save", "check"} => calls[c].text # None
    /\ session \in 0 .. started
    /\ started \in 0 .. MaxCalls
    /\ edits \in 0 .. MaxEdits

Init ==
    /\ \/ policies = Stored /\ started = 0 /\ edits = 0
       \/ /\ \E n \in PolicyNames, t \in Samples :
                /\ from_yaml(t) # None /\ from_yaml(t)[1].name = n
                /\ policies = [Stored EXCEPT ![n] = Some(t)]
          /\ started = MaxCalls - 1 /\ edits = MaxEdits    \* bound: one call
    /\ editingName = None
    /\ shown = FALSE
    /\ mode = "form"
    /\ formState = defaultFormState
    /\ yamlText = formToYaml(defaultFormState)
    /\ timer = FALSE
    /\ calls = [c \in Slots |-> NoCall]
    /\ session = 0
    /\ seen = [c \in Slots |-> {}]

----------------------------------------------------------------------------
(* What the handlers share. *)

Begin(c, call) ==
    /\ calls[c] = NoCall
    /\ started < MaxCalls
    /\ started' = started + 1
    /\ calls' = [calls EXCEPT ![c] = call]

Await(c, kind, stage) == calls[c].kind = kind /\ calls[c].stage = stage

Goto(c, stage) == calls' = [calls EXCEPT ![c].stage = stage]

End(c) == calls' = [calls EXCEPT ![c] = NoCall]

\* _unmountBody and _mountMode: the preview timer is cleared, the fields of the
\* new mode show formState or yamlText.
Mount(m, form) ==
    /\ mode' = m
    /\ formState' = form
    /\ timer' = FALSE

\* Mutant: the preview timer survives the form.
CloseKeepsTimer ==
    /\ shown' = FALSE
    /\ editingName' = None
    /\ session' = session + 1
    /\ UNCHANGED <<mode, formState, yamlText, timer>>

\* close()
CloseEditor ==
    /\ shown' = FALSE
    /\ timer' = FALSE
    /\ editingName' = None
    /\ session' = session + 1
    /\ UNCHANGED <<mode, formState, yamlText>>

\* What the user sees, as a text.
Display == IF mode = "form" THEN formToYaml(formState) ELSE yamlText

----------------------------------------------------------------------------
(* open(name) *)

OpenNew ==
    /\ ~shown
    /\ started < MaxCalls   \* bound: counts as a click
    /\ started' = started + 1
    /\ editingName' = None
    /\ Mount("form", defaultFormState)
    /\ yamlText' = formToYaml(defaultFormState)
    /\ shown' = TRUE
    /\ UNCHANGED <<policies, session, calls, edits>>

Open(c, n) ==
    /\ ~shown
    /\ Begin(c, [NoCall EXCEPT !.kind = "open", !.stage = "get", !.name = Some(n)])
    /\ editingName' = Some(n)
    /\ UNCHANGED <<policies, shown, mode, formState, yamlText, timer, session, edits>>

\* GET /policies/{name} at the manager; no text is a 404 or a lost request.
Get(c) ==
    /\ Await(c, "open", "get")
    /\ \E answer \in {None, policies[calls[c].name[1]]} :
          calls' = [calls EXCEPT ![c].stage = "got", ![c].text = answer]
    /\ UNCHANGED <<policies, editorVars, started, edits>>

\* The answer: the text is taken and sent to validate; an error is a toast.
OpenGot(c) ==
    /\ Await(c, "open", "got")
    /\ \/ /\ calls[c].text # None
          /\ yamlText' = calls[c].text[1]
          /\ Goto(c, "validate")
       \/ /\ calls[c].text = None
          /\ UNCHANGED yamlText
          /\ End(c)
    /\ UNCHANGED <<policies, editingName, shown, mode, formState, timer, session, started, edits>>

\* The answer of validate: the modal is shown in the mode the policy allows.
OpenValidated(c) ==
    /\ Await(c, "open", "validate")
    /\ LET p == from_yaml(calls[c].text[1]) IN
       \/ /\ p # None
          /\ Mount(IF listUnsupported(p[1]) = {} THEN "form" ELSE "yaml",
                   parsedToFormState(p[1]))
       \/ Mount("yaml", defaultFormState)      \* invalid, or no answer
    /\ shown' = TRUE
    /\ End(c)
    /\ UNCHANGED <<policies, editingName, yamlText, session, started, edits>>

Close ==
    /\ shown
    /\ CloseEditor
    /\ UNCHANGED <<policies, calls, started, edits>>

----------------------------------------------------------------------------
(* Editing. *)

\* _handleFormChange: the text follows when the timer fires.
FormEdit ==
    /\ shown /\ mode = "form"
    /\ edits < MaxEdits
    /\ edits' = edits + 1
    /\ \/ \E a \in TypedActions : formState' = [formState EXCEPT !.rule.action = a]
       \/ \E n \in PolicyNames : formState' = [formState EXCEPT !.name = n]
       \/ formState' = [formState EXCEPT !.rule.name = "two words"]
    /\ formState' # formState
    /\ timer' = TRUE
    /\ UNCHANGED <<policies, editingName, shown, mode, yamlText, session, calls, started>>

PreviewTimer ==
    /\ timer
    /\ timer' = FALSE
    /\ yamlText' = formToYaml(formState)
    /\ UNCHANGED <<policies, editingName, shown, mode, formState, session, calls, started, edits>>

YamlEdit ==
    /\ shown /\ mode = "yaml"
    /\ edits < MaxEdits
    /\ edits' = edits + 1
    /\ yamlText' \in Typed
    /\ UNCHANGED <<policies, editingName, shown, mode, formState, timer, session, calls, started>>

----------------------------------------------------------------------------
(* _handleSwitch *)

SwitchToYaml ==
    /\ shown /\ mode = "form"
    /\ yamlText' = formToYaml(formState)
    /\ Mount("yaml", formState)
    /\ UNCHANGED <<policies, editingName, shown, session, calls, started, edits>>

SwitchToForm(c) ==
    /\ shown /\ mode = "yaml"
    /\ Begin(c, [NoCall EXCEPT !.kind = "switch", !.stage = "validate",
                               !.text = Some(yamlText)])
    /\ UNCHANGED <<policies, editorVars, edits>>

\* _performSwitch shows the parsed text, whatever was typed since.  In an
\* editor that was closed it runs all the same, up to a TypeError at the end.
PerformSwitch(c) ==
    /\ Mount("form", parsedToFormState(from_yaml(calls[c].text[1])[1]))
    /\ End(c)
    /\ UNCHANGED <<policies, editingName, shown, yamlText, session, started, edits>>

SwitchValidated(c) ==
    /\ Await(c, "switch", "validate")
    /\ from_yaml(calls[c].text[1]) # None
    /\ LET p == from_yaml(calls[c].text[1])[1] IN
       \/ listUnsupported(p) = {} /\ PerformSwitch(c)
       \/ /\ listUnsupported(p) # {}
          /\ Goto(c, "confirm")
          /\ UNCHANGED <<policies, editorVars, started, edits>>

\* The text is invalid, validate fails, or the user answers Cancel: nothing.
SwitchRefused(c) ==
    /\ calls[c].kind = "switch"
    /\ End(c)
    /\ UNCHANGED <<policies, editorVars, started, edits>>

SwitchConfirmed(c) ==
    /\ Await(c, "switch", "confirm")
    /\ PerformSwitch(c)

----------------------------------------------------------------------------
(* _validate and _save *)

\* Mutant: _validate trusts the text the preview timer left.
ValidateTimed(c, kind) ==
    /\ shown
    /\ Begin(c, [NoCall EXCEPT !.kind = kind, !.stage = "validate", !.text = Some(yamlText),
                               !.clicked = editingName, !.session = session])
    /\ UNCHANGED <<policies, editorVars, edits>>

\* A click on Validate or on Save: in form mode the text is generated anew.
Validate(c, kind) ==
    /\ shown
    /\ yamlText' = Display
    /\ Begin(c, [NoCall EXCEPT !.kind = kind, !.stage = "validate", !.text = Some(Display),
                               !.clicked = editingName, !.session = session])
    /\ UNCHANGED <<policies, editingName, shown, mode, formState, timer, session, edits>>

Validated(c) ==
    /\ Await(c, "check", "validate")
    /\ End(c)
    /\ UNCHANGED <<policies, editorVars, started, edits>>

\* The validated text was accepted: the request takes the name and the text
\* the editor has now.
SaveValidated(c) ==
    /\ Await(c, "save", "validate")
    /\ shown                    \* a closed editor has no panel: TypeError
    /\ from_yaml(calls[c].text[1]) # None
    /\ calls' = [calls EXCEPT ![c].stage = "put", ![c].name = editingName,
                              ![c].text = Some(yamlText)]
    /\ UNCHANGED <<policies, editorVars, started, edits>>

\* An invalid text, no answer, or the TypeError.
SaveInvalid(c) ==
    /\ Await(c, "save", "validate")
    /\ End(c)
    /\ UNCHANGED <<policies, editorVars, started, edits>>

\* Mutant: the update does not compare the name of the URL with the document's.
AcceptedAnyName(name, text) ==
    /\ from_yaml(text) # None
    /\ LET p == from_yaml(text)[1] IN
       IF name = None THEN p.name \in PolicyNames /\ policies[p.name] = None
       ELSE policies[name[1]] # None

\* Mutant: the text was validated a moment ago, so it is only parsed.
AcceptedParsed(name, text) ==
    /\ Parses(text)
    /\ LET p == ReadPolicy(text) IN
       IF name = None THEN p.name \in PolicyNames /\ policies[p.name] = None
       ELSE p.name = name[1] /\ policies[p.name] # None

\* create and update: does the manager take the document?
Accepted(name, text) ==
    /\ from_yaml(text) # None
    /\ LET p == from_yaml(text)[1] IN
       IF name = None THEN p.name \in PolicyNames /\ policies[p.name] = None
       ELSE p.name = name[1] /\ policies[p.name] # None

\* POST or PUT at the manager; the answer may be lost after the write.
Put(c) ==
    /\ Await(c, "save", "put")
    /\ LET text == calls[c].text[1]
           target == IF calls[c].name = None THEN ReadPolicy(text).name ELSE calls[c].name[1]
       IN \/ /\ Accepted(calls[c].name, text)
             /\ policies' = [policies EXCEPT ![target] = Some(text)]
             /\ Goto(c, "stored") \/ Goto(c, "refused")
          \/ UNCHANGED policies /\ Goto(c, "refused")
    /\ UNCHANGED <<editorVars, started, edits>>

\* The answer: success closes whatever the editor shows by now.
Saved(c) ==
    /\ Await(c, "save", "stored")
    /\ CloseEditor
    /\ End(c)
    /\ UNCHANGED <<policies, started, edits>>

SaveRefused(c) ==
    /\ Await(c, "save", "refused")
    /\ End(c)
    /\ UNCHANGED <<policies, editorVars, started, edits>>

\* Another administrator deletes a policy.
DeletedElsewhere(n) ==
    /\ policies[n] # None
    /\ policies' = [policies EXCEPT ![n] = None]
    /\ UNCHANGED <<editorVars, calls, started, edits>>

----------------------------------------------------------------------------
\* History: the texts displayed, or fetched by an open, since Save was clicked.
Observe ==
    LET Fetched == {calls[o].text[1] : o \in {d \in Slots : Await(d, "open", "got")
                                                           /\ calls[d].text # None}}
    IN seen' = [c \in Slots |-> IF calls'[c].kind = "save"
                                THEN seen[c] \cup {Display'} \cup Fetched ELSE {}]

CallStep(c) ==
    \/ \E n \in PolicyNames : Open(c, n)
    \/ Get(c) \/ OpenGot(c) \/ OpenValidated(c)
    \/ SwitchToForm(c) \/ SwitchValidated(c) \/ SwitchRefused(c) \/ SwitchConfirmed(c)
    \/ Validate(c, "check") \/ Validate(c, "save")
    \/ Validated(c) \/ SaveValidated(c) \/ SaveInvalid(c)
    \/ Put(c) \/ Saved(c) \/ SaveRefused(c)

Next ==
    /\ \/ \E c \in Slots : CallStep(c)
       \/ OpenNew \/ Close \/ FormEdit \/ PreviewTimer \/ YamlEdit \/ SwitchToYaml
       \/ \E n \in PolicyNames : DeletedElsewhere(n)
    /\ Observe

Spec == Init /\ [][Next]_vars

----------------------------------------------------------------------------
(* Properties. *)

\* Whatever two loads answer in whatever order, and whatever is typed between
\* the click on Save and the request, no policy is overwritten with the
\* document of another one (update, policies.rs:366).
NamesMatch ==
    \A n \in PolicyNames :
        policies[n] # None => ReadPolicy(policies[n][1]).name = n

\* A text edited while its predecessor was being validated is not stored
\* unvalidated: every stored text is one Policy::from_yaml accepts.
StoredIsValid ==
    \A n \in PolicyNames : policies[n] # None => from_yaml(policies[n][1]) # None

\* Save sends what the user sees: unless the editor was closed after the click,
\* the request names the policy that was open and carries a text that was on
\* display, or was being loaded, at the click or since; in form mode never one
\* the preview timer had not caught up with.
SavedWasShown ==
    \A c \in Slots :
        calls[c].kind = "save" /\ calls[c].stage # "validate" /\ calls[c].session = session
        => calls[c].name = calls[c].clicked /\ calls[c].text[1] \in seen[c]

\* The policy n of the table, and that the form shows it as it was loaded.
Loaded(n) == ReadPolicy(policies[n][1])
ShownAsLoaded(n) ==
    /\ shown /\ mode = "form" /\ editingName = Some(n)
    /\ policies[n] # None
    /\ listUnsupported(Loaded(n)) = {}
    /\ formState = parsedToFormState(Loaded(n))

\* A form that shows a policy as it was loaded: Save keeps the policy, except
\* those of FormForgets, which listUnsupported calls form-friendly and Save
\* changes or the manager refuses: a rule that is disabled, unnamed or missing,
\* a version, an empty list that serde requires, a list with a bare number,
\* boolean or null, a null text, a lone dash after a key, a line break or a
\* control character in any text, a size that JavaScript prints as another.
FormKeepsExactly ==
    \A n \in PolicyNames :
        ShownAsLoaded(n) =>
            ((from_yaml(Display) = Some(Loaded(n))) <=> ~FormForgets(Loaded(n)))
=============================================================================
