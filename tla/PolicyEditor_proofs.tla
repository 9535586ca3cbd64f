------------------------ MODULE PolicyEditor_proofs ------------------------
(***************************************************************************)
(* Proofs about PolicyEditor, for any policies, texts and samples, any     *)
(* number of handlers, calls and edits.  The theorems about what is stored *)
(* use the codecs as they are; FormKeeps looks into them: RoundTrip is     *)
(* what writing a policy's form and reading it again makes of the policy.  *)
(***************************************************************************)
EXTENDS PolicyEditor, FiniteSetTheorems, WellFoundedInduction, TLAPS

\* The waiting handlers are records of one shape; a save knows the session it
\* was clicked in, and sessions are only ever closed.
CallFields == {"kind", "stage", "name", "clicked", "text", "session"}

CallsOK ==
    /\ calls = [c \in Slots |-> calls[c]]
    /\ \A c \in Slots :
          /\ DOMAIN calls[c] = CallFields
          /\ calls[c].kind \in DOMAIN Stages
          /\ calls[c].session \in Nat /\ calls[c].session <= session

\* Every editor that is closed was opened, by a call that started.
Opening == {c \in Slots : calls[c].kind \in {"open", "save"}}

SessionsCounted ==
    /\ IsFiniteSet(Opening)
    /\ session + (IF shown THEN 1 ELSE 0) + Cardinality(Opening) <= started

\* A save whose session lasts has its editor shown, under the name it was
\* clicked for, and the text it will take was on display or fetched since.
SavesFollow ==
    /\ seen = [c \in Slots |-> seen[c]]
    /\ \A c \in Slots : calls[c].kind = "save" =>
          /\ yamlText \in seen[c]
          /\ calls[c].session = session => shown /\ editingName = calls[c].clicked

EdInv ==
    /\ TypeOK
    /\ CallsOK
    /\ SessionsCounted
    /\ SavesFollow
    /\ SavedWasShown
    /\ NamesMatch
    /\ StoredIsValid

----------------------------------------------------------------------------
(* The waiting handlers. *)

\* What a well-formed handler is, by itself.
CallOK(call, s) ==
    /\ DOMAIN call = CallFields
    /\ call.kind \in DOMAIN Stages
    /\ call.stage \in Stages[call.kind]
    /\ call.name \in OptionName
    /\ call.kind \in {"switch", "save", "check"} => call.text # None
    /\ call.session \in Nat /\ call.session <= s

\* A handler that begins, ends or moves on replaces its record.
LEMMA CallUpdate ==
  ASSUME CallsOK, NEW c \in Slots, NEW r, calls' = [calls EXCEPT ![c] = r]
  PROVE  /\ calls'[c] = r
         /\ \A d \in Slots : d # c => calls'[d] = calls[d]
         /\ calls' = [d \in Slots |-> calls'[d]]
  BY DEF CallsOK

LEMMA NoCallOK ==
  ASSUME NEW s \in Nat
  PROVE  CallOK(NoCall, s)
  BY DEF CallOK, NoCall, CallFields, Stages, OptionName, None

\* What one step of a handler makes of its record and leaves of the editor.
LEMMA CallEffect ==
  ASSUME TypeOK, CallsOK, session \in Nat, NEW c \in Slots, CallStep(c)
  PROVE  /\ \A d \in Slots : d # c => calls'[d] = calls[d]
         /\ calls' = [d \in Slots |-> calls'[d]]
         /\ CallOK(calls'[c], session')
         /\ session' \in Nat /\ session <= session'
<1>1. CallOK(calls[c], session)
  BY DEF TypeOK, CallsOK, CallOK
<1>2. ASSUME NEW r, calls' = [calls EXCEPT ![c] = r], CallOK(r, session'),
             session' = session \/ session' = session + 1
      PROVE  /\ \A d \in Slots : d # c => calls'[d] = calls[d]
             /\ calls' = [d \in Slots |-> calls'[d]]
             /\ CallOK(calls'[c], session')
             /\ session' \in Nat /\ session <= session'
  <2>1. /\ calls'[c] = r
        /\ \A d \in Slots : d # c => calls'[d] = calls[d]
        /\ calls' = [d \in Slots |-> calls'[d]]
    BY <1>2, CallUpdate
  <2>2. session' \in Nat /\ session <= session'
    BY <1>2
  <2> QED
    BY <1>2, <2>1, <2>2
<1>3. ASSUME End(c), session' = session \/ session' = session + 1
      PROVE  /\ \A d \in Slots : d # c => calls'[d] = calls[d]
             /\ calls' = [d \in Slots |-> calls'[d]]
             /\ CallOK(calls'[c], session')
             /\ session' \in Nat /\ session <= session'
  <2>1. CallOK(NoCall, session')
    BY <1>3, NoCallOK
  <2> QED
    BY <1>2, <1>3, <2>1 DEF End
<1>4. ASSUME NEW st, Goto(c, st), st \in Stages[calls[c].kind], session' = session
      PROVE  /\ \A d \in Slots : d # c => calls'[d] = calls[d]
             /\ calls' = [d \in Slots |-> calls'[d]]
             /\ CallOK(calls'[c], session')
             /\ session' \in Nat /\ session <= session'
  <2> DEFINE r == [calls[c] EXCEPT !.stage = st]
  <2>1. calls' = [calls EXCEPT ![c] = r]
    BY <1>4 DEF Goto, CallsOK
  <2>2. CallOK(r, session')
    BY <1>1, <1>4 DEF CallOK, CallFields
  <2> QED
    BY <1>2, <1>4, <2>1, <2>2
<1>5. ASSUME NEW n \in PolicyNames, Open(c, n)
      PROVE  /\ \A d \in Slots : d # c => calls'[d] = calls[d]
             /\ calls' = [d \in Slots |-> calls'[d]]
             /\ CallOK(calls'[c], session')
             /\ session' \in Nat /\ session <= session'
  <2> DEFINE r == [NoCall EXCEPT !.kind = "open", !.stage = "get", !.name = Some(n)]
  <2>1. calls' = [calls EXCEPT ![c] = r] /\ session' = session
    BY <1>5 DEF Open, Begin
  <2>2. CallOK(r, session')
    BY <2>1 DEF CallOK, NoCall, CallFields, Stages, OptionName
  <2> QED
    BY <1>2, <2>1, <2>2
<1>6. CASE Get(c)
  <2>1. PICK answer : calls' = [calls EXCEPT ![c].stage = "got", ![c].text = answer]
    BY <1>6 DEF Get
  <2> DEFINE r == [calls[c] EXCEPT !.stage = "got", !.text = answer]
  <2>2. calls' = [calls EXCEPT ![c] = r] /\ session' = session
    BY <1>6, <2>1 DEF Get, CallsOK, editorVars
  <2>3. CallOK(r, session')
    BY <1>1, <1>6, <2>2 DEF Get, Await, CallOK, CallFields, Stages
  <2> QED
    BY <1>2, <2>2, <2>3
<1>7. CASE OpenGot(c)
  BY <1>3, <1>4, <1>7 DEF OpenGot, Await, Stages
<1>8. CASE OpenValidated(c)
  BY <1>3, <1>8 DEF OpenValidated
<1>9. CASE SwitchToForm(c)
  <2> DEFINE r == [NoCall EXCEPT !.kind = "switch", !.stage = "validate", !.text = Some(yamlText)]
  <2>1. calls' = [calls EXCEPT ![c] = r] /\ session' = session
    BY <1>9 DEF SwitchToForm, Begin, editorVars
  <2>2. CallOK(r, session')
    BY <2>1 DEF CallOK, NoCall, CallFields, Stages, OptionName, Some, None
  <2> QED
    BY <1>2, <2>1, <2>2
<1>10. CASE SwitchValidated(c)
  <2>1. calls[c].kind = "switch"
    BY <1>10 DEF SwitchValidated, Await
  <2>2. CASE PerformSwitch(c)
    BY <1>3, <2>2 DEF PerformSwitch
  <2>3. CASE Goto(c, "confirm") /\ UNCHANGED editorVars
    BY <1>4, <2>1, <2>3 DEF Stages, editorVars
  <2> QED
    BY <1>10, <2>2, <2>3 DEF SwitchValidated
<1>11. CASE SwitchRefused(c) \/ Validated(c) \/ SaveInvalid(c) \/ SaveRefused(c)
  BY <1>3, <1>11 DEF SwitchRefused, Validated, SaveInvalid, SaveRefused, editorVars
<1>12. CASE SwitchConfirmed(c)
  BY <1>3, <1>12 DEF SwitchConfirmed, PerformSwitch
<1>13. ASSUME NEW kind \in {"check", "save"}, Validate(c, kind)
       PROVE  /\ \A d \in Slots : d # c => calls'[d] = calls[d]
              /\ calls' = [d \in Slots |-> calls'[d]]
              /\ CallOK(calls'[c], session')
              /\ session' \in Nat /\ session <= session'
  <2> DEFINE r == [NoCall EXCEPT !.kind = kind, !.stage = "validate", !.text = Some(Display),
                                 !.clicked = editingName, !.session = session]
  <2>1. calls' = [calls EXCEPT ![c] = r] /\ session' = session
    BY <1>13 DEF Validate, Begin
  <2>2. CallOK(r, session')
    BY <2>1 DEF CallOK, NoCall, CallFields, Stages, OptionName, Some, None
  <2> QED
    BY <1>2, <2>1, <2>2
<1>14. CASE SaveValidated(c)
  <2> DEFINE r == [calls[c] EXCEPT !.stage = "put", !.name = editingName, !.text = Some(yamlText)]
  <2>1. calls' = [calls EXCEPT ![c] = r] /\ session' = session
    BY <1>14 DEF SaveValidated, CallsOK, editorVars
  <2>2. CallOK(r, session')
    BY <1>1, <1>14, <2>1
    DEF SaveValidated, Await, TypeOK, CallOK, CallFields, Stages, Some, None
  <2> QED
    BY <1>2, <2>1, <2>2
<1>15. CASE Put(c)
  <2>1. Goto(c, "stored") \/ Goto(c, "refused")
    BY <1>15 DEF Put
  <2> QED
    BY <1>4, <1>15, <2>1 DEF Put, Await, Stages, editorVars
<1>16. CASE Saved(c)
  BY <1>3, <1>16 DEF Saved, CloseEditor
<1> QED
  BY <1>5, <1>6, <1>7, <1>8, <1>9, <1>10, <1>11, <1>12, <1>13, <1>14, <1>15, <1>16 DEF CallStep

\* The steps that concern no handler.
UserStep ==
    \/ OpenNew \/ Close \/ FormEdit \/ PreviewTimer \/ YamlEdit \/ SwitchToYaml
    \/ \E n \in PolicyNames : DeletedElsewhere(n)

LEMMA UserEffect ==
  ASSUME session \in Nat, UserStep
  PROVE  /\ calls' = calls
         /\ session' = session \/ session' = session + 1
         /\ session' \in Nat /\ session <= session'
<1>1. calls' = calls /\ (session' = session \/ session' = session + 1)
  BY DEF UserStep, OpenNew, Close, CloseEditor, FormEdit, PreviewTimer, YamlEdit, SwitchToYaml,
         DeletedElsewhere, editorVars
<1> QED
  BY <1>1

LEMMA CallsOKStep ==
  ASSUME TypeOK, CallsOK, [Next]_vars
  PROVE  /\ CallsOK'
         /\ session <= session' /\ session' \in Nat
         /\ \A c \in Slots : CallOK(calls'[c], session')
<1>1. /\ session \in Nat
      /\ \A c \in Slots : CallOK(calls[c], session)
  BY DEF TypeOK, CallsOK, CallOK
<1>2. CASE UNCHANGED vars
  BY <1>1, <1>2 DEF vars, editorVars, CallsOK
<1>3. CASE UserStep
  <2>1. /\ calls' = calls /\ session' \in Nat /\ session <= session'
    BY <1>1, <1>3, UserEffect
  <2>2. \A c \in Slots : CallOK(calls'[c], session')
    BY <1>1, <2>1 DEF CallOK
  <2> QED
    BY <2>1, <2>2 DEF CallsOK, CallOK
<1>4. ASSUME NEW c \in Slots, CallStep(c)
      PROVE  /\ CallsOK'
             /\ session <= session' /\ session' \in Nat
             /\ \A d \in Slots : CallOK(calls'[d], session')
  <2>1. /\ \A d \in Slots : d # c => calls'[d] = calls[d]
        /\ calls' = [d \in Slots |-> calls'[d]]
        /\ CallOK(calls'[c], session')
        /\ session' \in Nat /\ session <= session'
    BY <1>1, <1>4, CallEffect
  <2>2. \A d \in Slots : CallOK(calls'[d], session')
    BY <1>1, <2>1 DEF CallOK
  <2> QED
    BY <2>1, <2>2 DEF CallsOK, CallOK
<1> QED
  BY <1>2, <1>3, <1>4 DEF Next, UserStep

----------------------------------------------------------------------------
(* Types. *)

\* All of TypeOK but the bound of `session`, which SessionsCounted gives.
LEMMA TypesStep ==
  ASSUME TypeOK, CallsOK, [Next]_vars
  PROVE  /\ DOMAIN policies' = PolicyNames
         /\ editingName' \in OptionName
         /\ shown' \in BOOLEAN /\ timer' \in BOOLEAN
         /\ mode' \in {"form", "yaml"}
         /\ timer' => shown' /\ mode' = "form"
         /\ started' \in 0 .. MaxCalls /\ started <= started'
         /\ edits' \in 0 .. MaxEdits
<1> USE EditorAssumption DEF TypeOK
<1>1. DOMAIN policies' = PolicyNames
  BY DEF Next, vars, editorVars, CallStep, Open, Get, OpenGot, OpenValidated, SwitchToForm,
         SwitchValidated, PerformSwitch, SwitchRefused, SwitchConfirmed, Validate, Validated,
         SaveValidated, SaveInvalid, Put, Saved, SaveRefused, OpenNew, Close, FormEdit,
         PreviewTimer, YamlEdit, SwitchToYaml, DeletedElsewhere
<1>2. editingName' \in OptionName
  BY DEF Next, vars, editorVars, CallStep, Open, Get, OpenGot, OpenValidated, SwitchToForm,
         SwitchValidated, PerformSwitch, SwitchRefused, SwitchConfirmed, Validate, Validated,
         SaveValidated, SaveInvalid, Put, Saved, SaveRefused, OpenNew, Close, CloseEditor, FormEdit,
         PreviewTimer, YamlEdit, SwitchToYaml, DeletedElsewhere, OptionName
<1>3. /\ shown' \in BOOLEAN /\ timer' \in BOOLEAN
      /\ mode' \in {"form", "yaml"}
      /\ timer' => shown' /\ mode' = "form"
  <2>1. CASE UNCHANGED vars
    BY <2>1 DEF vars, editorVars
  <2>2. CASE UserStep
    <3>1. CASE OpenNew
      BY <3>1 DEF OpenNew, Mount
    <3>2. CASE Close
      BY <3>2 DEF Close, CloseEditor
    <3>3. CASE FormEdit
      BY <3>3 DEF FormEdit
    <3>4. CASE PreviewTimer
      BY <3>4 DEF PreviewTimer
    <3>5. CASE YamlEdit
      BY <3>5 DEF YamlEdit
    <3>6. CASE SwitchToYaml
      BY <3>6 DEF SwitchToYaml, Mount
    <3>7. CASE \E n \in PolicyNames : DeletedElsewhere(n)
      BY <3>7 DEF DeletedElsewhere, editorVars
    <3> QED
      BY <2>2, <3>1, <3>2, <3>3, <3>4, <3>5, <3>6, <3>7 DEF UserStep
  <2>3. ASSUME NEW c \in Slots, CallStep(c)
        PROVE  /\ shown' \in BOOLEAN /\ timer' \in BOOLEAN
               /\ mode' \in {"form", "yaml"}
               /\ timer' => shown' /\ mode' = "form"
    <3>1. CASE OpenValidated(c)
      BY <3>1 DEF OpenValidated, Mount
    <3>2. CASE SwitchValidated(c) \/ SwitchConfirmed(c)
      <4>1. CASE PerformSwitch(c)
        BY <4>1 DEF PerformSwitch, Mount
      <4>2. CASE UNCHANGED editorVars
        BY <4>2 DEF editorVars
      <4> QED
        BY <3>2, <4>1, <4>2 DEF SwitchValidated, SwitchConfirmed
    <3>3. CASE Saved(c)
      BY <3>3 DEF Saved, CloseEditor
    <3>4. CASE \/ \E n \in PolicyNames : Open(c, n)
               \/ Get(c) \/ OpenGot(c) \/ SwitchToForm(c) \/ SwitchRefused(c)
               \/ Validate(c, "check") \/ Validate(c, "save")
               \/ Validated(c) \/ SaveValidated(c) \/ SaveInvalid(c)
               \/ Put(c) \/ SaveRefused(c)
      <4>1. UNCHANGED <<shown, timer, mode>>
        BY <3>4 DEF Open, Get, OpenGot, SwitchToForm, SwitchRefused, Validate, Validated,
                    SaveValidated, SaveInvalid, Put, SaveRefused, editorVars
      <4> QED
        BY <4>1
    <3> QED
      BY <2>3, <3>1, <3>2, <3>3, <3>4 DEF CallStep
  <2> QED
    BY <2>1, <2>2, <2>3 DEF Next, UserStep
<1>4. started' = started \/ (started < MaxCalls /\ started' = started + 1)
  BY DEF Next, vars, CallStep, Open, Get, OpenGot, OpenValidated, SwitchToForm,
         SwitchValidated, PerformSwitch, SwitchRefused, SwitchConfirmed, Validate, Validated,
         SaveValidated, SaveInvalid, Put, Saved, SaveRefused, OpenNew, Close, FormEdit,
         PreviewTimer, YamlEdit, SwitchToYaml, DeletedElsewhere, Begin
<1>5. edits' = edits \/ (edits < MaxEdits /\ edits' = edits + 1)
  BY DEF Next, vars, CallStep, Open, Get, OpenGot, OpenValidated, SwitchToForm,
         SwitchValidated, PerformSwitch, SwitchRefused, SwitchConfirmed, Validate, Validated,
         SaveValidated, SaveInvalid, Put, Saved, SaveRefused, OpenNew, Close, FormEdit,
         PreviewTimer, YamlEdit, SwitchToYaml, DeletedElsewhere
<1>6. started' \in 0 .. MaxCalls /\ started <= started' /\ edits' \in 0 .. MaxEdits
  BY <1>4, <1>5
<1> QED
  BY <1>1, <1>2, <1>3, <1>6

----------------------------------------------------------------------------
(* What a save takes. *)

\* The text of the YAML area is on display, was before, or is one an open has
\* fetched.
LEMMA YamlWasSeen ==
  ASSUME TypeOK, CallsOK, [Next]_vars
  PROVE  \/ yamlText' = yamlText
         \/ yamlText' = Display'
         \/ \E o \in Slots : /\ Await(o, "open", "got") /\ calls[o].text # None
                             /\ yamlText' = calls[o].text[1]
<1>1. CASE UNCHANGED vars
  BY <1>1 DEF vars, editorVars
<1>2. CASE UserStep
  <2>1. CASE OpenNew
    BY <2>1 DEF OpenNew, Mount, Display
  <2>2. CASE Close
    BY <2>2 DEF Close, CloseEditor
  <2>3. CASE FormEdit
    BY <2>3 DEF FormEdit
  <2>4. CASE PreviewTimer
    BY <2>4 DEF PreviewTimer, TypeOK, Display
  <2>5. CASE YamlEdit
    BY <2>5 DEF YamlEdit, Display
  <2>6. CASE SwitchToYaml
    BY <2>6 DEF SwitchToYaml, Mount, Display
  <2>7. ASSUME NEW n \in PolicyNames, DeletedElsewhere(n)
        PROVE  yamlText' = yamlText
    BY <2>7 DEF DeletedElsewhere, editorVars
  <2> QED
    BY <1>2, <2>1, <2>2, <2>3, <2>4, <2>5, <2>6, <2>7 DEF UserStep
<1>3. ASSUME NEW c \in Slots, CallStep(c)
      PROVE  \/ yamlText' = yamlText
             \/ yamlText' = Display'
             \/ /\ Await(c, "open", "got") /\ calls[c].text # None
                /\ yamlText' = calls[c].text[1]
  <2>1. CASE OpenGot(c)
    BY <2>1 DEF OpenGot
  <2>2. ASSUME NEW kind \in {"check", "save"}, Validate(c, kind)
        PROVE  yamlText' = Display'
    BY <2>2 DEF Validate, Display
  <2>3. CASE \/ \E n \in PolicyNames : Open(c, n)
             \/ Get(c) \/ OpenValidated(c)
             \/ SwitchToForm(c) \/ SwitchValidated(c) \/ SwitchRefused(c) \/ SwitchConfirmed(c)
             \/ Validated(c) \/ SaveValidated(c) \/ SaveInvalid(c)
             \/ Put(c) \/ Saved(c) \/ SaveRefused(c)
    BY <2>3 DEF Open, Get, OpenValidated, SwitchToForm, SwitchValidated, PerformSwitch,
                SwitchRefused, SwitchConfirmed, Validated, SaveValidated, SaveInvalid, Put, Saved,
                SaveRefused, CloseEditor, editorVars
  <2> QED
    BY <1>3, <2>1, <2>2, <2>3 DEF CallStep
<1> QED
  BY <1>1, <1>2, <1>3 DEF Next, UserStep

\* As long as the session lasts, a shown editor stays shown, under its name.
LEMMA SessionLasts ==
  ASSUME TypeOK, [Next]_vars, session' = session, shown
  PROVE  shown' /\ editingName' = editingName
<1>1. session # session + 1
  BY DEF TypeOK
<1>2. CASE UNCHANGED vars
  BY <1>2 DEF vars, editorVars
<1>3. CASE UserStep
  BY <1>1, <1>3 DEF UserStep, OpenNew, Close, CloseEditor, FormEdit, PreviewTimer, YamlEdit,
                    SwitchToYaml, DeletedElsewhere, editorVars
<1>4. ASSUME NEW c \in Slots, CallStep(c)
      PROVE  shown' /\ editingName' = editingName
  BY <1>1, <1>4
  DEF CallStep, Open, Get, OpenGot, OpenValidated, SwitchToForm, SwitchValidated, PerformSwitch,
      SwitchRefused, SwitchConfirmed, Validate, Validated, SaveValidated, SaveInvalid, Put, Saved,
      SaveRefused, CloseEditor, editorVars
<1> QED
  BY <1>2, <1>3, <1>4 DEF Next, UserStep

\* Where a save comes from: a click, or the same save before, which keeps what
\* it was clicked for and takes its name and text in SaveValidated only.
Clicked(c) ==
    /\ shown /\ shown' /\ editingName' = editingName /\ session' = session
    /\ calls'[c].stage = "validate"
    /\ calls'[c].clicked = editingName /\ calls'[c].session = session
    /\ yamlText' = Display'

Continued(c) ==
    /\ calls[c].kind = "save"
    /\ calls'[c].session = calls[c].session
    /\ calls'[c].clicked = calls[c].clicked
    /\ \/ calls'[c].stage = "validate"
       \/ calls'[c].name = editingName /\ calls'[c].text = Some(yamlText)
       \/ /\ calls[c].stage # "validate"
          /\ calls'[c].name = calls[c].name /\ calls'[c].text = calls[c].text

LEMMA SaveOrigin ==
  ASSUME TypeOK, CallsOK, [Next]_vars, NEW c \in Slots, calls'[c].kind = "save"
  PROVE  Clicked(c) \/ Continued(c)
<1>1. ASSUME calls'[c] = calls[c]
      PROVE  Continued(c)
  BY <1>1 DEF Continued
<1>2. CASE UNCHANGED vars
  BY <1>1, <1>2 DEF vars
<1>3. CASE UserStep
  BY <1>1, <1>3, UserEffect DEF TypeOK
<1>4. ASSUME NEW d \in Slots, CallStep(d), d # c
      PROVE  Continued(c)
  <2>1. session \in Nat
    BY DEF TypeOK
  <2> QED
    BY <1>1, <1>4, <2>1, CallEffect
<1>5. CASE CallStep(c)
  <2>1. ~End(c)
    BY CallUpdate DEF End, NoCall
  <2>2. ASSUME NEW kind \in {"check", "save"}, Validate(c, kind)
        PROVE  Clicked(c)
    <3> DEFINE r == [NoCall EXCEPT !.kind = kind, !.stage = "validate", !.text = Some(Display),
                                   !.clicked = editingName, !.session = session]
    <3>1. calls' = [calls EXCEPT ![c] = r]
      BY <2>2 DEF Validate, Begin
    <3>2. calls'[c] = r
      BY <3>1, CallUpdate
    <3> QED
      BY <2>2, <3>2 DEF Validate, Clicked, NoCall, Display
  <2>3. CASE SaveValidated(c)
    <3> DEFINE r == [calls[c] EXCEPT !.stage = "put", !.name = editingName,
                                     !.text = Some(yamlText)]
    <3>1. calls' = [calls EXCEPT ![c] = r]
      BY <2>3 DEF SaveValidated, CallsOK
    <3>2. calls'[c] = r
      BY <3>1, CallUpdate
    <3> QED
      BY <2>3, <3>2 DEF SaveValidated, Await, Continued, CallsOK, CallFields
  <2>4. CASE Put(c)
    <3>1. PICK st \in {"stored", "refused"} : Goto(c, st)
      BY <2>4 DEF Put
    <3> DEFINE r == [calls[c] EXCEPT !.stage = st]
    <3>2. calls' = [calls EXCEPT ![c] = r]
      BY <3>1 DEF Goto, CallsOK
    <3>3. calls'[c] = r
      BY <3>2, CallUpdate
    <3> QED
      BY <2>4, <3>3 DEF Put, Await, Continued, CallsOK, CallFields
  <2>5. ASSUME NEW st, Goto(c, st), calls[c].kind # "save"
        PROVE  FALSE
    <3> DEFINE r == [calls[c] EXCEPT !.stage = st]
    <3>1. calls' = [calls EXCEPT ![c] = r]
      BY <2>5 DEF Goto, CallsOK
    <3>2. calls'[c] = r
      BY <3>1, CallUpdate
    <3> QED
      BY <2>5, <3>2 DEF CallsOK, CallFields
  <2>6. CASE Get(c)
    <3>1. PICK answer : calls' = [calls EXCEPT ![c].stage = "got", ![c].text = answer]
      BY <2>6 DEF Get
    <3> DEFINE r == [calls[c] EXCEPT !.stage = "got", !.text = answer]
    <3>2. calls' = [calls EXCEPT ![c] = r]
      BY <3>1 DEF CallsOK
    <3>3. calls'[c] = r
      BY <3>2, CallUpdate
    <3> QED
      BY <2>6, <3>3 DEF Get, Await, CallsOK, CallFields
  <2>7. ASSUME NEW n \in PolicyNames, Open(c, n)
        PROVE  FALSE
    <3> DEFINE r == [NoCall EXCEPT !.kind = "open", !.stage = "get", !.name = Some(n)]
    <3>1. calls'[c] = r
      BY <2>7, CallUpdate DEF Open, Begin
    <3> QED
      BY <3>1 DEF NoCall
  <2>8. CASE SwitchToForm(c)
    <3> DEFINE r == [NoCall EXCEPT !.kind = "switch", !.stage = "validate",
                                   !.text = Some(yamlText)]
    <3>1. calls'[c] = r
      BY <2>8, CallUpdate DEF SwitchToForm, Begin
    <3> QED
      BY <3>1 DEF NoCall
  <2>9. CASE OpenGot(c) \/ SwitchValidated(c)
    BY <2>1, <2>5, <2>9 DEF OpenGot, SwitchValidated, PerformSwitch, Await
  <2>10. CASE \/ OpenValidated(c) \/ SwitchRefused(c) \/ SwitchConfirmed(c)
              \/ Validated(c) \/ SaveInvalid(c) \/ Saved(c) \/ SaveRefused(c)
    BY <2>1, <2>10 DEF OpenValidated, SwitchRefused, SwitchConfirmed, PerformSwitch, Validated,
                       SaveInvalid, Saved, SaveRefused
  <2> QED
    BY <1>5, <2>2, <2>3, <2>4, <2>6, <2>7, <2>8, <2>9, <2>10 DEF CallStep
<1> QED
  BY <1>2, <1>3, <1>4, <1>5 DEF Next, UserStep

\* The text a save takes, and what it has seen, go together.
LEMMA SavesFollowStep ==
  ASSUME TypeOK, CallsOK, SavesFollow, SavedWasShown, Next
  PROVE  SavesFollow' /\ SavedWasShown'
<1> DEFINE Seen == {calls[o].text[1] : o \in {d \in Slots : Await(d, "open", "got")
                                                        /\ calls[d].text # None}}
<1>1. /\ seen' = [c \in Slots |-> IF calls'[c].kind = "save"
                                  THEN seen[c] \cup {Display'} \cup Seen ELSE {}]
  BY DEF Next, Observe
<1>2. \A c \in Slots : calls'[c].kind = "save" =>
         seen[c] \subseteq seen'[c] /\ Display' \in seen'[c] /\ Seen \subseteq seen'[c]
  BY <1>1
<1>3. seen' = [c \in Slots |-> seen'[c]]
  BY <1>1
<1>4. yamlText' = yamlText \/ yamlText' = Display' \/ yamlText' \in Seen
  BY YamlWasSeen
<1>5. session \in Nat /\ session' \in Nat /\ session <= session'
  BY CallsOKStep DEF TypeOK
<1>6. ASSUME NEW c \in Slots, calls'[c].kind = "save"
      PROVE  /\ yamlText' \in seen'[c]
             /\ calls'[c].session = session' => shown' /\ editingName' = calls'[c].clicked
             /\ calls'[c].stage # "validate" /\ calls'[c].session = session'
                  => calls'[c].name = calls'[c].clicked /\ calls'[c].text[1] \in seen'[c]
  <2>1. CASE Clicked(c)
    BY <1>2, <1>6, <2>1 DEF Clicked
  <2>2. CASE Continued(c)
    <3>1. /\ calls[c].kind = "save"
          /\ calls'[c].session = calls[c].session
          /\ calls'[c].clicked = calls[c].clicked
          /\ calls[c].session \in Nat /\ calls[c].session <= session
          /\ yamlText \in seen[c]
      BY <2>2 DEF Continued, CallsOK, SavesFollow
    <3>2. yamlText' \in seen'[c] /\ yamlText \in seen'[c]
      BY <1>2, <1>4, <1>6, <3>1
    <3>3. ASSUME calls'[c].session = session'
          PROVE  /\ session' = session /\ calls[c].session = session
                 /\ shown /\ editingName = calls[c].clicked
                 /\ shown' /\ editingName' = calls'[c].clicked
      <4>1. session' = session /\ calls[c].session = session
        BY <1>5, <3>1, <3>3
      <4>2. shown /\ editingName = calls[c].clicked
        BY <3>1, <4>1 DEF SavesFollow
      <4> QED
        BY <3>1, <4>1, <4>2, SessionLasts
    <3>4. ASSUME calls'[c].stage # "validate", calls'[c].session = session'
          PROVE  calls'[c].name = calls'[c].clicked /\ calls'[c].text[1] \in seen'[c]
      <4>1. CASE calls'[c].name = editingName /\ calls'[c].text = Some(yamlText)
        <5>1. calls'[c].text[1] = yamlText
          BY <4>1 DEF Some
        <5> QED
          BY <3>1, <3>2, <3>3, <3>4, <4>1, <5>1
      <4>2. CASE /\ calls[c].stage # "validate"
                 /\ calls'[c].name = calls[c].name /\ calls'[c].text = calls[c].text
        <5>1. calls[c].name = calls[c].clicked /\ calls[c].text[1] \in seen[c]
          BY <3>1, <3>3, <3>4, <4>2 DEF SavedWasShown
        <5> QED
          BY <1>2, <1>6, <3>1, <4>2, <5>1
      <4> QED
        BY <2>2, <3>4, <4>1, <4>2 DEF Continued
    <3> QED
      BY <3>2, <3>3, <3>4
  <2> QED
    BY <1>6, <2>1, <2>2, SaveOrigin
<1> QED
  BY <1>3, <1>6 DEF SavesFollow, SavedWasShown

----------------------------------------------------------------------------
(* Sessions. *)

\* A step of one handler adds it to those that may end a session, or takes it
\* away.
LEMMA OpeningStep ==
  ASSUME IsFiniteSet(Opening), NEW c \in Slots,
         \A d \in Slots : d # c => calls'[d] = calls[d]
  PROVE  /\ IsFiniteSet(Opening')
         /\ Cardinality(Opening) \in Nat /\ Cardinality(Opening') \in Nat
         /\ Cardinality(Opening') <= Cardinality(Opening) + 1
         /\ c \in Opening => Cardinality(Opening') <= Cardinality(Opening)
         /\ c \notin Opening' => Cardinality(Opening') <= Cardinality(Opening)
         /\ c \in Opening /\ c \notin Opening' => Cardinality(Opening') <= Cardinality(Opening) - 1
<1>1. CASE c \in Opening'
  <2>1. Opening' = Opening \cup {c}
    BY <1>1 DEF Opening
  <2>2. /\ IsFiniteSet(Opening \cup {c}) /\ Cardinality(Opening) \in Nat
        /\ Cardinality(Opening \cup {c}) =
             IF c \in Opening THEN Cardinality(Opening) ELSE Cardinality(Opening) + 1
    BY FS_AddElement, FS_CardinalityType
  <2> QED
    BY <1>1, <2>1, <2>2
<1>2. CASE c \notin Opening'
  <2>1. Opening' = Opening \ {c}
    BY <1>2 DEF Opening
  <2>2. /\ IsFiniteSet(Opening \ {c}) /\ Cardinality(Opening) \in Nat
        /\ Cardinality(Opening \ {c}) \in Nat
        /\ Cardinality(Opening \ {c}) =
             IF c \in Opening THEN Cardinality(Opening) - 1 ELSE Cardinality(Opening)
    BY FS_RemoveElement, FS_CardinalityType
  <2> QED
    BY <1>2, <2>1, <2>2
<1> QED
  BY <1>1, <1>2

LEMMA SessionsCountedStep ==
  ASSUME TypeOK, CallsOK, SessionsCounted, [Next]_vars
  PROVE  SessionsCounted'
<1> DEFINE S == IF shown THEN 1 ELSE 0
<1>1. /\ session \in Nat /\ started \in Nat /\ shown \in BOOLEAN
      /\ IsFiniteSet(Opening)
      /\ session + S + Cardinality(Opening) <= started
  BY EditorAssumption DEF TypeOK, SessionsCounted
<1>2. Cardinality(Opening) \in Nat
  BY <1>1, FS_CardinalityType
<1>3. CASE UNCHANGED <<calls, session, shown, started>>
  <2>1. Opening' = Opening
    BY <1>3 DEF Opening
  <2> QED
    BY <1>1, <1>3, <2>1 DEF SessionsCounted
<1>4. CASE UserStep
  <2>1. Opening' = Opening
    BY <1>1, <1>4, UserEffect DEF Opening
  <2>2. CASE OpenNew
    <3>1. ~shown /\ shown' /\ started' = started + 1 /\ session' = session
      BY <2>2 DEF OpenNew
    <3> QED
      BY <1>1, <1>2, <2>1, <3>1 DEF SessionsCounted
  <2>3. CASE Close
    <3>1. shown /\ ~shown' /\ started' = started /\ session' = session + 1
      BY <2>3 DEF Close, CloseEditor
    <3> QED
      BY <1>1, <1>2, <2>1, <3>1 DEF SessionsCounted
  <2>4. CASE \/ FormEdit \/ PreviewTimer \/ YamlEdit \/ SwitchToYaml
             \/ \E n \in PolicyNames : DeletedElsewhere(n)
    BY <1>3, <2>4 DEF FormEdit, PreviewTimer, YamlEdit, SwitchToYaml, DeletedElsewhere, editorVars
  <2> QED
    BY <1>4, <2>2, <2>3, <2>4 DEF UserStep
<1>5. ASSUME NEW c \in Slots, CallStep(c)
      PROVE  SessionsCounted'
  <2>1. /\ IsFiniteSet(Opening')
        /\ Cardinality(Opening') \in Nat
        /\ Cardinality(Opening') <= Cardinality(Opening) + 1
        /\ c \in Opening => Cardinality(Opening') <= Cardinality(Opening)
        /\ c \notin Opening' => Cardinality(Opening') <= Cardinality(Opening)
        /\ c \in Opening /\ c \notin Opening' => Cardinality(Opening') <= Cardinality(Opening) - 1
    BY <1>1, <1>5, CallEffect, OpeningStep
  <2>2. End(c) => c \notin Opening'
    <3>1. SUFFICES ASSUME End(c)
                   PROVE  c \notin Opening'
      OBVIOUS
    <3>2. calls'[c] = NoCall
      BY <3>1, CallUpdate DEF End
    <3> QED
      BY <3>2 DEF NoCall, Opening
  <2>3. ASSUME NEW st, Goto(c, st)
        PROVE  c \in Opening' <=> c \in Opening
    <3> DEFINE r == [calls[c] EXCEPT !.stage = st]
    <3>1. calls' = [calls EXCEPT ![c] = r]
      BY <2>3 DEF Goto, CallsOK
    <3>2. calls'[c] = r
      BY <3>1, CallUpdate
    <3>3. calls'[c].kind = calls[c].kind
      BY <3>2 DEF CallsOK, CallFields
    <3> QED
      BY <3>3 DEF Opening
  <2>4. ASSUME Cardinality(Opening') <= Cardinality(Opening),
               UNCHANGED <<session, shown, started>>
        PROVE  SessionsCounted'
    BY <1>1, <1>2, <2>1, <2>4 DEF SessionsCounted
  <2>5. ASSUME started' = started + 1, UNCHANGED <<session, shown>>
        PROVE  SessionsCounted'
    BY <1>1, <1>2, <2>1, <2>5 DEF SessionsCounted
  <2>6. CASE OpenValidated(c)
    <3>1. c \in Opening /\ c \notin Opening'
      BY <2>2, <2>6 DEF OpenValidated, Await, Opening
    <3>2. shown' /\ UNCHANGED <<session, started>>
      BY <2>6 DEF OpenValidated
    <3> QED
      BY <1>1, <1>2, <2>1, <3>1, <3>2 DEF SessionsCounted
  <2>7. CASE Saved(c)
    <3>1. c \in Opening /\ c \notin Opening'
      BY <2>2, <2>7 DEF Saved, Await, Opening
    <3>2. ~shown' /\ session' = session + 1 /\ started' = started
      BY <2>7 DEF Saved, CloseEditor
    <3> QED
      BY <1>1, <1>2, <2>1, <3>1, <3>2 DEF SessionsCounted
  <2>8. CASE \/ \E n \in PolicyNames : Open(c, n)
             \/ SwitchToForm(c) \/ Validate(c, "check") \/ Validate(c, "save")
    BY <2>5, <2>8 DEF Open, SwitchToForm, Validate, Begin, editorVars
  <2>9. CASE Get(c) \/ SaveValidated(c)
    <3>1. c \in Opening
      BY <2>9 DEF Get, SaveValidated, Await, Opening
    <3> QED
      BY <2>1, <2>4, <2>9, <3>1 DEF Get, SaveValidated, editorVars
  <2>10. CASE OpenGot(c) \/ SwitchValidated(c) \/ Put(c)
    <3>1. Cardinality(Opening') <= Cardinality(Opening)
      <4>1. CASE End(c)
        BY <2>1, <2>2, <4>1
      <4>2. ASSUME NEW st, Goto(c, st)
            PROVE  Cardinality(Opening') <= Cardinality(Opening)
        BY <2>1, <2>3, <4>2
      <4> QED
        BY <2>10, <4>1, <4>2 DEF OpenGot, SwitchValidated, PerformSwitch, Put
    <3>2. UNCHANGED <<session, shown, started>>
      BY <2>10 DEF OpenGot, SwitchValidated, PerformSwitch, Put, editorVars
    <3> QED
      BY <2>4, <3>1, <3>2
  <2>11. CASE \/ SwitchRefused(c) \/ SwitchConfirmed(c)
              \/ Validated(c) \/ SaveInvalid(c) \/ SaveRefused(c)
    <3>1. End(c) /\ UNCHANGED <<session, shown, started>>
      BY <2>11 DEF SwitchRefused, SwitchConfirmed, PerformSwitch, Validated, SaveInvalid,
                   SaveRefused, editorVars
    <3> QED
      BY <2>1, <2>2, <2>4, <3>1
  <2> QED
    BY <1>5, <2>6, <2>7, <2>8, <2>9, <2>10, <2>11 DEF CallStep
<1>6. CASE UNCHANGED vars
  BY <1>3, <1>6 DEF vars, editorVars
<1> QED
  BY <1>4, <1>5, <1>6 DEF Next, UserStep

----------------------------------------------------------------------------
(* The table. *)

\* Policy::from_yaml returns the policy it read.
LEMMA FromYaml ==
  ASSUME NEW y, from_yaml(y) # None
  PROVE  from_yaml(y)[1] = ReadPolicy(y)
<1>1. from_yaml(y) = Some(ReadPolicy(y))
  BY DEF from_yaml
<1> HIDE DEF from_yaml
<1> QED
  BY <1>1 DEF Some

\* A stored document was accepted for the name it is stored under.
TableOK == NamesMatch /\ StoredIsValid

LEMMA TableStep ==
  ASSUME TypeOK, TableOK, [Next]_vars
  PROVE  TableOK'
<1> USE DEF TableOK, NamesMatch, StoredIsValid
<1>1. CASE UNCHANGED policies
  BY <1>1
<1>2. ASSUME NEW n \in PolicyNames, DeletedElsewhere(n)
      PROVE  TableOK'
  BY <1>2 DEF DeletedElsewhere, TypeOK
<1>3. ASSUME NEW c \in Slots, Put(c)
      PROVE  TableOK'
  <2> DEFINE text == calls[c].text[1]
             target == IF calls[c].name = None THEN ReadPolicy(text).name ELSE calls[c].name[1]
  <2>1. CASE UNCHANGED policies
    BY <1>1, <2>1
  <2>2. CASE /\ Accepted(calls[c].name, text)
             /\ policies' = [policies EXCEPT ![target] = Some(text)]
    <3>1. /\ from_yaml(text) # None
          /\ ReadPolicy(text).name = target
      BY <2>2, FromYaml DEF Accepted
    <3> HIDE DEF text, target
    <3>2. \A n \in PolicyNames : policies'[n] = policies[n] \/ (n = target /\ policies'[n] = Some(text))
      BY <2>2 DEF TypeOK
    <3>3. Some(text)[1] = text
      BY DEF Some
    <3> QED
      BY <3>1, <3>2, <3>3
  <2> QED
    BY <1>3, <2>1, <2>2 DEF Put
<1>4. CASE UNCHANGED vars
  BY <1>1, <1>4 DEF vars
<1>5. CASE OpenNew \/ Close \/ FormEdit \/ PreviewTimer \/ YamlEdit \/ SwitchToYaml
  BY <1>1, <1>5 DEF OpenNew, Close, FormEdit, PreviewTimer, YamlEdit, SwitchToYaml
<1>6. ASSUME NEW c \in Slots,
             \/ \E n \in PolicyNames : Open(c, n)
             \/ Get(c) \/ OpenGot(c) \/ OpenValidated(c)
             \/ SwitchToForm(c) \/ SwitchValidated(c) \/ SwitchRefused(c) \/ SwitchConfirmed(c)
             \/ Validate(c, "check") \/ Validate(c, "save")
             \/ Validated(c) \/ SaveValidated(c) \/ SaveInvalid(c) \/ Saved(c) \/ SaveRefused(c)
      PROVE  TableOK'
  <2>1. UNCHANGED policies
    BY <1>6 DEF Open, Get, OpenGot, OpenValidated, SwitchToForm, SwitchValidated, PerformSwitch,
                SwitchRefused, SwitchConfirmed, Validate, Validated, SaveValidated, SaveInvalid,
                Saved, SaveRefused
  <2> QED
    BY <1>1, <2>1
<1> QED
  BY <1>2, <1>3, <1>4, <1>5, <1>6 DEF Next, CallStep

----------------------------------------------------------------------------
(* Sizes: from a number to a text and back. *)

LEMMA Parameters ==
  /\ Kilo \in Nat /\ Kilo >= 2 /\ Kilo \in Grains /\ 2 * Kilo \in Grains
  /\ SafeInt \in Nat /\ SafeInt > 0 /\ SafeInt % 2 = 0
  /\ U64 \in Nat /\ U64 = 2 * Kilo * SafeInt
  /\ U64 % (Kilo * Kilo) = 0 /\ U64 >= Kilo * Kilo
<1>1. Kilo \in Nat /\ Kilo >= 2 /\ Kilo \in Grains /\ 2 * Kilo \in Grains /\ Kilo % 2 = 0
  BY LanguageAssumption DEF Grains
<1>2. SafeInt \in Nat /\ SafeInt > 0 /\ SafeInt % Kilo = 0
  BY LanguageAssumption
<1>3. PICK s \in Nat \ {0} : SafeInt = s * Kilo
  <2> DEFINE s == SafeInt \div Kilo
  <2>1. s \in Nat /\ SafeInt = s * Kilo
    <3>1. Kilo \in Nat \ {0}
      BY <1>1
    <3> HIDE DEF s
    <3>2. s = SafeInt \div Kilo
      BY DEF s
    <3> QED
      BY <1>2, <3>1, <3>2
  <2> HIDE DEF s
  <2>2. s # 0
    BY <1>1, <1>2, <2>1
  <2> QED
    BY <2>1, <2>2
<1>4. SafeInt % 2 = 0
  <2>1. PICK h \in Nat : Kilo = 2 * h
    <3>1. Kilo \div 2 \in Nat /\ Kilo = 2 * (Kilo \div 2)
      BY <1>1
    <3> QED
      BY <3>1
  <2>2. s * h \in Nat /\ SafeInt = 2 * (s * h)
    BY <1>3, <2>1
  <2> QED
    BY <2>2
<1>5. U64 \in Nat /\ U64 = 2 * Kilo * SafeInt
  BY <1>1, <1>2, LanguageAssumption
<1>6. U64 % (Kilo * Kilo) = 0 /\ U64 >= Kilo * Kilo
  <2> DEFINE k == Kilo * Kilo
  <2>1. k \in Nat /\ k > 0
    BY <1>1
  <2>2. U64 = (2 * s) * k
    BY <1>1, <1>3, <1>5
  <2> HIDE DEF k
  <2>3. U64 % k = 0 /\ U64 >= k
    BY <1>3, <2>1, <2>2
  <2> QED
    BY <2>3 DEF k
<1> QED
  BY <1>1, <1>2, <1>4, <1>5, <1>6

LEMMA GrainsDivide ==
  ASSUME NEW g \in Grains, NEW h \in Grains, g <= h
  PROVE  g \in Nat \ {0} /\ h \in Nat \ {0} /\ h % g = 0 /\ (g < h => 2 * g \in Grains /\ 2 * g <= h)
BY DEF Grains

\* The grain of n is the least that fits.
LEMMA GrainFits ==
  ASSUME NEW n \in Nat, NEW top \in Grains, n < SafeInt * top
  PROVE  /\ Grain(n) \in Grains /\ Grain(n) \in Nat \ {0} /\ Grain(n) <= top
         /\ n < SafeInt * Grain(n)
         /\ \A h \in Grains : n < SafeInt * h => Grain(n) <= h
<1> DEFINE Fits(g) == n < SafeInt * g
           Least(g) == Fits(g) /\ \A h \in Grains : Fits(h) => g <= h
<1>1. Fits(2048)
  BY Parameters DEF Grains
<1>2. \E g \in Grains : Least(g)
  <2> HIDE DEF Fits
  <2>2. CASE Fits(1)
    <3>1. Least(1)
      BY <2>2 DEF Grains
    <3> QED
      BY <3>1 DEF Grains
  <2>3. ASSUME ~Fits(1), \A g \in Grains : ~Least(g)
        PROVE  FALSE
    BY <1>1, <2>3 DEF Grains
  <2> QED
    BY <2>2, <2>3
<1>3. Grain(n) \in Grains /\ Least(Grain(n))
  BY <1>2 DEF Grain
<1> QED
  BY <1>3 DEF Grains

\* The nearest JavaScript number: at most a grain away, and a JavaScript number.
LEMMA Near ==
  ASSUME NEW n \in Nat, NEW top \in Grains, n < SafeInt * top
  PROVE  /\ JsNumber(n) \in Nat
         /\ n % Grain(n) = 0 <=> JsNumber(n) = n
         /\ JsNumber(n) <= n + Grain(n) /\ n <= JsNumber(n) + Grain(n)
         /\ \E q \in Nat : JsNumber(n) = q * Grain(n) /\ q <= SafeInt
<1> DEFINE g == Grain(n)
           q == n \div g
           r == n % g
<1>0. n \in Nat /\ g \in Nat \ {0} /\ n < SafeInt * g /\ SafeInt \in Nat
  BY GrainFits, Parameters
<1>1. JsNumber(n) = IF 2 * r < g \/ (2 * r = g /\ q % 2 = 0) THEN q * g ELSE (q + 1) * g
  BY DEF JsNumber
<1> HIDE DEF g
<1>2. q \in Nat /\ r \in Nat /\ r < g /\ n = q * g + r
  BY <1>0
<1>3. q * g \in Nat /\ (q + 1) * g = q * g + g
  BY <1>0, <1>2
<1>4. q < SafeInt
  <2> HIDE DEF q, r
  <2>1. q * g < SafeInt * g
    BY <1>0, <1>2, <1>3
  <2> QED
    BY <1>0, <1>2, <2>1
<1> HIDE DEF q, r
<1>5. JsNumber(n) = q * g \/ (JsNumber(n) = q * g + g /\ 2 * r >= g)
  BY <1>0, <1>1, <1>2, <1>3
<1>6. r = 0 <=> JsNumber(n) = n
  BY <1>0, <1>1, <1>2, <1>3, <1>5
<1>7. JsNumber(n) \in Nat /\ JsNumber(n) <= n + g /\ n <= JsNumber(n) + g
  BY <1>0, <1>2, <1>3, <1>5
<1>8. \E p \in Nat : JsNumber(n) = p * g /\ p <= SafeInt
  <2>1. CASE JsNumber(n) = q * g
    BY <1>0, <1>2, <1>4, <2>1
  <2>2. CASE JsNumber(n) = q * g + g
    <3>1. q + 1 \in Nat /\ q + 1 <= SafeInt /\ JsNumber(n) = (q + 1) * g
      BY <1>0, <1>2, <1>3, <1>4, <2>2
    <3> QED
      BY <3>1
  <2> QED
    BY <1>5, <2>1, <2>2
<1> QED
  BY <1>6, <1>7, <1>8 DEF r, g

LEMMA MultipleOf ==
  ASSUME NEW g \in Nat \ {0}, NEW h \in Nat \ {0}, h % g = 0, NEW x \in Nat, x % h = 0
  PROVE  x % g = 0
<1>1. PICK c \in Nat : h = c * g
  <2>1. h \div g \in Nat /\ h = (h \div g) * g
    OBVIOUS
  <2> QED
    BY <2>1
<1>2. PICK d \in Nat : x = d * h
  <2>1. x \div h \in Nat /\ x = (x \div h) * h
    OBVIOUS
  <2> QED
    BY <2>1
<1>3. d * c \in Nat /\ x = (d * c) * g
  BY <1>1, <1>2
<1> QED
  BY <1>3

\* What JSON.parse makes of a size.
LEMMA JsNumberIs ==
  ASSUME NEW n \in 0 .. U64 - 1
  PROVE  /\ JsNumber(n) \in 0 .. U64
         /\ JsNumber(n) <= n + Grain(n) /\ n <= JsNumber(n) + Grain(n)
         /\ Grain(n) \in Nat /\ Grain(n) <= 2 * Kilo
         /\ JsNumber(n) < U64 => JsNumber(n) % Grain(JsNumber(n)) = 0
<1> DEFINE g == Grain(n)
           m == JsNumber(n)
           top == 2 * Kilo
<1>1. n \in Nat /\ n < SafeInt * top /\ top \in Grains
  BY Parameters
<1>2. g \in Grains /\ g \in Nat \ {0} /\ g <= top /\ n < SafeInt * g
  BY <1>1, GrainFits
<1>3. m \in Nat /\ m <= n + g /\ n <= m + g
  BY <1>1, Near
<1>4. PICK q \in Nat : m = q * g /\ q <= SafeInt
  BY <1>1, Near
<1> HIDE DEF g, m
<1>5. m <= SafeInt * g
  BY <1>2, <1>4, Parameters
<1>6. SafeInt * g <= SafeInt * top /\ SafeInt * top = U64
  BY <1>1, <1>2, Parameters
<1>7. m <= U64
  <2>1. SafeInt * g \in Nat /\ SafeInt * top \in Nat
    BY <1>1, <1>2, Parameters
  <2> QED
    BY <1>3, <1>5, <1>6, <2>1, Parameters
<1>8. ASSUME m < U64
      PROVE  m % Grain(m) = 0
  <2>1. m % g = 0
    BY <1>2, <1>4
  <2>2. CASE m < SafeInt * g
    <3>1. Grain(m) \in Grains /\ Grain(m) <= g
      BY <1>2, <1>3, <2>2, GrainFits
    <3>2. g % Grain(m) = 0 /\ Grain(m) \in Nat \ {0}
      BY <1>2, <3>1, GrainsDivide
    <3> QED
      BY <1>2, <1>3, <2>1, <3>2, MultipleOf
  <2>3. CASE m >= SafeInt * g
    <3>1. m = SafeInt * g
      BY <1>2, <1>3, <1>5, <2>3, Parameters
    <3>2. g # top
      BY <1>6, <1>8, <3>1
    <3>3. 2 * g \in Grains
      BY <1>1, <1>2, <3>2, GrainsDivide, Parameters
    <3>4. PICK h \in Nat : SafeInt = 2 * h
      <4>1. SafeInt \div 2 \in Nat /\ SafeInt = 2 * (SafeInt \div 2)
        BY Parameters
      <4> QED
        BY <4>1
    <3>5. m = h * (2 * g) /\ 2 * g \in Nat \ {0}
      BY <1>2, <3>1, <3>4
    <3>6. m % (2 * g) = 0
      <4> DEFINE w == 2 * g
      <4>1. m = h * w /\ w \in Nat \ {0}
        BY <3>5
      <4> HIDE DEF w
      <4>2. m % w = 0
        BY <3>4, <4>1
      <4> QED
        BY <4>2 DEF w
    <3>7. m < SafeInt * (2 * g)
      BY <1>2, <3>1, Parameters
    <3>8. Grain(m) \in Grains /\ Grain(m) <= 2 * g
      BY <1>3, <3>3, <3>7, GrainFits
    <3>9. (2 * g) % Grain(m) = 0 /\ Grain(m) \in Nat \ {0}
      BY <3>3, <3>8, GrainsDivide
    <3> QED
      BY <1>3, <3>5, <3>6, <3>9, MultipleOf
  <2> QED
    <3>1. SafeInt * g \in Nat
      BY <1>2, Parameters
    <3> QED
      BY <1>3, <2>2, <2>3, <3>1
<1> QED
  BY <1>2, <1>3, <1>7, <1>8, Parameters DEF g, m

LEMMA GrainOf ==
  ASSUME NEW n \in Nat, NEW top \in Grains, n < SafeInt * top,
         \A h \in Grains : h < top => ~(n < SafeInt * h)
  PROVE  Grain(n) = top
<1>1. Grain(n) \in Grains /\ Grain(n) <= top /\ n < SafeInt * Grain(n)
  BY GrainFits
<1> QED
  BY <1>1 DEF Grains

\* A JavaScript number of at most 54 bits is printed as it is.
LEMMA SmallGrain ==
  ASSUME NEW n \in Nat
  PROVE  /\ n < SafeInt => Grain(n) = 1
         /\ SafeInt <= n /\ n < SafeInt * 2 => Grain(n) = 2
         /\ n < SafeInt * 4 => Grain(n) \in {1, 2, 4}
         /\ n = SafeInt * 2 => Grain(n) = 4
<1>1. n < SafeInt => Grain(n) = 1
  BY GrainOf, Parameters DEF Grains
<1>2. SafeInt <= n /\ n < SafeInt * 2 => Grain(n) = 2
  BY GrainOf, Parameters DEF Grains
<1>3. n < SafeInt * 4 => Grain(n) \in {1, 2, 4}
  <2>1. n < SafeInt * 4 => Grain(n) \in Grains /\ Grain(n) <= 4
    BY GrainFits DEF Grains
  <2> QED
    BY <2>1 DEF Grains
<1>4. n = SafeInt * 2 => Grain(n) = 4
  BY GrainOf, Parameters DEF Grains
<1> QED
  BY <1>1, <1>2, <1>3, <1>4

Less == OpToRel(<, Nat)

LEMMA Least ==
  ASSUME NEW T \in SUBSET Nat, T # {}
  PROVE  \E x \in T : \A y \in T : x <= y
<1>1. IsWellFoundedOn(Less, Nat)
  BY NatLessThanWellFounded DEF Less
<1>2. PICK x \in T : \A y \in T : <<y, x>> \notin Less
  BY <1>1, WFMin
<1>3. \A y \in T : ~(y < x)
  <2> SUFFICES ASSUME NEW y \in T, y < x
               PROVE  FALSE
    OBVIOUS
  <2>1. <<y, x>> \in Nat \X Nat /\ <<y, x>>[1] < <<y, x>>[2]
    OBVIOUS
  <2>2. Less = {ss \in Nat \X Nat : ss[1] < ss[2]}
    BY DEF Less, OpToRel
  <2>3. <<y, x>> \in Less
    BY <2>1, <2>2
  <2> QED
    BY <1>2, <2>3
<1> QED
  BY <1>3

\* A JavaScript number is printed as a number within a grain of it.
LEMMA PrintedIs ==
  ASSUME NEW n \in Nat, Grain(n) \in Nat, JsNumber(n) = n
  PROVE  /\ n \in Decimals(n, 1)
         /\ Zeros(n) \in Decades
         /\ Printed(n) \in Decimals(n, Zeros(n))
         /\ \A k \in Decimals(n, Zeros(n)) : Distance(Printed(n), n) <= Distance(k, n)
         /\ Printed(n) \in Nat /\ Printed(n) <= n + Grain(n) /\ n <= Printed(n) + Grain(n)
<1>1. n \in Decimals(n, 1)
  BY DEF Decimals
<1>2. Zeros(n) \in Decades /\ Decimals(n, Zeros(n)) # {}
  <2> DEFINE Some0(d) == Decimals(n, d) # {}
  <2>1. Some0(1)
    BY <1>1
  <2> HIDE DEF Some0
  <2>2. \E d \in Decades : Some0(d) /\ \A e \in Decades : Some0(e) => e <= d
    BY <2>1 DEF Decades
  <2>3. \E d \in Decades : /\ Decimals(n, d) # {}
                           /\ \A e \in Decades : Decimals(n, e) # {} => e <= d
    BY <2>2 DEF Some0
  <2> QED
    BY <2>3 DEF Zeros
<1> DEFINE D == Decimals(n, Zeros(n))
           Away == {Distance(k, n) : k \in D}
<1>3. \A k \in D : k \in Int /\ k >= 0 /\ k <= n + Grain(n) /\ n <= k + Grain(n)
  BY DEF Decimals
<1> HIDE DEF D
<1>4. Away \in SUBSET Nat /\ Away # {}
  BY <1>2, <1>3 DEF Distance, D
<1>5. \E m \in D : \A k \in D : Distance(m, n) <= Distance(k, n)
  <2>1. PICK a \in Away : \A b \in Away : a <= b
    BY <1>4, Least
  <2> QED
    BY <2>1
<1>6. Printed(n) \in D /\ \A k \in D : Distance(Printed(n), n) <= Distance(k, n)
  <2>1. Printed(n) = CHOOSE m \in D : \A k \in D : Distance(m, n) <= Distance(k, n)
    BY DEF Printed, D
  <2> QED
    BY <1>5, <2>1
<1> QED
  BY <1>1, <1>2, <1>3, <1>6 DEF D

\* A JavaScript number of at most 54 bits is printed as it is.
LEMMA PrintedExact ==
  ASSUME NEW n \in Nat, n < SafeInt * 2, n < SafeInt \/ n % 2 = 0
  PROVE  JsNumber(n) = n /\ Printed(n) = n /\ Grain(n) \in Nat
<1>1. /\ n < SafeInt => Grain(n) = 1
      /\ n >= SafeInt => Grain(n) = 2 /\ n % 2 = 0
      /\ Grain(n) \in {1, 2}
  BY SmallGrain, Parameters
<1>2. ASSUME NEW x \in Nat, x < SafeInt * 4, x % Grain(x) = 0
      PROVE  JsNumber(x) = x
  BY <1>2, Near DEF Grains
<1>3. JsNumber(n) = n
  <2>1. n % Grain(n) = 0
    BY <1>1
  <2> QED
    BY <1>2, <2>1, Parameters
<1>4. ASSUME NEW x \in Nat, x <= n + Grain(n), n <= x + Grain(n), x % 2 = 0, JsNumber(x) = n
      PROVE  x = n
  <2> SUFFICES x % Grain(x) = 0
    BY <1>1, <1>2, <1>4, Parameters
  <2>1. CASE x < SafeInt
    BY <2>1, SmallGrain
  <2>2. CASE SafeInt <= x /\ x < SafeInt * 2
    BY <1>4, <2>2, SmallGrain
  <2>3. CASE x >= SafeInt * 2
    <3>1. x = SafeInt * 2
      BY <1>1, <1>4, <2>3, Parameters
    <3>2. Grain(x) = 4
      BY <3>1, SmallGrain
    <3> QED
      BY <3>1, <3>2, Parameters
  <2> QED
    BY <2>1, <2>2, <2>3, Parameters
<1>5. /\ n \in Decimals(n, 1)
      /\ Zeros(n) \in Decades
      /\ Printed(n) \in Decimals(n, Zeros(n))
      /\ \A k \in Decimals(n, Zeros(n)) : Distance(Printed(n), n) <= Distance(k, n)
      /\ Printed(n) \in Nat /\ Printed(n) <= n + Grain(n) /\ n <= Printed(n) + Grain(n)
  BY <1>1, <1>3, PrintedIs
<1>6. CASE Zeros(n) = 1
  <2>1. Distance(Printed(n), n) <= Distance(n, n)
    BY <1>5, <1>6
  <2> QED
    BY <1>1, <1>3, <1>5, <2>1 DEF Distance
<1>7. CASE Zeros(n) # 1
  <2>1. Printed(n) % Zeros(n) = 0 /\ JsNumber(Printed(n)) = n
    BY <1>5 DEF Decimals
  <2>2. Printed(n) % 2 = 0
    <3>1. Zeros(n) \in Nat \ {0} /\ Zeros(n) % 2 = 0
      BY <1>5, <1>7 DEF Decades
    <3> QED
      BY <1>5, <2>1, <3>1, MultipleOf
  <2> QED
    BY <1>1, <1>3, <1>4, <1>5, <2>1, <2>2
<1> QED
  BY <1>1, <1>3, <1>6, <1>7

\* The unit that prettySize picks divides the number: it is B for what Kilo does
\* not divide, and not KB for what the square of Kilo divides.
UnitOf(m, k) ==
    /\ k \in Nat \ {0} /\ m \div k \in Nat /\ m = (m \div k) * k
    /\ m % Kilo # 0 \/ m = 0 => k = 1
    /\ m % Kilo = 0 /\ m # 0 =>
          \/ k = Kilo /\ (m % (Kilo * Kilo) # 0 \/ m < Kilo * Kilo)
          \/ \E c \in Nat \ {0} : k = (Kilo * Kilo) * c

LEMMA PrettySizeIs ==
  ASSUME NEW m \in Nat
  PROVE  \E u \in {"B", "KB", "MB", "GB"} :
            /\ UnitOf(m, Multiplier(u))
            /\ prettySize(m) = [num |-> Printed(m \div Multiplier(u)), unit |-> u]
<1> DEFINE Fits(u) == m % Multiplier(u) = 0 /\ m >= Multiplier(u)
           unit == IF Fits("GB") THEN "GB" ELSE IF Fits("MB") THEN "MB"
                   ELSE IF Fits("KB") THEN "KB" ELSE "B"
           K2 == Kilo * Kilo
           K3 == Kilo * Kilo * Kilo
<1>1. /\ Multiplier("B") = 1 /\ Multiplier("KB") = Kilo
      /\ Multiplier("MB") = K2 /\ Multiplier("GB") = K3
  BY DEF Multiplier
<1>2. /\ Kilo \in Nat \ {0, 1} /\ K2 \in Nat \ {0} /\ K3 \in Nat \ {0}
      /\ K3 = K2 * Kilo /\ K2 % Kilo = 0 /\ K3 % Kilo = 0
  <2>1. Kilo \in Nat \ {0, 1}
    BY Parameters
  <2>2. K2 \in Nat \ {0} /\ K2 % Kilo = 0
    BY <2>1
  <2>3. K3 = K2 * Kilo
    OBVIOUS
  <2> HIDE DEF K2, K3
  <2>4. K3 \in Nat \ {0} /\ K3 % Kilo = 0
    BY <2>1, <2>2, <2>3
  <2> QED
    BY <2>1, <2>2, <2>3, <2>4
<1>3. prettySize(m) = [num |-> Printed(m \div Multiplier(unit)), unit |-> unit]
  BY DEF prettySize
<1>4. unit \in {"B", "KB", "MB", "GB"}
  OBVIOUS
<1> HIDE DEF K2, K3
<1>5. ASSUME NEW k \in Nat \ {0}, m % k = 0
      PROVE  m \div k \in Nat /\ m = (m \div k) * k
  BY <1>5
<1>6. CASE Fits("GB")
  <2>1. m % K3 = 0 /\ unit = "GB"
    BY <1>1, <1>6
  <2>2. m % Kilo = 0 /\ m # 0
    BY <1>1, <1>2, <1>6, <2>1, MultipleOf
  <2>3. UnitOf(m, K3)
    <3>1. m \div K3 \in Nat /\ m = (m \div K3) * K3
      BY <1>2, <1>5, <2>1
    <3>2. K3 = (Kilo * Kilo) * Kilo /\ Kilo \in Nat \ {0}
      BY <1>2 DEF K2
    <3> QED
      BY <1>2, <2>2, <3>1, <3>2 DEF UnitOf
  <2> QED
    BY <1>1, <1>3, <1>4, <2>1, <2>3
<1>7. CASE ~Fits("GB") /\ Fits("MB")
  <2>1. m % K2 = 0 /\ unit = "MB"
    BY <1>1, <1>7
  <2>2. m % Kilo = 0 /\ m # 0
    BY <1>1, <1>2, <1>7, <2>1, MultipleOf
  <2>3. UnitOf(m, K2)
    <3>1. m \div K2 \in Nat /\ m = (m \div K2) * K2
      BY <1>2, <1>5, <2>1
    <3>2. K2 = (Kilo * Kilo) * 1
      BY <1>2 DEF K2
    <3> QED
      BY <1>2, <2>2, <3>1, <3>2 DEF UnitOf
  <2> QED
    BY <1>1, <1>3, <1>4, <2>1, <2>3
<1>8. CASE ~Fits("GB") /\ ~Fits("MB") /\ Fits("KB")
  <2>1. m % Kilo = 0 /\ unit = "KB" /\ m # 0 /\ (m % K2 # 0 \/ m < K2)
    BY <1>1, <1>2, <1>8
  <2>2. UnitOf(m, Kilo)
    <3>1. m \div Kilo \in Nat /\ m = (m \div Kilo) * Kilo
      BY <1>2, <1>5, <2>1
    <3> QED
      BY <1>2, <2>1, <3>1 DEF UnitOf, K2
  <2> QED
    BY <1>1, <1>3, <1>4, <2>1, <2>2
<1>9. CASE ~Fits("GB") /\ ~Fits("MB") /\ ~Fits("KB")
  <2>1. unit = "B" /\ (m % Kilo # 0 \/ m = 0)
    BY <1>1, <1>2, <1>9
  <2>2. m \div 1 \in Nat /\ m = (m \div 1) * 1
    OBVIOUS
  <2>3. UnitOf(m, 1)
    BY <2>1, <2>2 DEF UnitOf
  <2> QED
    BY <1>1, <1>3, <1>4, <2>1, <2>3
<1> QED
  BY <1>6, <1>7, <1>8, <1>9

\* In KB, MB or GB nothing is lost.
LEMMA CountIs ==
  ASSUME NEW n \in 0 .. U64 - 1, JsNumber(n) % Kilo = 0, NEW k, UnitOf(JsNumber(n), k)
  PROVE  Printed(JsNumber(n) \div k) = JsNumber(n) \div k
<1> DEFINE m == JsNumber(n)
           q == m \div k
<1>1. /\ m \in 0 .. U64
      /\ m < U64 => m % Grain(m) = 0
  BY JsNumberIs
<1>2. k \in Nat \ {0} /\ q \in Nat /\ m = q * k
  BY DEF UnitOf
<1> SUFFICES Printed(q) = q
  OBVIOUS
<1>3. /\ m = 0 => k = 1
      /\ m # 0 => \/ k = Kilo /\ (m % (Kilo * Kilo) # 0 \/ m < Kilo * Kilo)
                  \/ \E c \in Nat \ {0} : k = (Kilo * Kilo) * c
  BY DEF UnitOf
<1> HIDE DEF m, q
<1>4. CASE m = 0
  <2>1. q = 0
    BY <1>2, <1>3, <1>4
  <2> QED
    BY <2>1, PrintedExact, Parameters
<1>5. CASE m # 0 /\ k = Kilo /\ (m % (Kilo * Kilo) # 0 \/ m < Kilo * Kilo)
  <2>1. m < U64
    BY <1>1, <1>5, Parameters
  <2>2. q < SafeInt * 2
    <3>1. q * Kilo < (SafeInt * 2) * Kilo
      BY <1>2, <1>5, <2>1, Parameters
    <3> DEFINE w == SafeInt * 2
    <3>2. w \in Nat /\ q * Kilo < w * Kilo
      BY <3>1, Parameters
    <3> HIDE DEF w
    <3>3. q < w
      BY <1>2, <3>2, Parameters
    <3> QED
      BY <3>3 DEF w
  <2>3. ASSUME q >= SafeInt
        PROVE  q % 2 = 0
    <3>1. m >= SafeInt * Kilo
      BY <1>2, <1>5, <2>3, Parameters
    <3>2. \A h \in Grains : h < 2 * Kilo => ~(m < SafeInt * h)
      <4> SUFFICES ASSUME NEW h \in Grains, h < 2 * Kilo
                   PROVE  SafeInt * h <= m
        BY <1>1, Parameters DEF Grains
      <4>1. h \in Nat /\ h <= Kilo
        BY GrainsDivide, Parameters DEF Grains
      <4>2. SafeInt * h <= SafeInt * Kilo
        BY <4>1, Parameters
      <4>3. SafeInt * h \in Nat /\ SafeInt * Kilo \in Nat
        BY <4>1, Parameters
      <4> QED
        BY <1>1, <3>1, <4>2, <4>3
    <3>3. m \in Nat /\ m < SafeInt * (2 * Kilo)
      BY <1>1, <2>1, Parameters
    <3>4. Grain(m) = 2 * Kilo
      BY <3>2, <3>3, GrainOf, Parameters
    <3>5. PICK d \in Nat : m = d * (2 * Kilo)
      <4> DEFINE w == 2 * Kilo
      <4>1. w \in Nat \ {0} /\ m % w = 0
        BY <1>1, <2>1, <3>4, Parameters
      <4> HIDE DEF w
      <4>2. m \div w \in Nat /\ m = (m \div w) * w
        BY <3>3, <4>1
      <4> QED
        BY <4>2 DEF w
    <3>6. q * Kilo = (2 * d) * Kilo
      BY <1>2, <1>5, <3>5, Parameters
    <3>7. q = 2 * d
      BY <1>2, <3>6, Parameters
    <3> QED
      BY <3>7
  <2> QED
    BY <1>2, <2>2, <2>3, PrintedExact, Parameters
<1>6. ASSUME m # 0, NEW c \in Nat \ {0}, k = (Kilo * Kilo) * c
      PROVE  Printed(q) = q
  <2>1. q <= SafeInt
    <3>1. q * k <= 2 * Kilo * SafeInt
      BY <1>1, <1>2, Parameters
    <3>2. q * k = Kilo * ((q * c) * Kilo)
      BY <1>2, <1>6, Parameters
    <3>3. q * c \in Nat /\ q <= q * c
      BY <1>2, <1>6
    <3> DEFINE w == q * c
    <3>4. w * Kilo >= w * 2 /\ w * Kilo \in Nat
      BY <3>3, Parameters
    <3>5. Kilo * (w * Kilo) <= Kilo * (2 * SafeInt)
      BY <3>1, <3>2, Parameters
    <3> HIDE DEF w
    <3>6. w * Kilo <= 2 * SafeInt
      <4> DEFINE a == w * Kilo
                 b == 2 * SafeInt
      <4>1. a \in Nat /\ b \in Nat /\ Kilo * a <= Kilo * b
        BY <3>4, <3>5, Parameters
      <4> HIDE DEF a, b
      <4>2. a <= b
        BY <4>1, Parameters
      <4> QED
        BY <4>2 DEF a, b
    <3>7. w <= SafeInt
      BY <3>3, <3>4, <3>6, Parameters DEF w
    <3> QED
      BY <1>2, <3>3, <3>7, Parameters DEF w
  <2> QED
    BY <1>2, <2>1, PrintedExact, Parameters
<1> QED
  BY <1>3, <1>4, <1>5, <1>6

\* The size a form gives back is the one it was given if and only if
\* SizeForgotten does not name it.
LEMMA SizeKept ==
  ASSUME NEW n \in 0 .. U64 - 1
  PROVE  /\ IsSize(prettySize(JsNumber(n)))
         /\ parse_size(prettySize(JsNumber(n))) = n <=> ~SizeForgotten(n)
<1> DEFINE m == JsNumber(n)
<1>1. /\ m \in 0 .. U64
      /\ m <= n + Grain(n) /\ n <= m + Grain(n)
      /\ Grain(n) \in Nat /\ Grain(n) <= 2 * Kilo
      /\ m < U64 => m % Grain(m) = 0
  BY JsNumberIs
<1>2. PICK u \in {"B", "KB", "MB", "GB"} :
         /\ UnitOf(m, Multiplier(u))
         /\ prettySize(m) = [num |-> Printed(m \div Multiplier(u)), unit |-> u]
  BY <1>1, PrettySizeIs
<1> DEFINE k == Multiplier(u)
           q == m \div k
<1>3. /\ k \in Nat \ {0} /\ q \in Nat /\ m = q * k
      /\ m % Kilo # 0 => k = 1
  BY <1>2 DEF UnitOf
<1>4. /\ prettySize(m).num = Printed(q) /\ prettySize(m).unit = u
      /\ parse_size(prettySize(m)) = (Printed(q) * k) % U64
  BY <1>2 DEF parse_size
<1>5. m % Kilo = 0 => Printed(q) = q
  BY <1>2, CountIs
<1>6. SizeForgotten(n) <=> n # IF m % Kilo = 0 THEN m ELSE Printed(m)
  BY DEF SizeForgotten
<1>7. n \in Nat /\ n < U64 /\ U64 \in Nat \ {0} /\ 4 * Kilo <= U64 /\ Kilo \in Nat \ {0}
  <2>1. SafeInt >= 2
    BY Parameters
  <2> QED
    BY <2>1, Parameters
<1> HIDE DEF m, k, q
<1>8. CASE m % Kilo = 0
  <2>1. parse_size(prettySize(m)) = m % U64
    BY <1>3, <1>4, <1>5, <1>8
  <2>2. m % U64 = n <=> m = n
    BY <1>1, <1>7
  <2> QED
    BY <1>2, <1>3, <1>4, <1>5, <1>6, <1>8, <2>1, <2>2 DEF IsSize, m
<1>9. CASE m % Kilo # 0
  <2>1. m < U64
    <3>1. U64 % Kilo = 0
      <4> DEFINE w == 2 * SafeInt
      <4>1. U64 = w * Kilo /\ w \in Nat
        BY Parameters
      <4> HIDE DEF w
      <4> QED
        BY <4>1, <1>7
    <3> QED
      BY <1>1, <1>7, <1>9, <3>1
  <2>2. q = m /\ k = 1
    BY <1>1, <1>3, <1>9
  <2>3. Grain(m) \in Grains /\ Grain(m) \in Nat \ {0}
    <3>1. m \in Nat /\ m < SafeInt * (2 * Kilo)
      BY <1>1, <2>1, Parameters
    <3> QED
      BY <3>1, GrainFits, Parameters
  <2>4. Grain(m) < Kilo
    <3> SUFFICES ASSUME Kilo <= Grain(m)
                 PROVE  FALSE
      BY <2>3, Parameters
    <3>1. Grain(m) % Kilo = 0
      BY <2>3, GrainsDivide, Parameters
    <3> QED
      BY <1>1, <1>7, <1>9, <2>1, <2>3, <3>1, MultipleOf
  <2>5. JsNumber(m) = m
    <3>1. m \in Nat /\ m < SafeInt * (2 * Kilo)
      BY <1>1, <2>1, Parameters
    <3> QED
      BY <1>1, <2>1, <3>1, Near, Parameters
  <2>6. /\ Printed(m) \in Nat
        /\ Printed(m) <= m + Grain(m) /\ m <= Printed(m) + Grain(m)
    BY <1>1, <2>3, <2>5, PrintedIs
  <2>7. Printed(m) < n + U64
    BY <1>1, <1>7, <2>3, <2>4, <2>6
  <2>8. Printed(m) % U64 = n <=> Printed(m) = n
    BY <1>7, <2>6, <2>7
  <2>9. Printed(q) * k = Printed(m) /\ Printed(q) \in Nat
    BY <2>2, <2>6
  <2> QED
    BY <1>2, <1>4, <1>6, <1>9, <2>8, <2>9 DEF IsSize, m
<1> QED
  BY <1>8, <1>9

LEMMA ParsedSize ==
  ASSUME NEW t, IsSize(t)
  PROVE  parse_size(t) \in 0 .. U64 - 1
<1>1. U64 \in Nat \ {0} /\ Kilo \in Nat
  <2>1. U64 > 0
    BY Parameters
  <2> QED
    BY <2>1, Parameters
<1>2. Multiplier(t.unit) \in Nat
  <2>1. Kilo * Kilo \in Nat
    BY <1>1
  <2>2. Kilo * Kilo * Kilo \in Nat
    BY <1>1, <2>1
  <2> QED
    BY <1>1, <2>1, <2>2 DEF IsSize, Multiplier
<1>3. t.num * Multiplier(t.unit) \in Nat
  BY <1>2 DEF IsSize
<1> QED
  BY <1>1, <1>3 DEF parse_size

----------------------------------------------------------------------------
(* The other values the codecs convert. *)

LEMMA SomeIs == \A x : Some(x) # None /\ Some(x)[1] = x
  BY DEF Some, None

LEMMA OptionRead ==
  ASSUME NEW o
  PROVE  ReadOption(o) = None \/ ReadOption(o) = Some(ReadOption(o)[1])
  BY DEF ReadOption, None, Some

\* What yamlString writes, and what YAML makes of it.
LEMMA Written ==
  ASSUME NEW s
  PROVE  LET w == yamlString(s) IN
         /\ w.str = s
         /\ s \in NotStrings \/ s \in Dashes => w.style = "bare"
         /\ w.style = "bare" => s \notin Multilines \cup Unquotables
         /\ Content(w) = s <=> s \notin Multilines
         /\ Content(w) \notin Multilines
         /\ InBrackets(w) <=> s \notin Unquotables
         /\ OnLine(w) <=> s \notin Unquotables \cup Dashes
         /\ AsKey(w) <=> s \notin Unquotables \cup Multilines
<1> DEFINE w == yamlString(s)
<1>1. w.str = s /\ (IF s \in NeedQuotes THEN w.style = "quoted" ELSE w.style = "bare")
  BY DEF yamlString
<1> HIDE DEF w
<1>2. /\ Multilines \subseteq NeedQuotes /\ Unquotables \subseteq NeedQuotes
      /\ "two words" \notin Multilines
      /\ NotStrings \cap NeedQuotes = {} /\ Dashes \cap NeedQuotes = {}
      /\ Multilines \cap Unquotables = {}
  BY DEF Multilines, Unquotables, NeedQuotes, NotStrings, Nulls, Dashes, Phrases, BadRegexes
<1>3. Content(w) = IF w.style = "quoted" /\ s \in Multilines THEN "two words" ELSE s
  BY <1>1 DEF Content, Folded
<1>4. Content(w) \notin Multilines /\ (Content(w) = s <=> s \notin Multilines)
  BY <1>1, <1>2, <1>3
<1>5. /\ InBrackets(w) <=> s \notin Unquotables
      /\ OnLine(w) <=> s \notin Unquotables \cup Dashes
      /\ AsKey(w) <=> s \notin Unquotables \cup Multilines
  BY <1>1, <1>2 DEF InBrackets, OnLine, AsKey
<1> QED
  BY <1>1, <1>2, <1>4, <1>5 DEF w

LEMMA LineKept ==
  ASSUME NEW s
  PROVE  OnLine(yamlString(s)) /\ Content(yamlString(s)) = s <=> ~LineForgotten(s)
BY Written DEF LineForgotten

LEMMA BracketsKept ==
  ASSUME NEW S
  PROVE  LET E == {yamlString(s) : s \in S} IN
         (\A sc \in E : InBrackets(sc)) /\ Strings(E) = S <=> \A s \in S : ~BracketsForgotten(s)
<1> DEFINE E == {yamlString(s) : s \in S}
<1>1. (\A sc \in E : InBrackets(sc)) <=> \A s \in S : s \notin Unquotables
  BY Written
<1>2. Strings(E) = {Content(yamlString(s)) : s \in S}
  BY DEF Strings
<1>3. ASSUME \A s \in S : s \notin Multilines
      PROVE  Strings(E) = S
  BY <1>2, <1>3, Written
<1>4. ASSUME NEW s \in S, s \in Multilines
      PROVE  Strings(E) # S
  <2>1. s \notin Strings(E)
    BY <1>2, <1>4, Written
  <2> QED
    BY <2>1
<1>5. Strings(E) = S <=> \A s \in S : s \notin Multilines
  BY <1>3, <1>4
<1> QED
  BY <1>1, <1>5 DEF BracketsForgotten

LEMMA TextKept ==
  ASSUME NEW o, o = None \/ o = Some(o[1])
  PROVE  LET e == EmitText(OrEmpty(o)) IN
         TextParses(e) /\ ReadOption(e) = o <=> ~TextForgotten(o)
<1>1. CASE o = None
  BY <1>1 DEF ReadOption, TextParses, EmitText, OrEmpty, TextForgotten, None
<1>2. ASSUME NEW x, o = Some(x)
      PROVE  LET e == EmitText(OrEmpty(o)) IN
             TextParses(e) /\ ReadOption(e) = o <=> ~TextForgotten(o)
  <2>1. o # None /\ OrEmpty(o) = x
    BY <1>2 DEF OrEmpty, None, Some
  <2>2. TextForgotten(o) <=> x = "" \/ x \in Nulls \/ LineForgotten(x)
    BY <1>2, <2>1 DEF TextForgotten, Some
  <2>3. x = "" => ReadOption(EmitText(x)) = None
    BY DEF ReadOption, EmitText
  <2>4. x # "" => EmitText(x) # None /\ EmitText(x)[1] = yamlString(x)
    BY DEF EmitText, Some, None
  <2>5. yamlString(x).str = x /\ (x \in Nulls => yamlString(x).style = "bare")
    BY Written DEF NotStrings
  <2>6. x # "" => ReadOption(EmitText(x)) =
                    IF x \in Nulls THEN None ELSE Some(Content(yamlString(x)))
    BY <2>4, <2>5 DEF ReadOption
  <2>7. x # "" => (TextParses(EmitText(x)) <=> OnLine(yamlString(x)))
    BY <2>4 DEF TextParses
  <2>8. \A c : Some(c) = o <=> c = x
    BY <1>2 DEF Some
  <2> QED
    BY <2>1, <2>2, <2>3, <2>6, <2>7, <2>8, LineKept
<1> QED
  BY <1>1, <1>2

LEMMA Options ==
  ASSUME NEW S
  PROVE  IsOption(None, S) /\ \A x \in S : IsOption(Some(x), S)
  BY DEF IsOption, None, Some

\* Sources and destinations.
LEMMA ItemKept ==
  ASSUME NEW x, IsOption(x.recursive, BOOLEAN)
  PROVE  LET it == ReadItem(x) IN
         /\ ItemParses(emitSourceLike(it)) /\ ReadItem(emitSourceLike(it)) = it
            <=> ~ItemForgotten(it)
         /\ IsOption(emitSourceLike(it).recursive, BOOLEAN)
<1> DEFINE it == ReadItem(x)
           e == emitSourceLike(it)
<1>1. /\ it = [type |-> x.type, list |-> it.list, recursive |-> it.recursive]
      /\ it.recursive \in BOOLEAN
      /\ it.type # "directory" => it.recursive = TRUE
  <2>1. x.recursive # None => x.recursive[1] \in BOOLEAN
    BY DEF IsOption, None
  <2> QED
    BY <2>1 DEF ReadItem
<1> HIDE DEF it
<1>2. /\ e.type = it.type
      /\ e.list = IF it.list = {} THEN None ELSE Some({yamlString(s) : s \in it.list})
      /\ e.recursive = IF it.type = "directory" THEN Some(it.recursive) ELSE None
  BY DEF emitSourceLike
<1> HIDE DEF e
<1>3. (e.type = "directory" => e.recursive = None \/ e.recursive[1]) = it.recursive
  BY <1>1, <1>2 DEF None, Some
<1> DEFINE E == {yamlString(s) : s \in it.list}
<1>4. ASSUME it.list = {}
      PROVE  ItemParses(e) /\ ReadItem(e) = it <=> ~ItemForgotten(it)
  <2>1. e.list = None
    BY <1>2, <1>4
  <2>2. ReadItem(e) = it
    BY <1>1, <1>2, <1>3, <1>4, <2>1 DEF ReadItem
  <2>3. ItemParses(e) <=> it.type \notin ListRequired
    BY <1>2, <2>1, Zenon DEF ItemParses
  <2>4. ItemForgotten(it) <=> it.type \in ListRequired
    BY <1>4 DEF ItemForgotten
  <2> QED
    BY <2>2, <2>3, <2>4
<1>5. ASSUME it.list # {}
      PROVE  ItemParses(e) /\ ReadItem(e) = it <=> ~ItemForgotten(it)
  <2>1. e.list # None /\ e.list[1] = E
    BY <1>2, <1>5 DEF None, Some
  <2> HIDE DEF E
  <2>2. ReadItem(e) = [type |-> it.type, list |-> Strings(E), recursive |-> it.recursive]
    BY <1>2, <1>3, <2>1 DEF ReadItem
  <2>3. ReadItem(e) = it <=> Strings(E) = it.list
    <3> DEFINE L == Strings(E)
    <3>1. ReadItem(e) = [type |-> it.type, list |-> L, recursive |-> it.recursive]
      BY <2>2
    <3> HIDE DEF L
    <3>2. ReadItem(e) = it => L = it.list
      <4>1. ReadItem(e).list = L
        BY <3>1
      <4> QED
        BY <4>1
    <3>3. L = it.list => ReadItem(e) = it
      BY <1>1, <3>1
    <3> QED
      BY <3>2, <3>3 DEF L
  <2>4. ItemParses(e) <=> /\ \A sc \in E : InBrackets(sc)
                          /\ \A sc \in E : ~(sc.style = "bare" /\ sc.str \in NotStrings)
    BY <2>1 DEF ItemParses
  <2>5. (\A sc \in E : ~(sc.style = "bare" /\ sc.str \in NotStrings))
        <=> \A s \in it.list : s \notin NotStrings
    BY Written DEF E
  <2>6. (\A sc \in E : InBrackets(sc)) /\ Strings(E) = it.list
        <=> \A s \in it.list : ~BracketsForgotten(s)
    BY BracketsKept DEF E
  <2>7. ItemForgotten(it) <=> ~(/\ \A s \in it.list : s \notin NotStrings
                                /\ \A s \in it.list : ~BracketsForgotten(s))
    BY <1>5, Zenon DEF ItemForgotten
  <2> QED
    BY <2>3, <2>4, <2>5, <2>6, <2>7
<1>7. IsOption(e.recursive, BOOLEAN)
  BY <1>1, <1>2, Options
<1> QED
  BY <1>4, <1>5, <1>7 DEF it, e

LEMMA ItemsKept ==
  ASSUME NEW xs, AreItems(xs)
  PROVE  LET its == ReadItems(xs)
             es == [i \in DOMAIN its |-> emitSourceLike(its[i])] IN
         /\ (\A i \in DOMAIN es : ItemParses(es[i])) /\ ReadItems(es) = its
            <=> ~(\E j \in DOMAIN its : ItemForgotten(its[j]))
         /\ AreItems(es)
<1> DEFINE its == ReadItems(xs)
           es == [i \in DOMAIN its |-> emitSourceLike(its[i])]
<1>1. its = [i \in DOMAIN xs |-> ReadItem(xs[i])]
  BY DEF ReadItems
<1>2. \A i \in DOMAIN xs : /\ ItemParses(es[i]) /\ ReadItem(es[i]) = its[i] <=> ~ItemForgotten(its[i])
                           /\ IsOption(es[i].recursive, BOOLEAN)
  <2> SUFFICES ASSUME NEW i \in DOMAIN xs
               PROVE  /\ ItemParses(es[i]) /\ ReadItem(es[i]) = its[i] <=> ~ItemForgotten(its[i])
                      /\ IsOption(es[i].recursive, BOOLEAN)
    OBVIOUS
  <2>1. IsOption(xs[i].recursive, BOOLEAN)
    BY DEF AreItems
  <2>2. es[i] = emitSourceLike(ReadItem(xs[i])) /\ its[i] = ReadItem(xs[i])
    BY <1>1
  <2> QED
    BY <2>1, <2>2, ItemKept
<1>3. DOMAIN its = DOMAIN xs /\ DOMAIN es = DOMAIN xs
  BY <1>1
<1>4. ReadItems(es) = [i \in DOMAIN xs |-> ReadItem(es[i])]
  BY <1>3 DEF ReadItems
<1> HIDE DEF its, es
<1>5. ReadItems(es) = its <=> \A i \in DOMAIN xs : ReadItem(es[i]) = its[i]
  <2>1. its = [i \in DOMAIN xs |-> its[i]]
    BY <1>1
  <2> QED
    BY <1>4, <2>1
<1> QED
  BY <1>2, <1>3, <1>5 DEF AreItems, its, es

\* Conditions.
LEMMA ConditionsKept ==
  ASSUME NEW x, AreSizes(x.size)
  PROVE  LET c == ReadConditions(x)
             e == emitConditions(Some(normalizeConditions(c))) IN
         /\ (e # None /\ ConditionsParse(e[1]) /\ ReadConditions(e[1]) = c)
            <=> ~ConditionsForgotten(c)
         /\ AreSizes(normalizeConditions(c).size)
<1> DEFINE c == ReadConditions(x)
           d == normalizeConditions(c)
           e == emitConditions(Some(d))
           ext == {yamlString(s) : s \in d.file_extensions}
           re == [f \in RegexFields |-> EmitText(d.regex[f])]
<1>1. /\ c = [size |-> c.size, file_extensions |-> c.file_extensions, regex |-> c.regex]
      /\ c.size = [f \in SizeFields |-> c.size[f]]
      /\ c.regex = [f \in RegexFields |-> c.regex[f]]
      /\ \A f \in SizeFields : c.size[f] = None \/ \E n \in 0 .. U64 - 1 : c.size[f] = Some(n)
      /\ \A f \in RegexFields : c.regex[f] = None \/ c.regex[f] = Some(c.regex[f][1])
  <2>1. ASSUME NEW f \in SizeFields
        PROVE  c.size[f] = None \/ \E n \in 0 .. U64 - 1 : c.size[f] = Some(n)
    <3>1. c.size[f] = IF x.size[f] = None THEN None ELSE Some(parse_size(x.size[f][1]))
      BY DEF ReadConditions
    <3>2. x.size[f] # None => parse_size(x.size[f][1]) \in 0 .. U64 - 1
      BY ParsedSize DEF AreSizes
    <3> QED
      BY <3>1, <3>2
  <2>2. ASSUME NEW f \in RegexFields
        PROVE  c.regex[f] = None \/ c.regex[f] = Some(c.regex[f][1])
    <3>1. c.regex[f] = ReadOption(x.regex[f])
      BY DEF ReadConditions
    <3> QED
      BY <3>1, OptionRead
  <2> QED
    BY <2>1, <2>2 DEF ReadConditions
<1> HIDE DEF c
<1>2. /\ d.size = [f \in SizeFields |->
                     IF c.size[f] = None THEN None ELSE Some(prettySize(JsNumber(c.size[f][1])))]
      /\ d.file_extensions = c.file_extensions
      /\ d.regex = [f \in RegexFields |-> OrEmpty(c.regex[f])]
  BY DEF normalizeConditions
<1> HIDE DEF d
<1>3. \A f \in SizeFields :
         \/ d.size[f] = None /\ c.size[f] = None
         \/ /\ d.size[f] # None /\ c.size[f] # None
            /\ IsSize(d.size[f][1])
            /\ Some(parse_size(d.size[f][1])) = c.size[f] <=> ~SizeForgotten(c.size[f][1])
  <2> SUFFICES ASSUME NEW f \in SizeFields, c.size[f] # None
               PROVE  /\ d.size[f] # None
                      /\ IsSize(d.size[f][1])
                      /\ Some(parse_size(d.size[f][1])) = c.size[f] <=> ~SizeForgotten(c.size[f][1])
    BY <1>2
  <2>1. PICK n \in 0 .. U64 - 1 : c.size[f] = Some(n)
    BY <1>1
  <2>2. d.size[f] = Some(prettySize(JsNumber(n))) /\ c.size[f][1] = n
    BY <1>2, <2>1 DEF Some
  <2>3. d.size[f] # None /\ d.size[f][1] = prettySize(JsNumber(n))
    BY <2>2 DEF Some, None
  <2>4. \A m : Some(m) = Some(n) <=> m = n
    BY DEF Some
  <2> QED
    BY <2>1, <2>2, <2>3, <2>4, SizeKept
<1>4. \A f \in RegexFields : TextParses(re[f]) /\ ReadOption(re[f]) = c.regex[f]
                               <=> ~TextForgotten(c.regex[f])
  BY <1>1, <1>2, TextKept
<1>5. \A f \in RegexFields : d.regex[f] = "" => c.regex[f] = None \/ TextForgotten(c.regex[f])
  BY <1>1, <1>2 DEF OrEmpty, TextForgotten, Some, None
<1>6. (\A sc \in ext : InBrackets(sc)) /\ Strings(ext) = c.file_extensions
      <=> \A s \in c.file_extensions : ~BracketsForgotten(s)
  BY <1>2, BracketsKept
<1> DEFINE blank == /\ \A f \in SizeFields : d.size[f] = None
                    /\ d.file_extensions = {}
                    /\ \A f \in RegexFields : d.regex[f] = ""
           texts == \A f \in RegexFields : TextParses(re[f]) /\ ReadOption(re[f]) = c.regex[f]
           exts == (\A sc \in ext : InBrackets(sc)) /\ Strings(ext) = c.file_extensions
           sizes == \A f \in SizeFields : c.size[f] # None =>
                        Some(parse_size(d.size[f][1])) = c.size[f]
<1>7. e = IF blank THEN None ELSE Some([size |-> d.size, file_extensions |-> ext, regex |-> re])
  BY DEF emitConditions, Some, None
<1> HIDE DEF e, re, ext, blank
<1>8. blank => ConditionsForgotten(c)
  BY <1>2, <1>3, <1>5 DEF blank, ConditionsForgotten
<1>9. ~blank => (ConditionsForgotten(c) <=> ~texts \/ ~exts \/ ~sizes)
  <2> SUFFICES ASSUME ~blank
               PROVE  ConditionsForgotten(c) <=> ~texts \/ ~exts \/ ~sizes
    OBVIOUS
  <2>1. texts <=> \A f \in RegexFields : ~TextForgotten(c.regex[f])
    BY <1>4
  <2>2. exts <=> \A s \in c.file_extensions : ~BracketsForgotten(s)
    BY <1>6
  <2>3. sizes <=> \A f \in SizeFields : c.size[f] # None => ~SizeForgotten(c.size[f][1])
    BY <1>3
  <2>4. (\A f \in RegexFields : c.regex[f] = None) => \A f \in RegexFields : d.regex[f] = ""
    BY <1>2 DEF OrEmpty
  <2>5. (\A f \in SizeFields : c.size[f] = None) => \A f \in SizeFields : d.size[f] = None
    BY <1>3
  <2>6. ~(/\ \A f \in SizeFields : c.size[f] = None
          /\ \A f \in RegexFields : c.regex[f] = None
          /\ c.file_extensions = {})
    BY <1>2, <2>4, <2>5 DEF blank
  <2> HIDE DEF texts, exts, sizes
  <2> QED
    BY <2>1, <2>2, <2>3, <2>6, Zenon DEF ConditionsForgotten
<1>10. ASSUME ~blank
       PROVE  e # None /\ (ConditionsParse(e[1]) /\ ReadConditions(e[1]) = c <=> texts /\ exts /\ sizes)
  <2> DEFINE w == [size |-> d.size, file_extensions |-> ext, regex |-> re]
             cs == [f \in SizeFields |-> IF d.size[f] = None THEN None
                                         ELSE Some(parse_size(d.size[f][1]))]
             cr == [f \in RegexFields |-> ReadOption(re[f])]
             ce == Strings(ext)
  <2>1. e # None /\ e[1] = w
    BY <1>7, <1>10, SomeIs
  <2>2. w.size = d.size /\ w.file_extensions = ext /\ w.regex = re
    OBVIOUS
  <2> HIDE DEF w
  <2>3. ConditionsParse(w) <=> /\ \A sc \in ext : InBrackets(sc)
                               /\ \A f \in RegexFields : TextParses(re[f])
    BY <2>2 DEF ConditionsParse
  <2>4. ReadConditions(w) = [size |-> cs, file_extensions |-> ce, regex |-> cr]
    BY <2>2 DEF ReadConditions
  <2>5. cs = c.size <=> sizes
    BY <1>1, <1>3
  <2>6. cr = c.regex <=> \A f \in RegexFields : ReadOption(re[f]) = c.regex[f]
    BY <1>1
  <2> HIDE DEF cs, cr, ce
  <2>7. ReadConditions(w) = c <=> cs = c.size /\ ce = c.file_extensions /\ cr = c.regex
    <3>1. ASSUME ReadConditions(w) = c
          PROVE  cs = c.size /\ ce = c.file_extensions /\ cr = c.regex
      <4>1. /\ ReadConditions(w).size = cs /\ ReadConditions(w).file_extensions = ce
            /\ ReadConditions(w).regex = cr
        BY <2>4
      <4> QED
        BY <3>1, <4>1
    <3>2. ASSUME cs = c.size, ce = c.file_extensions, cr = c.regex
          PROVE  ReadConditions(w) = c
      BY <1>1, <2>4, <3>2, Zenon
    <3> QED
      BY <3>1, <3>2
  <2>8. ConditionsParse(w) /\ ReadConditions(w) = c <=> texts /\ exts /\ sizes
    BY <2>3, <2>5, <2>6, <2>7 DEF ce
  <2> QED
    BY <2>1, <2>8
<1>13. (e # None /\ ConditionsParse(e[1]) /\ ReadConditions(e[1]) = c) <=> ~ConditionsForgotten(c)
  <2>1. CASE blank
    BY <1>7, <1>8, <2>1
  <2>2. CASE ~blank
    BY <1>9, <1>10, <2>2
  <2> QED
    BY <2>1, <2>2
<1>14. AreSizes(d.size)
  BY <1>3 DEF AreSizes
<1> QED
  BY <1>13, <1>14 DEF c, d, e

\* The rule. What the form shows of it is written as one rule.
RuleForgotten(r) ==
    \/ ~r.enabled
    \/ LineForgotten(r.id)
    \/ r.name = "" \/ LineForgotten(r.name)
    \/ TextForgotten(r.message)
    \/ \E j \in DOMAIN r.sources : ItemForgotten(r.sources[j])
    \/ \E j \in DOMAIN r.destinations : ItemForgotten(r.destinations[j])
    \/ r.conditions # None /\ ConditionsForgotten(r.conditions[1])

LEMMA EnabledIsBoolean ==
  ASSUME NEW x, IsRule(x)
  PROVE  ReadRule(x).enabled \in BOOLEAN
<1>1. x.enabled # None => x.enabled[1] \in BOOLEAN
  BY DEF IsRule, IsOption, None
<1> QED
  BY <1>1 DEF ReadRule

LEMMA RuleKept ==
  ASSUME NEW x, IsRule(x), NEW r, r = ReadRule(x), IsSlug(r.id), NEW f,
         f.rule = [id |-> r.id, name |-> r.name, action |-> r.action,
                   message |-> OrEmpty(r.message), flags |-> r.flags],
         f.sources = r.sources, f.destinations = r.destinations,
         f.conditions = IF r.conditions = None THEN None
                        ELSE Some(normalizeConditions(r.conditions[1]))
  PROVE  \E e : emitRule(f) = <<e>> /\ (RuleParses(e) /\ ReadRule(e) = r <=> ~RuleForgotten(r))
<1> DEFINE src == [i \in DOMAIN f.sources |-> emitSourceLike(f.sources[i])]
           dst == [i \in DOMAIN f.destinations |-> emitSourceLike(f.destinations[i])]
           con == emitConditions(f.conditions)
           e == [id |-> Some(yamlString(r.id)), name |-> EmitText(r.name),
                 enabled |-> None, action |-> r.action,
                 message |-> EmitText(OrEmpty(r.message)), flags |-> r.flags,
                 sources |-> src, destinations |-> dst, conditions |-> con]
           readCon == IF con = None THEN None ELSE Some(ReadConditions(con[1]))
<1>1. /\ r.sources = ReadItems(x.sources) /\ r.destinations = ReadItems(x.destinations)
      /\ r.message = None \/ r.message = Some(r.message[1])
      /\ r = [id |-> r.id, name |-> r.name, enabled |-> r.enabled, action |-> r.action,
              message |-> r.message, flags |-> r.flags, sources |-> r.sources,
              destinations |-> r.destinations, conditions |-> r.conditions]
      /\ r.enabled \in BOOLEAN
  BY OptionRead, EnabledIsBoolean DEF ReadRule
<1>2. r.conditions = IF x.conditions = None THEN None ELSE Some(ReadConditions(x.conditions[1]))
  BY DEF ReadRule
<1>0. /\ f.rule.id = r.id /\ f.rule.name = r.name /\ f.rule.action = r.action
      /\ f.rule.message = OrEmpty(r.message) /\ f.rule.flags = r.flags
  OBVIOUS
<1>3. emitRule(f) = <<e>>
  <2>1. IsSlug(f.rule.id)
    BY <1>0
  <2>2. ~(f.rule.id = "")
    BY <2>1 DEF IsSlug, NeedQuotes
  <2> QED
    BY <1>0, <2>2 DEF emitRule
<1> DEFINE itemsRead(items, es) ==
             (\A i \in DOMAIN es : ItemParses(es[i])) /\ ReadItems(es) = items
           condRead == (con # None => ConditionsParse(con[1])) /\ readCon = r.conditions
<1>4. itemsRead(r.sources, src) <=> ~(\E j \in DOMAIN r.sources : ItemForgotten(r.sources[j]))
  BY <1>1, ItemsKept DEF IsRule
<1>5. itemsRead(r.destinations, dst)
      <=> ~(\E j \in DOMAIN r.destinations : ItemForgotten(r.destinations[j]))
  BY <1>1, ItemsKept DEF IsRule
<1>6. condRead <=> ~(r.conditions # None /\ ConditionsForgotten(r.conditions[1]))
  <2>1. CASE x.conditions = None
    <3>1. r.conditions = None
      BY <1>2, <2>1
    <3>2. con = None
      BY <3>1 DEF emitConditions
    <3> QED
      BY <3>1, <3>2
  <2>2. CASE x.conditions # None
    <3> DEFINE c == ReadConditions(x.conditions[1])
    <3>1. r.conditions = Some(c) /\ r.conditions # None /\ r.conditions[1] = c
      BY <1>2, <2>2, SomeIs
    <3>2. con = emitConditions(Some(normalizeConditions(c)))
      BY <3>1
    <3>3. (con # None /\ ConditionsParse(con[1]) /\ ReadConditions(con[1]) = c)
          <=> ~ConditionsForgotten(c)
      BY <2>2, <3>2, ConditionsKept DEF IsRule
    <3> HIDE DEF c, con
    <3>4. readCon = Some(c) <=> con # None /\ ReadConditions(con[1]) = c
      BY DEF Some, None
    <3> QED
      BY <3>1, <3>3, <3>4
  <2> QED
    BY <2>1, <2>2
<1> DEFINE id == yamlString(r.id)
           msg == EmitText(OrEmpty(r.message))
<1> HIDE DEF src, dst, con, readCon, msg, id
<1>7. /\ Some(id) # None /\ Some(id)[1] = id
      /\ EmitText(r.name) = None <=> r.name = ""
      /\ r.name # "" => EmitText(r.name)[1] = yamlString(r.name)
  BY DEF EmitText, Some, None
<1>8. TextParses(msg) /\ ReadOption(msg) = r.message <=> ~TextForgotten(r.message)
  BY <1>1, TextKept DEF msg
<1>9. OnLine(id) /\ Content(id) = r.id <=> ~LineForgotten(r.id)
  BY LineKept DEF id
<1>10. e = [id |-> Some(id), name |-> EmitText(r.name), enabled |-> None, action |-> r.action,
            message |-> msg, flags |-> r.flags, sources |-> src, destinations |-> dst,
            conditions |-> con]
  BY DEF id, msg
<1>11. /\ e.id = Some(id) /\ e.name = EmitText(r.name) /\ e.enabled = None
       /\ e.action = r.action /\ e.message = msg /\ e.flags = r.flags
       /\ e.sources = src /\ e.destinations = dst /\ e.conditions = con
  BY <1>10
<1> HIDE DEF e
<1>12. CASE r.name = ""
  <2>1. ~RuleParses(e)
    BY <1>7, <1>11, <1>12 DEF RuleParses
  <2> QED
    BY <1>3, <1>12, <2>1 DEF RuleForgotten
<1>13. CASE r.name # ""
  <2> DEFINE name == yamlString(r.name)
             nameKept == OnLine(name) /\ Content(name) = r.name
             idKept == OnLine(id) /\ Content(id) = r.id
             msgKept == TextParses(msg) /\ ReadOption(msg) = r.message
  <2>1. e.name # None /\ e.name[1] = name /\ e.id # None /\ e.id[1] = id
    BY <1>7, <1>11, <1>13
  <2> HIDE DEF name
  <2>2. RuleParses(e) <=> /\ OnLine(id) /\ OnLine(name) /\ TextParses(msg)
                          /\ \A i \in DOMAIN src : ItemParses(src[i])
                          /\ \A i \in DOMAIN dst : ItemParses(dst[i])
                          /\ con # None => ConditionsParse(con[1])
    BY <1>11, <2>1, Zenon DEF RuleParses
  <2>3. ReadRule(e) = [id |-> Content(id), name |-> Content(name), enabled |-> TRUE,
                       action |-> r.action, message |-> ReadOption(msg), flags |-> r.flags,
                       sources |-> ReadItems(src), destinations |-> ReadItems(dst),
                       conditions |-> readCon]
    BY <1>11, <2>1 DEF ReadRule, readCon
  <2>4. ReadRule(e) = r <=> /\ Content(id) = r.id /\ Content(name) = r.name
                            /\ r.enabled /\ ReadOption(msg) = r.message
                            /\ ReadItems(src) = r.sources /\ ReadItems(dst) = r.destinations
                            /\ readCon = r.conditions
    <3> DEFINE a == Content(id)
               b == Content(name)
               m == ReadOption(msg)
               k == ReadItems(src)
               l == ReadItems(dst)
    <3>1. ReadRule(e) = [id |-> a, name |-> b, enabled |-> TRUE, action |-> r.action,
                         message |-> m, flags |-> r.flags, sources |-> k, destinations |-> l,
                         conditions |-> readCon]
      BY <2>3
    <3> HIDE DEF a, b, m, k, l
    <3>2. ASSUME ReadRule(e) = r
          PROVE  /\ a = r.id /\ b = r.name /\ TRUE = r.enabled /\ m = r.message
                 /\ k = r.sources /\ l = r.destinations /\ readCon = r.conditions
      <4>1. /\ ReadRule(e).id = a /\ ReadRule(e).name = b /\ ReadRule(e).enabled = TRUE
            /\ ReadRule(e).message = m /\ ReadRule(e).sources = k
            /\ ReadRule(e).destinations = l /\ ReadRule(e).conditions = readCon
        BY <3>1
      <4> QED
        BY <3>2, <4>1
    <3>3. ASSUME a = r.id, b = r.name, TRUE = r.enabled, m = r.message, k = r.sources,
                 l = r.destinations, readCon = r.conditions
          PROVE  ReadRule(e) = r
      BY <1>1, <3>1, <3>3, Zenon
    <3>4. r.enabled <=> TRUE = r.enabled
      BY <1>1
    <3> QED
      BY <3>2, <3>3, <3>4 DEF a, b, m, k, l
  <2>5. nameKept <=> ~LineForgotten(r.name)
    BY LineKept DEF name
  <2>6. RuleParses(e) /\ ReadRule(e) = r <=>
          /\ r.enabled /\ idKept /\ nameKept /\ msgKept
          /\ itemsRead(r.sources, src) /\ itemsRead(r.destinations, dst) /\ condRead
    BY <2>2, <2>4, Zenon
  <2>7. idKept <=> ~LineForgotten(r.id)
    BY <1>9
  <2>8. msgKept <=> ~TextForgotten(r.message)
    BY <1>8
  <2> HIDE DEF nameKept, idKept, msgKept, itemsRead, condRead
  <2>9. RuleParses(e) /\ ReadRule(e) = r <=> ~RuleForgotten(r)
    BY <1>4, <1>5, <1>6, <1>13, <2>5, <2>6, <2>7, <2>8, Zenon DEF RuleForgotten
  <2> QED
    BY <1>3, <2>9
<1> QED
  BY <1>12, <1>13

----------------------------------------------------------------------------
(* The document. *)

LEMMA TagsKept ==
  ASSUME NEW T, \A t \in T : t = [key |-> t.key, value |-> t.value]
  PROVE  LET E == {[key |-> yamlString(t.key), value |-> yamlString(t.value)] : t \in T} IN
         (\A t \in E : AsKey(t.key) /\ OnLine(t.value)) /\ ReadTags(E) = T
         <=> \A t \in T : ~BracketsForgotten(t.key) /\ ~LineForgotten(t.value)
<1> DEFINE E == {[key |-> yamlString(t.key), value |-> yamlString(t.value)] : t \in T}
           read(t) == [key |-> Content(yamlString(t.key)), value |-> Content(yamlString(t.value))]
<1>1. (\A t \in E : AsKey(t.key) /\ OnLine(t.value))
      <=> \A t \in T : /\ t.key \notin Unquotables \cup Multilines
                       /\ t.value \notin Unquotables \cup Dashes
  <2>1. (\A t \in E : AsKey(t.key) /\ OnLine(t.value))
        <=> \A t \in T : AsKey(yamlString(t.key)) /\ OnLine(yamlString(t.value))
    <3> DEFINE w(t) == [key |-> yamlString(t.key), value |-> yamlString(t.value)]
    <3>1. E = {w(t) : t \in T}
      OBVIOUS
    <3>2. \A t \in T : w(t).key = yamlString(t.key) /\ w(t).value = yamlString(t.value)
      OBVIOUS
    <3> HIDE DEF E, w
    <3> QED
      BY <3>1, <3>2
  <2> HIDE DEF E
  <2>2. \A t \in T : /\ AsKey(yamlString(t.key)) <=> t.key \notin Unquotables \cup Multilines
                     /\ OnLine(yamlString(t.value)) <=> t.value \notin Unquotables \cup Dashes
    BY Written
  <2> QED
    BY <2>1, <2>2, Zenon
<1>2. ReadTags(E) = {read(t) : t \in T}
  <2> DEFINE w(t) == [key |-> yamlString(t.key), value |-> yamlString(t.value)]
             content(u) == [key |-> Content(u.key), value |-> Content(u.value)]
  <2>1. E = {w(t) : t \in T} /\ ReadTags(E) = {content(u) : u \in E}
    BY Zenon DEF ReadTags
  <2>2. \A t \in T : content(w(t)) = read(t)
    OBVIOUS
  <2> HIDE DEF E, w, content, read
  <2> QED
    BY <2>1, <2>2
<1> HIDE DEF E
<1>3. ASSUME \A t \in T : t.key \notin Multilines /\ t.value \notin Multilines
      PROVE  ReadTags(E) = T
  <2>1. \A t \in T : Content(yamlString(t.key)) = t.key /\ Content(yamlString(t.value)) = t.value
    BY <1>3, Written
  <2>2. \A t \in T : read(t) = t
    BY <2>1
  <2> HIDE DEF read
  <2> QED
    BY <1>2, <2>2
<1>4. ASSUME NEW u \in T, u.value \in Multilines
      PROVE  ReadTags(E) # T
  <2>1. ASSUME NEW t \in T
        PROVE  read(t).value \notin Multilines
    BY Written
  <2> HIDE DEF read
  <2> QED
    BY <1>2, <1>4, <2>1
<1> HIDE DEF read
<1>5. \A t \in T : /\ BracketsForgotten(t.key) <=> t.key \in Unquotables \cup Multilines
                   /\ LineForgotten(t.value) <=> t.value \in Unquotables \cup Dashes \cup Multilines
  BY DEF BracketsForgotten, LineForgotten
<1> QED
  BY <1>1, <1>3, <1>4, <1>5 DEF E

\* Targets: with one kind of selector at most, the mode writes all of them.
LEMMA TargetsWritten ==
  ASSUME NEW p, NEW f, f.mode = parsedTargetsToForm(p),
         f.tags = p.tags, f.groups = p.groups, f.agent_ids = p.agent_ids,
         \A s, t \in {"tags", "groups", "agent_ids"} : s # t => p[s] = {} \/ p[t] = {}
  PROVE  /\ emitTags(f) =
              {[key |-> yamlString(t.key), value |-> yamlString(t.value)] : t \in p.tags}
         /\ emitTargets(f, "groups") = {yamlString(s) : s \in p.groups}
         /\ emitTargets(f, "agent_ids") = {yamlString(s) : s \in p.agent_ids}
<1>1. /\ p.tags # {} => f.mode = "tags" /\ p.groups = {} /\ p.agent_ids = {}
      /\ p.groups # {} => f.mode = "groups" /\ p.tags = {} /\ p.agent_ids = {}
      /\ p.agent_ids # {} => f.mode = "agent_ids" /\ p.tags = {} /\ p.groups = {}
  BY DEF parsedTargetsToForm
<1>2. emitTags(f) =
        IF f.mode = "tags"
        THEN {[key |-> yamlString(t.key), value |-> yamlString(t.value)] : t \in p.tags} ELSE {}
  BY DEF emitTags
<1>3. emitTargets(f, "groups") = IF f.mode = "groups" THEN {yamlString(s) : s \in p.groups} ELSE {}
  BY DEF emitTargets
<1>4. emitTargets(f, "agent_ids") =
        IF f.mode = "agent_ids" THEN {yamlString(s) : s \in p.agent_ids} ELSE {}
  BY DEF emitTargets
<1>5. emitTags(f) =
        {[key |-> yamlString(t.key), value |-> yamlString(t.value)] : t \in p.tags}
  BY <1>1, <1>2
<1>6. emitTargets(f, "groups") = {yamlString(s) : s \in p.groups}
  BY <1>1, <1>3
<1>7. emitTargets(f, "agent_ids") = {yamlString(s) : s \in p.agent_ids}
  BY <1>1, <1>4
<1> QED
  BY <1>5, <1>6, <1>7

\* What listUnsupported leaves to the form.
LEMMA Supported ==
  ASSUME NEW p, listUnsupported(p) = {}
  PROVE  /\ ~(Len(p.outbound) > 1) /\ p.inbound = <<>> /\ ~p.exclude
         /\ p.monitored_paths = {} /\ p.classifiers = {}
         /\ \A s, t \in {"tags", "groups", "agent_ids"} : s # t => p[s] = {} \/ p[t] = {}
<1>1. \A what \in {"outbound", "inbound", "mix", "exclude", "monitored_paths", "classifiers"} :
         what \notin listUnsupported(p)
  OBVIOUS
<1> QED
  BY <1>1, Zenon DEF listUnsupported

\* Whatever document Policy::from_yaml accepts: a policy that listUnsupported
\* calls form-friendly comes back from the form unchanged if and only if
\* it is not one of those FormForgets names (formToYaml, parsedToFormState).
THEOREM RoundTrip ==
  ASSUME NEW y, IsDocument(y), from_yaml(y) # None, listUnsupported(ReadPolicy(y)) = {}
  PROVE  LET p == ReadPolicy(y) IN
         from_yaml(formToYaml(parsedToFormState(p))) = Some(p) <=> ~FormForgets(p)
<1> DEFINE p == ReadPolicy(y)
           f == parsedToFormState(p)
           z == formToYaml(f)
<1>1. Parses(y) /\ Valid(p)
  BY DEF from_yaml
<1>2. /\ p = [header |-> p.header, name |-> p.name, description |-> p.description,
              version |-> p.version, priority |-> p.priority, os |-> p.os, tags |-> p.tags,
              groups |-> p.groups, agent_ids |-> p.agent_ids, exclude |-> p.exclude,
              inbound |-> p.inbound, outbound |-> p.outbound,
              monitored_paths |-> p.monitored_paths, classifiers |-> p.classifiers]
      /\ p.header \in BOOLEAN /\ p.exclude \in BOOLEAN
      /\ p.outbound = ReadRules(y.outbound)
      /\ p.description = None \/ p.description = Some(p.description[1])
      /\ \A t \in p.tags : t = [key |-> t.key, value |-> t.value]
  <2>1. p.tags = ReadTags(y.tags)
    BY DEF ReadPolicy
  <2>2. \A t \in p.tags : t = [key |-> t.key, value |-> t.value]
    BY <2>1 DEF ReadTags
  <2> QED
    BY <2>2, OptionRead DEF ReadPolicy, IsDocument
<1>3. /\ ~(Len(p.outbound) > 1) /\ p.inbound = <<>> /\ ~p.exclude
      /\ p.monitored_paths = {} /\ p.classifiers = {}
      /\ \A s, t \in {"tags", "groups", "agent_ids"} : s # t => p[s] = {} \/ p[t] = {}
  BY Supported
<1>4. p.outbound = <<>> \/ \E x : p.outbound = <<ReadRule(x)>> /\ IsRule(x)
  <2> DEFINE n == Len(y.outbound)
  <2>1. n \in Nat /\ DOMAIN y.outbound = 1 .. n
    BY DEF IsDocument
  <2>2. p.outbound = [i \in 1 .. n |-> ReadRule(y.outbound[i])]
    BY <1>2, <2>1 DEF ReadRules
  <2> HIDE DEF n, p
  <2>3. Len(p.outbound) = n
    BY <2>1, <2>2
  <2>4. n = 0 \/ n = 1
    BY <1>3, <2>1, <2>3
  <2>5. CASE n = 0
    BY <2>2, <2>5
  <2>6. CASE n = 1
    <3>1. p.outbound = <<ReadRule(y.outbound[1])>>
      BY <2>2, <2>6
    <3>2. IsRule(y.outbound[1])
      BY <2>1, <2>6 DEF IsDocument
    <3> QED
      BY <3>1, <3>2
  <2> QED
    BY <2>4, <2>5, <2>6
<1> HIDE DEF p
<1>5. /\ f.name = p.name /\ f.description = OrEmpty(p.description) /\ f.priority = p.priority
      /\ f.mode = parsedTargetsToForm(p) /\ f.os = p.os
      /\ f.tags = p.tags /\ f.groups = p.groups /\ f.agent_ids = p.agent_ids
  BY DEF parsedToFormState
<1>6. /\ p.outbound = <<>> => f.rule.id = "my-rule" /\ f.rule.name = ""
      /\ p.outbound # <<>> =>
            /\ f.rule = [id |-> p.outbound[1].id, name |-> p.outbound[1].name,
                         action |-> p.outbound[1].action,
                         message |-> OrEmpty(p.outbound[1].message),
                         flags |-> p.outbound[1].flags]
            /\ f.sources = p.outbound[1].sources
            /\ f.destinations = p.outbound[1].destinations
            /\ f.conditions = IF p.outbound[1].conditions = None THEN None
                              ELSE Some(normalizeConditions(p.outbound[1].conditions[1]))
  BY DEF parsedToFormState, defaultRuleState
<1> HIDE DEF f
<1>7. /\ z.name # None /\ z.inbound = <<>> /\ z.outbound = emitRule(f)
  BY DEF formToYaml, Some, None
<1>8. CASE p.outbound = <<>>
  <2>1. FormForgets(p)
    BY <1>8 DEF FormForgets
  <2>2. \E e : emitRule(f) = <<e>> /\ e.name = None
    <3> DEFINE e == [id |-> Some(yamlString(f.rule.id)), name |-> EmitText(f.rule.name),
                     enabled |-> None, action |-> f.rule.action,
                     message |-> EmitText(f.rule.message), flags |-> f.rule.flags,
                     sources |-> [i \in DOMAIN f.sources |-> emitSourceLike(f.sources[i])],
                     destinations |-> [i \in DOMAIN f.destinations |->
                                         emitSourceLike(f.destinations[i])],
                     conditions |-> emitConditions(f.conditions)]
    <3>1. ~(f.rule.id = "") /\ EmitText(f.rule.name) = None
      BY <1>6, <1>8 DEF EmitText
    <3>2. emitRule(f) = <<e>>
      BY <3>1, Zenon DEF emitRule
    <3>3. e.name = None
      BY <3>1
    <3> QED
      BY <3>2, <3>3
  <2>3. ~Parses(z)
    BY <1>7, <2>2 DEF Parses, RuleParses
  <2>4. from_yaml(z) = None
    BY <2>3 DEF from_yaml
  <2> QED
    BY <2>1, <2>4, SomeIs DEF p, f
<1>9. ASSUME NEW x, IsRule(x), p.outbound = <<ReadRule(x)>>
      PROVE  from_yaml(z) = Some(p) <=> ~FormForgets(p)
  <2> DEFINE r == ReadRule(x)
  <2>1. p.outbound # <<>> /\ p.outbound[1] = r
    BY <1>9
  <2>2. IsSlug(r.id)
    <3>1. p.inbound \o p.outbound = <<r>>
      BY <1>3, <1>9
    <3>2. 1 \in DOMAIN <<r>> /\ <<r>>[1] = r
      OBVIOUS
    <3>3. RuleValid(r)
      BY <1>1, <3>1, <3>2 DEF Valid
    <3> QED
      BY <3>3 DEF RuleValid
  <2>3. PICK e : emitRule(f) = <<e>> /\ (RuleParses(e) /\ ReadRule(e) = r <=> ~RuleForgotten(r))
    <3> HIDE DEF r
    <3>1. r = ReadRule(x)
      BY DEF r
    <3>2. /\ f.rule = [id |-> r.id, name |-> r.name, action |-> r.action,
                       message |-> OrEmpty(r.message), flags |-> r.flags]
          /\ f.sources = r.sources /\ f.destinations = r.destinations
          /\ f.conditions = IF r.conditions = None THEN None
                            ELSE Some(normalizeConditions(r.conditions[1]))
      BY <1>6, <2>1
    <3> QED
      BY <1>9, <2>2, <3>1, <3>2, RuleKept
  <2> HIDE DEF r
  <2> DEFINE name == yamlString(p.name)
             desc == EmitText(f.description)
             tags == {[key |-> yamlString(t.key), value |-> yamlString(t.value)] : t \in p.tags}
             quoteAll(S) == {yamlString(s) : s \in S}
  <2>4. z = [header |-> TRUE, name |-> Some(name), description |-> desc, version |-> None,
             priority |-> Some(p.priority), os |-> quoteAll(p.os), tags |-> tags,
             groups |-> quoteAll(p.groups), agent_ids |-> quoteAll(p.agent_ids),
             exclude |-> FALSE, inbound |-> <<>>, outbound |-> <<e>>,
             monitored_paths |-> {}, classifiers |-> {}]
    <3>1. /\ emitTags(f) = tags
          /\ emitTargets(f, "groups") = quoteAll(p.groups)
          /\ emitTargets(f, "agent_ids") = quoteAll(p.agent_ids)
      BY <1>3, <1>5, TargetsWritten
    <3> QED
      BY <1>5, <2>3, <3>1 DEF formToYaml
  <2> DEFINE os == quoteAll(p.os)
             groups == quoteAll(p.groups)
             ids == quoteAll(p.agent_ids)
  <2> HIDE DEF z, name, desc, tags, os, groups, ids
  <2>5. /\ z.header = TRUE /\ z.name # None /\ z.name[1] = name /\ z.description = desc
        /\ z.version = None /\ z.priority # None /\ z.priority[1] = p.priority
        /\ z.os = os /\ z.tags = tags /\ z.groups = groups /\ z.agent_ids = ids
        /\ z.exclude = FALSE /\ z.inbound = <<>> /\ z.outbound = <<e>>
        /\ z.monitored_paths = {} /\ z.classifiers = {}
    BY <2>4, SomeIs DEF os, groups, ids
  <2> DEFINE listParses(L) == \A sc \in L : InBrackets(sc)
             tagsParse == \A t \in tags : AsKey(t.key) /\ OnLine(t.value)
  <2>6. Parses(z) <=> /\ OnLine(name) /\ TextParses(desc) /\ tagsParse
                      /\ listParses(os) /\ listParses(groups) /\ listParses(ids)
                      /\ RuleParses(e)
    <3>1. DOMAIN z.inbound = {} /\ DOMAIN z.outbound = {1} /\ z.outbound[1] = e
      BY <2>5
    <3>2. (\A sc \in z.os \cup z.groups \cup z.agent_ids : InBrackets(sc))
          <=> listParses(os) /\ listParses(groups) /\ listParses(ids)
      BY <2>5
    <3> QED
      BY <2>5, <3>1, <3>2, Zenon DEF Parses
  <2>7. ReadPolicy(z) =
          [header |-> TRUE, name |-> Content(name), description |-> ReadOption(desc),
           version |-> 1, priority |-> p.priority, os |-> Strings(os),
           tags |-> ReadTags(tags), groups |-> Strings(groups), agent_ids |-> Strings(ids),
           exclude |-> FALSE, inbound |-> <<>>, outbound |-> <<ReadRule(e)>>,
           monitored_paths |-> {}, classifiers |-> {}]
    <3>1. ReadRules(<<>>) = <<>> /\ ReadRules(<<e>>) = <<ReadRule(e)>>
      BY DEF ReadRules
    <3>2. ReadRules(z.inbound) = <<>> /\ ReadRules(z.outbound) = <<ReadRule(e)>>
      BY <2>5, <3>1
    <3> QED
      BY <2>5, <3>2, Zenon DEF ReadPolicy
  <2> DEFINE nameRead == Content(name) = p.name
             descRead == ReadOption(desc) = p.description
             tagsRead == ReadTags(tags) = p.tags
             listRead(L, S) == Strings(L) = S
             ruleRead == ReadRule(e) = r
  <2>8. ReadPolicy(z) = p <=> /\ nameRead /\ descRead /\ p.version = 1 /\ tagsRead
                              /\ listRead(os, p.os) /\ listRead(groups, p.groups)
                              /\ listRead(ids, p.agent_ids) /\ ruleRead
    <3> DEFINE a == Content(name)
               b == ReadOption(desc)
               c == ReadTags(tags)
               k == Strings(os)
               l == Strings(groups)
               m == Strings(ids)
               q == ReadRule(e)
    <3>1. ReadPolicy(z) =
            [header |-> TRUE, name |-> a, description |-> b, version |-> 1,
             priority |-> p.priority, os |-> k, tags |-> c, groups |-> l, agent_ids |-> m,
             exclude |-> FALSE, inbound |-> <<>>, outbound |-> <<q>>,
             monitored_paths |-> {}, classifiers |-> {}]
      BY <2>7
    <3> HIDE DEF a, b, c, k, l, m, q
    <3>2. p.outbound = <<r>>
      BY <1>9 DEF r
    <3>3. ASSUME ReadPolicy(z) = p
          PROVE  /\ a = p.name /\ b = p.description /\ p.version = 1 /\ c = p.tags
                 /\ k = p.os /\ l = p.groups /\ m = p.agent_ids /\ q = r
      <4>1. /\ ReadPolicy(z).name = a /\ ReadPolicy(z).description = b
            /\ ReadPolicy(z).version = 1 /\ ReadPolicy(z).tags = c /\ ReadPolicy(z).os = k
            /\ ReadPolicy(z).groups = l /\ ReadPolicy(z).agent_ids = m
            /\ ReadPolicy(z).outbound = <<q>>
        BY <3>1
      <4>2. <<q>>[1] = q /\ <<r>>[1] = r
        OBVIOUS
      <4> QED
        BY <3>2, <3>3, <4>1, <4>2
    <3>4. ASSUME a = p.name, b = p.description, p.version = 1, c = p.tags, k = p.os,
                 l = p.groups, m = p.agent_ids, q = r
          PROVE  ReadPolicy(z) = p
      <4>1. p.header = TRUE /\ p.exclude = FALSE
        BY <1>1, <1>2, <1>3 DEF Valid
      <4>2. p.outbound = <<q>>
        BY <3>2, <3>4
      <4> QED
        BY <1>2, <1>3, <3>1, <3>4, <4>1, <4>2, Zenon
    <3> QED
      BY <3>3, <3>4 DEF a, b, c, k, l, m, q
  <2>9. OnLine(name) /\ nameRead <=> ~LineForgotten(p.name)
    BY LineKept DEF name
  <2>10. TextParses(desc) /\ descRead <=> ~TextForgotten(p.description)
    BY <1>2, <1>5, TextKept DEF desc
  <2>11. tagsParse /\ tagsRead
         <=> \A t \in p.tags : ~BracketsForgotten(t.key) /\ ~LineForgotten(t.value)
    BY <1>2, TagsKept DEF tags
  <2>12. listParses(os) /\ listRead(os, p.os) <=> \A s \in p.os : ~BracketsForgotten(s)
    BY BracketsKept DEF os
  <2>13. listParses(groups) /\ listRead(groups, p.groups)
         <=> \A s \in p.groups : ~BracketsForgotten(s)
    BY BracketsKept DEF groups
  <2>14. listParses(ids) /\ listRead(ids, p.agent_ids)
         <=> \A s \in p.agent_ids : ~BracketsForgotten(s)
    BY BracketsKept DEF ids
  <2>15. FormForgets(p) <=>
           \/ p.version # 1
           \/ LineForgotten(p.name)
           \/ TextForgotten(p.description)
           \/ ~(\A s \in p.os : ~BracketsForgotten(s))
           \/ ~(\A s \in p.groups : ~BracketsForgotten(s))
           \/ ~(\A s \in p.agent_ids : ~BracketsForgotten(s))
           \/ ~(\A t \in p.tags : ~BracketsForgotten(t.key) /\ ~LineForgotten(t.value))
           \/ RuleForgotten(r)
    <3>1. DOMAIN p.outbound = {1} /\ p.outbound # <<>> /\ p.outbound[1] = r
      BY <1>9, <2>1
    <3>2. (\E s \in p.os \cup p.groups \cup p.agent_ids : BracketsForgotten(s))
          <=> \/ ~(\A s \in p.os : ~BracketsForgotten(s))
              \/ ~(\A s \in p.groups : ~BracketsForgotten(s))
              \/ ~(\A s \in p.agent_ids : ~BracketsForgotten(s))
      OBVIOUS
    <3>3. (\E t \in p.tags : BracketsForgotten(t.key) \/ LineForgotten(t.value))
          <=> ~(\A t \in p.tags : ~BracketsForgotten(t.key) /\ ~LineForgotten(t.value))
      OBVIOUS
    <3>4. FormForgets(p) <=>
            \/ p.version # 1
            \/ LineForgotten(p.name)
            \/ TextForgotten(p.description)
            \/ \E s \in p.os \cup p.groups \cup p.agent_ids : BracketsForgotten(s)
            \/ \E t \in p.tags : BracketsForgotten(t.key) \/ LineForgotten(t.value)
            \/ RuleForgotten(r)
      BY <3>1, Zenon DEF FormForgets, RuleForgotten
    <3> QED
      BY <3>2, <3>3, <3>4, Zenon
  <2>16. from_yaml(z) = Some(p) <=> Parses(z) /\ ReadPolicy(z) = p
    <3>1. ASSUME Parses(z), ReadPolicy(z) = p
          PROVE  from_yaml(z) = Some(p)
      BY <1>1, <3>1 DEF from_yaml
    <3>2. ASSUME from_yaml(z) = Some(p)
          PROVE  Parses(z) /\ ReadPolicy(z) = p
      <4>1. from_yaml(z) # None /\ from_yaml(z)[1] = p
        BY <3>2, SomeIs
      <4>2. ReadPolicy(z) = p
        BY <4>1, FromYaml
      <4>3. Parses(z)
        BY <4>1 DEF from_yaml
      <4> QED
        BY <4>2, <4>3
    <3> QED
      BY <3>1, <3>2
  <2> HIDE DEF nameRead, descRead, tagsRead, listRead, ruleRead, listParses, tagsParse
  <2>17. RuleParses(e) /\ ruleRead <=> ~RuleForgotten(r)
    BY <2>3 DEF ruleRead
  <2>18. Parses(z) /\ ReadPolicy(z) = p <=> ~FormForgets(p)
    BY <2>6, <2>8, <2>9, <2>10, <2>11, <2>12, <2>13, <2>14, <2>15, <2>17, Zenon
  <2> QED
    BY <2>16, <2>18
<1> QED
  BY <1>4, <1>8, <1>9 DEF p, f

----------------------------------------------------------------------------
(* Every text is a document. *)

\* The forms: what formToYaml computes with has its shape.
AreRead(items) == \A i \in DOMAIN items : items[i].recursive \in BOOLEAN

IsForm(f) ==
    /\ {"sources", "destinations", "conditions"} \subseteq DOMAIN f
    /\ AreRead(f.sources) /\ AreRead(f.destinations)
    /\ f.conditions # None => AreSizes(f.conditions[1].size)

LEMMA ItemsAreRead ==
  ASSUME NEW xs, AreItems(xs)
  PROVE  AreRead(ReadItems(xs))
<1> SUFFICES ASSUME NEW i \in DOMAIN xs
             PROVE  ReadItem(xs[i]).recursive \in BOOLEAN
  BY DEF AreRead, ReadItems
<1>1. IsOption(xs[i].recursive, BOOLEAN)
  BY DEF AreItems
<1>2. xs[i].recursive # None => xs[i].recursive[1] \in BOOLEAN
  BY <1>1 DEF IsOption, None
<1> QED
  BY <1>2 DEF ReadItem

LEMMA ItemsEmitted ==
  ASSUME NEW its, AreRead(its)
  PROVE  AreItems([i \in DOMAIN its |-> emitSourceLike(its[i])])
<1> SUFFICES ASSUME NEW i \in DOMAIN its
             PROVE  IsOption(emitSourceLike(its[i]).recursive, BOOLEAN)
  BY DEF AreItems
<1>1. its[i].recursive \in BOOLEAN
  BY DEF AreRead
<1>2. emitSourceLike(its[i]).recursive =
        IF its[i].type = "directory" THEN Some(its[i].recursive) ELSE None
  BY DEF emitSourceLike
<1> QED
  BY <1>1, <1>2, Options

LEMMA FormIsDocument ==
  ASSUME NEW f, IsForm(f)
  PROVE  IsDocument(formToYaml(f))
<1> DEFINE z == formToYaml(f)
<1>1. z.header = TRUE /\ z.exclude = FALSE /\ z.outbound = emitRule(f)
  BY DEF formToYaml
<1>2. CASE f.rule.id = ""
  <2>1. z.outbound = <<>>
    BY <1>1, <1>2 DEF emitRule
  <2> HIDE DEF z
  <2>2. IsDocument(z)
    <3>1. /\ DOMAIN z.outbound = {}
          /\ z.outbound \in Seq({z.outbound[i] : i \in DOMAIN z.outbound})
      BY <2>1
    <3> QED
      BY <1>1, <3>1 DEF IsDocument
  <2> QED
    BY <2>2 DEF z
<1>3. CASE ~(f.rule.id = "")
  <2> DEFINE src == [i \in DOMAIN f.sources |-> emitSourceLike(f.sources[i])]
             dst == [i \in DOMAIN f.destinations |-> emitSourceLike(f.destinations[i])]
             con == emitConditions(f.conditions)
             e == [id |-> Some(yamlString(f.rule.id)), name |-> EmitText(f.rule.name),
                   enabled |-> None, action |-> f.rule.action,
                   message |-> EmitText(f.rule.message), flags |-> f.rule.flags,
                   sources |-> src, destinations |-> dst, conditions |-> con]
  <2>1. emitRule(f) = <<e>>
    BY <1>3, Zenon DEF emitRule
  <2>2. AreItems(src) /\ AreItems(dst)
    BY ItemsEmitted DEF IsForm
  <2>3. con # None => AreSizes(con[1].size)
    <3>1. CASE f.conditions = None
      BY <3>1 DEF emitConditions
    <3>2. CASE f.conditions # None
      <4>1. con # None => con[1].size = f.conditions[1].size
        <5> DEFINE w == [size |-> f.conditions[1].size,
                         file_extensions |-> {yamlString(s) : s \in f.conditions[1].file_extensions},
                         regex |-> [k \in RegexFields |-> EmitText(f.conditions[1].regex[k])]]
        <5>1. con = None \/ con = Some(w)
          BY <3>2, Zenon DEF emitConditions
        <5>2. w.size = f.conditions[1].size
          OBVIOUS
        <5> HIDE DEF w, con
        <5> QED
          BY <5>1, <5>2, SomeIs
      <4> QED
        BY <3>2, <4>1 DEF IsForm
    <3> QED
      BY <3>1, <3>2
  <2> HIDE DEF src, dst, con
  <2>4. /\ e.enabled = None /\ e.sources = src /\ e.destinations = dst /\ e.conditions = con
    OBVIOUS
  <2> HIDE DEF e
  <2>5. IsRule(e)
    BY <2>2, <2>3, <2>4, Options DEF IsRule
  <2>6. z.outbound = <<e>>
    BY <1>1, <2>1
  <2> HIDE DEF z
  <2>7. /\ DOMAIN z.outbound = {1} /\ z.outbound[1] = e
        /\ z.outbound \in Seq({z.outbound[i] : i \in DOMAIN z.outbound})
    BY <2>6
  <2>8. IsDocument(z)
    BY <1>1, <2>5, <2>7 DEF IsDocument
  <2> QED
    BY <2>8 DEF z
<1> QED
  BY <1>2, <1>3

LEMMA DocumentIsForm ==
  ASSUME NEW y, IsDocument(y)
  PROVE  IsForm(parsedToFormState(ReadPolicy(y)))
<1> DEFINE p == ReadPolicy(y)
           f == parsedToFormState(p)
           hasRule == p.outbound # <<>>
           r == p.outbound[1]
<1>1. p.outbound = ReadRules(y.outbound)
  BY DEF ReadPolicy
<1>2. hasRule => \E x : r = ReadRule(x) /\ IsRule(x)
  <2> SUFFICES ASSUME hasRule
               PROVE  r = ReadRule(y.outbound[1]) /\ IsRule(y.outbound[1])
    OBVIOUS
  <2>1. DOMAIN y.outbound = 1 .. Len(y.outbound) /\ Len(y.outbound) \in Nat
    BY DEF IsDocument
  <2>2. 1 \in DOMAIN y.outbound
    <3> SUFFICES ASSUME Len(y.outbound) = 0
                 PROVE  FALSE
      BY <2>1
    <3>1. DOMAIN y.outbound = {}
      BY <2>1
    <3> QED
      BY <1>1, <3>1 DEF ReadRules
  <2> QED
    BY <1>1, <2>2 DEF ReadRules, IsDocument
<1> HIDE DEF p
<1>3. /\ {"sources", "destinations", "conditions"} \subseteq DOMAIN f
      /\ f.sources = IF hasRule THEN r.sources ELSE <<>>
      /\ f.destinations = IF hasRule THEN r.destinations ELSE <<>>
      /\ f.conditions = IF hasRule /\ r.conditions # None
                        THEN Some(normalizeConditions(r.conditions[1])) ELSE None
  BY DEF parsedToFormState
<1> HIDE DEF f, r, hasRule
<1>4. AreRead(<<>>)
  BY DEF AreRead
<1>5. ASSUME ~hasRule
      PROVE  IsForm(f)
  BY <1>3, <1>4, <1>5 DEF IsForm
<1>6. ASSUME hasRule
      PROVE  IsForm(f)
  <2>1. PICK x : r = ReadRule(x) /\ IsRule(x)
    BY <1>2, <1>6
  <2>2. /\ r.sources = ReadItems(x.sources) /\ r.destinations = ReadItems(x.destinations)
        /\ r.conditions = IF x.conditions = None THEN None
                          ELSE Some(ReadConditions(x.conditions[1]))
    BY <2>1 DEF ReadRule
  <2>3. AreRead(f.sources) /\ AreRead(f.destinations)
    BY <1>3, <1>6, <2>1, <2>2, ItemsAreRead DEF IsRule
  <2>4. f.conditions # None => AreSizes(f.conditions[1].size)
    <3> SUFFICES ASSUME f.conditions # None
                 PROVE  AreSizes(f.conditions[1].size)
      OBVIOUS
    <3>1. x.conditions # None /\ r.conditions # None
      BY <1>3, <2>2
    <3>2. f.conditions[1] = normalizeConditions(ReadConditions(x.conditions[1]))
      BY <1>3, <1>6, <2>2, <3>1, SomeIs
    <3> QED
      BY <2>1, <3>1, <3>2, ConditionsKept DEF IsRule
  <2> QED
    BY <1>3, <2>3, <2>4 DEF IsForm
<1> QED
  BY <1>5, <1>6 DEF f, p

\* Every text, stored, shown or under way, is a document; the form is one.
CallText(call) ==
    /\ call.text # None => IsDocument(call.text[1])
    /\ call.kind = "open" /\ call.stage = "get" => call.name # None
    /\ call.kind = "open" /\ call.stage = "validate" => call.text # None
    /\ call.kind = "switch" /\ call.stage = "confirm" => from_yaml(call.text[1]) # None

TextsOK ==
    /\ \A n \in PolicyNames : policies[n] # None => IsDocument(policies[n][1])
    /\ IsDocument(yamlText)
    /\ IsForm(formState)
    /\ \A c \in Slots : CallText(calls[c])

LEMMA CallTextUpdate ==
  ASSUME CallsOK, \A d \in Slots : CallText(calls[d]),
         NEW c \in Slots, NEW r, calls' = [calls EXCEPT ![c] = r], CallText(r)
  PROVE  \A d \in Slots : CallText(calls'[d])
  BY CallUpdate

LEMMA NoText == CallText(NoCall)
  BY DEF CallText, NoCall

LEMMA TextsInit == Init => TextsOK
<1> SUFFICES ASSUME Init
             PROVE  TextsOK
  OBVIOUS
<1>1. IsForm(defaultFormState)
  BY DEF IsForm, AreRead, defaultFormState
<1>2. IsDocument(yamlText) /\ IsForm(formState)
  BY <1>1, FormIsDocument DEF Init
<1>3. \A c \in Slots : CallText(calls[c])
  BY NoText DEF Init
<1>4. \A n \in PolicyNames : policies[n] # None => IsDocument(policies[n][1])
  <2>1. CASE policies = Stored
    BY <2>1, TextsAssumption
  <2>2. ASSUME NEW n \in PolicyNames, NEW t \in Samples, policies = [Stored EXCEPT ![n] = Some(t)]
        PROVE  \A m \in PolicyNames : policies[m] # None => IsDocument(policies[m][1])
    <3>1. \A m \in PolicyNames : policies[m] = Stored[m] \/ policies[m] = Some(t)
      BY <2>2, EditorAssumption
    <3> QED
      BY <3>1, TextsAssumption, SomeIs
  <2> QED
    BY <2>1, <2>2 DEF Init
<1> QED
  BY <1>2, <1>3, <1>4 DEF TextsOK

LEMMA TextsStep ==
  ASSUME TypeOK, CallsOK, TextsOK, [Next]_vars
  PROVE  TextsOK'
<1> USE DEF TextsOK
<1>1. IsDocument(Display)
  BY FormIsDocument DEF Display
<1>2. IsForm(defaultFormState)
  BY DEF IsForm, AreRead, defaultFormState
<1>3. ASSUME NEW c \in Slots, End(c)
      PROVE  \A d \in Slots : CallText(calls'[d])
  BY <1>3, CallTextUpdate, NoText DEF End
<1>4. ASSUME NEW c \in Slots, NEW st, Goto(c, st), st # "get",
             calls[c].text # None \/ st # "validate",
             st = "confirm" => from_yaml(calls[c].text[1]) # None
      PROVE  \A d \in Slots : CallText(calls'[d])
  <2> DEFINE r == [calls[c] EXCEPT !.stage = st]
  <2>1. calls' = [calls EXCEPT ![c] = r]
    BY <1>4 DEF Goto, CallsOK
  <2>2. CallText(r)
    BY <1>4 DEF CallText, CallsOK, CallFields
  <2> QED
    BY <2>1, <2>2, CallTextUpdate
<1>5. ASSUME OpenNew \/ Close \/ FormEdit \/ PreviewTimer \/ YamlEdit \/ SwitchToYaml
             \/ \E n \in PolicyNames : DeletedElsewhere(n)
      PROVE  TextsOK'
  <2>1. calls' = calls
    BY <1>5 DEF OpenNew, Close, FormEdit, PreviewTimer, YamlEdit, SwitchToYaml, DeletedElsewhere
  <2>2. IsForm(formState')
    <3>1. CASE FormEdit
      <4>1. \/ \E a : formState' = [formState EXCEPT !.rule.action = a]
            \/ \E n : formState' = [formState EXCEPT !.name = n]
            \/ formState' = [formState EXCEPT !.rule.name = "two words"]
        BY <3>1 DEF FormEdit
      <4>2. \E v : \/ formState' = [formState EXCEPT !.rule = v]
                   \/ formState' = [formState EXCEPT !.name = v]
        BY <4>1
      <4>3. /\ DOMAIN formState' = DOMAIN formState
            /\ \A k \in {"sources", "destinations", "conditions"} : formState'[k] = formState[k]
        BY <4>2 DEF IsForm
      <4> QED
        BY <4>3 DEF IsForm
    <3>2. CASE ~FormEdit
      BY <1>2, <1>5, <3>2
      DEF OpenNew, Close, CloseEditor, PreviewTimer, YamlEdit, SwitchToYaml, DeletedElsewhere,
          editorVars, Mount
    <3> QED
      BY <3>1, <3>2
  <2>3. IsDocument(yamlText')
    BY <1>2, <1>5, FormIsDocument, TextsAssumption
    DEF OpenNew, Close, CloseEditor, FormEdit, PreviewTimer, YamlEdit, SwitchToYaml,
        DeletedElsewhere, editorVars
  <2>4. \A n \in PolicyNames : policies'[n] = policies[n] \/ policies'[n] = None
    BY <1>5 DEF OpenNew, Close, FormEdit, PreviewTimer, YamlEdit, SwitchToYaml, DeletedElsewhere,
                TypeOK
  <2> QED
    BY <2>1, <2>2, <2>3, <2>4
<1>6. ASSUME NEW c \in Slots, CallStep(c)
      PROVE  TextsOK'
  <2>1. \A d \in Slots : CallText(calls'[d])
    <3>1. ASSUME NEW n \in PolicyNames, Open(c, n)
          PROVE  \A d \in Slots : CallText(calls'[d])
      <4> DEFINE r == [NoCall EXCEPT !.kind = "open", !.stage = "get", !.name = Some(n)]
      <4>1. calls' = [calls EXCEPT ![c] = r]
        BY <3>1 DEF Open, Begin
      <4>2. r.kind = "open" /\ r.stage = "get" /\ r.name = Some(n) /\ r.text = None
        BY DEF NoCall
      <4> HIDE DEF r
      <4>3. CallText(r)
        BY <4>2, SomeIs DEF CallText
      <4> QED
        BY <4>1, <4>3, CallTextUpdate
    <3>2. CASE Get(c)
      <4>1. PICK answer \in {None, policies[calls[c].name[1]]} :
               calls' = [calls EXCEPT ![c].stage = "got", ![c].text = answer]
        BY <3>2 DEF Get
      <4> DEFINE r == [calls[c] EXCEPT !.stage = "got", !.text = answer]
      <4>2. calls' = [calls EXCEPT ![c] = r]
        BY <4>1 DEF CallsOK
      <4>3. answer # None => IsDocument(answer[1])
        <5>1. calls[c].name = None \/ \E n \in PolicyNames : calls[c].name = Some(n)
          BY DEF TypeOK, OptionName
        <5>2. ASSUME NEW n \in PolicyNames, calls[c].name = Some(n)
              PROVE  answer # None => IsDocument(answer[1])
          BY <4>1, <5>2, SomeIs
        <5>3. calls[c].name # None
          BY <3>2 DEF Get, Await, CallText
        <5> QED
          BY <5>1, <5>2, <5>3
      <4>4. r.text = answer /\ r.stage = "got"
        BY DEF CallsOK, CallFields
      <4> QED
        BY <4>2, <4>3, <4>4, CallTextUpdate DEF CallText
    <3>3. CASE OpenGot(c)
      BY <1>3, <1>4, <3>3 DEF OpenGot
    <3>4. CASE SwitchToForm(c)
      <4> DEFINE r == [NoCall EXCEPT !.kind = "switch", !.stage = "validate",
                                     !.text = Some(yamlText)]
      <4>1. calls' = [calls EXCEPT ![c] = r]
        BY <3>4 DEF SwitchToForm, Begin
      <4>2. CallText(r)
        BY SomeIs DEF CallText, NoCall
      <4> QED
        BY <4>1, <4>2, CallTextUpdate
    <3>5. CASE SwitchValidated(c)
      <4>1. from_yaml(calls[c].text[1]) # None
        BY <3>5 DEF SwitchValidated
      <4>2. End(c) \/ Goto(c, "confirm")
        BY <3>5 DEF SwitchValidated, PerformSwitch
      <4> QED
        BY <1>3, <1>4, <4>1, <4>2
    <3>6. ASSUME NEW kind \in {"check", "save"}, Validate(c, kind)
          PROVE  \A d \in Slots : CallText(calls'[d])
      <4> DEFINE r == [NoCall EXCEPT !.kind = kind, !.stage = "validate", !.text = Some(Display),
                                     !.clicked = editingName, !.session = session]
      <4>1. calls' = [calls EXCEPT ![c] = r]
        BY <3>6 DEF Validate, Begin
      <4>2. r.text = Some(Display) /\ r.kind = kind
        BY DEF NoCall
      <4>3. CallText(r)
        BY <1>1, <4>2, SomeIs DEF CallText
      <4> QED
        BY <4>1, <4>3, CallTextUpdate
    <3>7. CASE SaveValidated(c)
      <4> DEFINE r == [calls[c] EXCEPT !.stage = "put", !.name = editingName,
                                       !.text = Some(yamlText)]
      <4>1. calls' = [calls EXCEPT ![c] = r]
        BY <3>7 DEF SaveValidated, CallsOK
      <4>2. r.text = Some(yamlText) /\ r.stage = "put"
        BY DEF CallsOK, CallFields
      <4>3. CallText(r)
        BY <4>2, SomeIs DEF CallText
      <4> QED
        BY <4>1, <4>3, CallTextUpdate
    <3>8. CASE Put(c)
      <4>1. Goto(c, "stored") \/ Goto(c, "refused")
        BY <3>8 DEF Put
      <4> QED
        BY <1>4, <4>1
    <3>9. CASE OpenValidated(c) \/ SwitchRefused(c) \/ SwitchConfirmed(c) \/ Validated(c)
               \/ SaveInvalid(c) \/ Saved(c) \/ SaveRefused(c)
      BY <1>3, <3>9 DEF OpenValidated, SwitchRefused, SwitchConfirmed, PerformSwitch, Validated,
                        SaveInvalid, Saved, SaveRefused
    <3> QED
      BY <1>6, <3>1, <3>2, <3>3, <3>4, <3>5, <3>6, <3>7, <3>8, <3>9 DEF CallStep
  <2>2. IsForm(formState')
    <3>1. ASSUME calls[c].text # None, from_yaml(calls[c].text[1]) # None
          PROVE  IsForm(parsedToFormState(from_yaml(calls[c].text[1])[1]))
      BY <3>1, DocumentIsForm, FromYaml DEF CallText
    <3>2. CASE OpenValidated(c)
      <4>1. calls[c].text # None
        BY <3>2 DEF OpenValidated, Await, CallText
      <4>2. \/ /\ from_yaml(calls[c].text[1]) # None
               /\ formState' = parsedToFormState(from_yaml(calls[c].text[1])[1])
            \/ formState' = defaultFormState
        BY <3>2 DEF OpenValidated, Mount
      <4> QED
        BY <1>2, <3>1, <4>1, <4>2
    <3>3. CASE SwitchValidated(c) \/ SwitchConfirmed(c)
      <4>1. calls[c].text # None /\ from_yaml(calls[c].text[1]) # None
        BY <3>3 DEF SwitchValidated, SwitchConfirmed, Await, TypeOK, CallText
      <4>2. \/ formState' = parsedToFormState(from_yaml(calls[c].text[1])[1])
            \/ formState' = formState
        BY <3>3 DEF SwitchValidated, SwitchConfirmed, PerformSwitch, Mount, editorVars
      <4> QED
        BY <3>1, <4>1, <4>2
    <3>4. CASE ~(OpenValidated(c) \/ SwitchValidated(c) \/ SwitchConfirmed(c))
      <4>1. UNCHANGED formState
        BY <1>6, <3>4
        DEF CallStep, Open, Get, OpenGot, SwitchToForm, SwitchRefused, Validate, Validated,
            SaveValidated, SaveInvalid, Put, Saved, CloseEditor, SaveRefused, editorVars
      <4> QED
        BY <4>1
    <3> QED
      BY <3>2, <3>3, <3>4
  <2>3. IsDocument(yamlText')
    <3>1. CASE OpenGot(c)
      BY <3>1 DEF OpenGot, CallText
    <3>2. CASE Validate(c, "check") \/ Validate(c, "save")
      BY <1>1, <3>2 DEF Validate
    <3>3. CASE ~(OpenGot(c) \/ Validate(c, "check") \/ Validate(c, "save"))
      <4>1. UNCHANGED yamlText
        BY <1>6, <3>3
        DEF CallStep, Open, Get, OpenValidated, SwitchToForm, SwitchValidated, SwitchRefused,
            SwitchConfirmed, PerformSwitch, Validated, SaveValidated, SaveInvalid, Put, Saved,
            CloseEditor, SaveRefused, editorVars
      <4> QED
        BY <4>1
    <3> QED
      BY <3>1, <3>2, <3>3
  <2>4. \A n \in PolicyNames : policies'[n] # None => IsDocument(policies'[n][1])
    <3>1. CASE Put(c)
      <4>1. calls[c].text # None /\ IsDocument(calls[c].text[1])
        BY <3>1 DEF Put, Await, TypeOK, CallText
      <4>2. \A n \in PolicyNames : policies'[n] = policies[n] \/ policies'[n] = Some(calls[c].text[1])
        BY <3>1 DEF Put, TypeOK
      <4> QED
        BY <4>1, <4>2, SomeIs
    <3>2. CASE ~Put(c)
      <4>1. UNCHANGED policies
        BY <1>6, <3>2
        DEF CallStep, Open, Get, OpenGot, OpenValidated, SwitchToForm, SwitchValidated,
            SwitchRefused, SwitchConfirmed, PerformSwitch, Validate, Validated, SaveValidated,
            SaveInvalid, Saved, SaveRefused
      <4> QED
        BY <4>1
    <3> QED
      BY <3>1, <3>2
  <2> QED
    BY <2>1, <2>2, <2>3, <2>4
<1>7. CASE UNCHANGED vars
  BY <1>7 DEF vars, editorVars
<1> QED
  BY <1>5, <1>6, <1>7 DEF Next

----------------------------------------------------------------------------
(* The theorems. *)

LEMMA InitEdInv == Init => EdInv
<1> SUFFICES ASSUME Init
             PROVE  EdInv
  OBVIOUS
<1> USE EditorAssumption
<1>1. /\ calls = [c \in Slots |-> NoCall]
      /\ seen = [c \in Slots |-> {}]
      /\ session = 0 /\ shown = FALSE /\ timer = FALSE /\ mode = "form" /\ editingName = None
      /\ started \in 0 .. MaxCalls /\ edits \in 0 .. MaxEdits
  BY DEF Init
<1>2. CallOK(NoCall, 0) /\ NoCall.kind = "none"
  BY NoCallOK DEF NoCall
<1>3. /\ DOMAIN policies = PolicyNames
      /\ \A n \in PolicyNames : policies[n] # None =>
            from_yaml(policies[n][1]) # None /\ from_yaml(policies[n][1])[1].name = n
  <2>1. CASE policies = Stored
    BY <2>1
  <2>2. CASE \E n \in PolicyNames, t \in Samples :
                /\ from_yaml(t) # None /\ from_yaml(t)[1].name = n
                /\ policies = [Stored EXCEPT ![n] = Some(t)]
    <3>1. PICK n \in PolicyNames, t \in Samples :
                /\ from_yaml(t) # None /\ from_yaml(t)[1].name = n
                /\ policies = [Stored EXCEPT ![n] = Some(t)]
      BY <2>2
    <3>2. /\ DOMAIN policies = PolicyNames
          /\ policies[n] = Some(t)
          /\ \A m \in PolicyNames : m # n => policies[m] = Stored[m]
      BY <3>1
    <3>3. Some(t)[1] = t
      BY DEF Some
    <3> QED
      BY <3>1, <3>2, <3>3
  <2> QED
    BY <2>1, <2>2 DEF Init
<1>4. TypeOK
  <2>1. session \in 0 .. started
    BY <1>1
  <2>2. \A c \in Slots : calls[c] = NoCall
    BY <1>1
  <2>3. \A c \in Slots :
          /\ calls[c].stage \in Stages[calls[c].kind]
          /\ calls[c].name \in OptionName
          /\ calls[c].kind \in {"switch", "save", "check"} => calls[c].text # None
    BY <1>2, <2>2 DEF CallOK
  <2>4. editingName \in OptionName
    BY <1>1 DEF OptionName
  <2> QED
    BY <1>1, <1>3, <2>1, <2>3, <2>4 DEF TypeOK
<1>5. CallsOK
  BY <1>1, <1>2 DEF CallsOK, CallOK
<1>6. SessionsCounted
  <2>1. Opening = {}
    BY <1>1, <1>2 DEF Opening
  <2>2. IsFiniteSet(Opening) /\ Cardinality(Opening) = 0
    BY <2>1, FS_EmptySet
  <2> QED
    BY <1>1, <2>2 DEF SessionsCounted
<1>7. SavesFollow /\ SavedWasShown
  BY <1>1, <1>2 DEF SavesFollow, SavedWasShown
<1>8. NamesMatch /\ StoredIsValid
  BY <1>3, FromYaml DEF NamesMatch, StoredIsValid
<1> QED
  BY <1>4, <1>5, <1>6, <1>7, <1>8 DEF EdInv

\* The inductive invariant.
LEMMA EditorInvariant == Spec => []EdInv
<1>1. EdInv /\ [Next]_vars => EdInv'
  <2> SUFFICES ASSUME EdInv, [Next]_vars
               PROVE  EdInv'
    OBVIOUS
  <2> USE DEF EdInv
  <2>1. CallsOK' /\ session' \in Nat /\ \A c \in Slots : CallOK(calls'[c], session')
    BY CallsOKStep
  <2>2. SessionsCounted'
    BY SessionsCountedStep
  <2>3. /\ DOMAIN policies' = PolicyNames
        /\ editingName' \in OptionName
        /\ shown' \in BOOLEAN /\ timer' \in BOOLEAN
        /\ mode' \in {"form", "yaml"}
        /\ timer' => shown' /\ mode' = "form"
        /\ started' \in 0 .. MaxCalls
        /\ edits' \in 0 .. MaxEdits
    BY TypesStep
  <2>4. session' <= started'
    <3>1. Cardinality(Opening') \in Nat
      BY <2>2, FS_CardinalityType DEF SessionsCounted
    <3>2. session' + (IF shown' THEN 1 ELSE 0) + Cardinality(Opening') <= started'
      BY <2>2 DEF SessionsCounted
    <3> QED
      BY <2>1, <2>3, <3>1, <3>2, EditorAssumption
  <2>5. session' \in 0 .. started'
    BY <2>1, <2>3, <2>4, EditorAssumption
  <2>6. TypeOK'
    BY <2>1, <2>3, <2>5 DEF TypeOK, CallOK
  <2>7. SavesFollow' /\ SavedWasShown'
    <3>1. CASE Next
      BY <3>1, SavesFollowStep
    <3>2. CASE UNCHANGED vars
      BY <3>2 DEF vars, editorVars, SavesFollow, SavedWasShown
    <3> QED
      BY <3>1, <3>2
  <2>8. NamesMatch' /\ StoredIsValid'
    BY TableStep DEF TableOK
  <2> QED
    BY <2>1, <2>2, <2>6, <2>7, <2>8
<1> QED
  BY <1>1, InitEdInv, PTL DEF Spec

\* Types: the preview timer runs only under a form on display, every waiting
\* handler is at a stage of its own kind, and no more sessions end than opens
\* and saves began.
THEOREM EditorTypes == Spec => []TypeOK
<1>1. EdInv => TypeOK
  BY DEF EdInv
<1> QED
  BY <1>1, EditorInvariant, PTL

\* In whatever order loads and saves are answered, no policy is overwritten with
\* the document of another (policies.rs create and update).
THEOREM NamesStayMatched == Spec => []NamesMatch
<1>1. EdInv => NamesMatch
  BY DEF EdInv
<1> QED
  BY <1>1, EditorInvariant, PTL

\* No text that from_yaml refuses is ever stored, even one that was edited while
\* its predecessor was being validated.
THEOREM OnlyValidIsStored == Spec => []StoredIsValid
<1>1. EdInv => StoredIsValid
  BY DEF EdInv
<1> QED
  BY <1>1, EditorInvariant, PTL

\* Save sends what the user saw, under the name that was open, for any handlers
\* in flight (PolicyEditor.js _save).
THEOREM SavesWhatWasShown == Spec => []SavedWasShown
<1>1. EdInv => SavedWasShown
  BY DEF EdInv
<1> QED
  BY <1>1, EditorInvariant, PTL

LEMMA TextsInvariant == Spec => []TextsOK
<1>1. EdInv /\ TextsOK /\ [Next]_vars => TextsOK'
  BY TextsStep DEF EdInv
<1> QED
  BY <1>1, TextsInit, EditorInvariant, PTL DEF Spec

\* A policy the form shows as it was loaded is kept by Save if and only if it is
\* not one of those FormForgets names, for any policies and texts and whatever
\* handlers are in flight (formToYaml.js, yamlToForm.js, Policy::from_yaml).
THEOREM FormKeeps == Spec => []FormKeepsExactly
<1>1. EdInv /\ TextsOK => FormKeepsExactly
  <2> SUFFICES ASSUME EdInv, TextsOK, NEW n \in PolicyNames, ShownAsLoaded(n)
               PROVE  from_yaml(Display) = Some(Loaded(n)) <=> ~FormForgets(Loaded(n))
    BY DEF FormKeepsExactly
  <2>1. IsDocument(policies[n][1]) /\ from_yaml(policies[n][1]) # None
    BY DEF EdInv, StoredIsValid, TextsOK, ShownAsLoaded
  <2>2. Display = formToYaml(parsedToFormState(Loaded(n)))
    BY DEF Display, ShownAsLoaded
  <2> QED
    BY <2>1, <2>2, RoundTrip DEF Loaded, ShownAsLoaded
<1> QED
  BY <1>1, EditorInvariant, TextsInvariant, PTL
=============================================================================
