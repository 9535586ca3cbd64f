-------------------------- MODULE MCPolicyEditor --------------------------
(***************************************************************************)
(* A small instance of PolicyEditor for TLC.  Policy "a" can be shown by   *)
(* the form, policy "my-policy" has classifiers and cannot; the samples    *)
(* are texts of "a" that combine the cases the codecs tell apart.          *)
(***************************************************************************)
EXTENDS PolicyEditor, TLC

FormText(n) ==
    formToYaml([defaultFormState EXCEPT !.name = n, !.rule.name = "two words"])

WideText(n) == [FormText(n) EXCEPT !.classifiers = {"pesel"}]

InitialTexts ==
    [n \in PolicyNames |-> Some(IF n = "a" THEN FormText(n) ELSE WideText(n))]

\* A text of each policy that is refused, and one that is not.
TypedTexts == {[WideText("my-policy") EXCEPT !.priority = None],
               [WideText("my-policy") EXCEPT !.header = FALSE],
               [FormText("a") EXCEPT !.outbound[1].name = None]}

\* Written so that every character is kept.
Quoted(s) == [str |-> s, style |-> "escaped"]

NoConditions == [size |-> [f \in SizeFields |-> None], file_extensions |-> {},
                 regex |-> [f \in RegexFields |-> None]]

PlainRule ==
    [id |-> Some(Quoted("r1")), name |-> Some(Quoted("two words")), enabled |-> None,
     action |-> "block", message |-> None, flags |-> {"notify_user"},
     sources |-> <<>>, destinations |-> <<>>, conditions |-> None]

PlainText ==
    [FormText("a") EXCEPT !.version = Some(1), !.priority = Some(7),
                          !.os = {Quoted("linux")}, !.outbound = <<PlainRule>>]

Items == {<<>>} \cup
    {<<[type |-> t, list |-> Some({Quoted(s) : s \in l}), recursive |-> Some(FALSE)]>> :
        t \in {"directory"}, l \in {{}, {"srv"}, {"123"}, {"-", "two\nwords"}}} \cup
    {<<[type |-> t, list |-> Some({Quoted(s) : s \in l}), recursive |-> None]>> :
        t \in {"usb", "file_match"}, l \in {{}, {"null"}, {"true"}, {"two words", "-"}, {"\f"}}}

SomeConditions == {None, Some(NoConditions)} \cup
    {Some([NoConditions EXCEPT !.file_extensions = {Quoted("xlsx")},
                               !.regex["path_regex"] = Some(Quoted(r))]) :
        r \in {"", "null", "two words", "-", "two\nwords", "\f"}} \cup
    {Some([NoConditions EXCEPT !.file_extensions = {Quoted("xlsx"), Quoted(e)}]) :
        e \in {"-", "two\nwords", "\f"}}

Texts == {"two words", "-", "two\nwords", "\f"}

Optionals == {None} \cup {Some(Quoted(s)) : s \in {"", "null"} \cup Texts}

Rules ==
    {[PlainRule EXCEPT !.name = Some(Quoted(n)), !.enabled = Some(e), !.message = m] :
        n \in {""} \cup Texts, e \in BOOLEAN, m \in Optionals} \cup
    {[PlainRule EXCEPT !.sources = i, !.conditions = c, !.message = m] :
        i \in Items, c \in SomeConditions, m \in {None, Some(Quoted("null"))}}

\* Around the units, the wrap of parse_size, the bound of exact numbers, and
\* the numbers whose shortest decimal is another one.
SomeSizes == {0, 1, 15, 17, 255, 257, 258, 259, 515, 528, 550, 552, 568, 600, 1025,
              1270, 1271, 1272, 4095, 4097, 8190, 8191}

Selections ==
    {[os |-> {}, tags |-> t, groups |-> g, agent_ids |-> {}] :
        t \in {{}} \cup {{[key |-> Quoted(k), value |-> Quoted(v)]} : k, v \in Texts},
        g \in {{}, {Quoted("y")}}} \cup
    {[os |-> {Quoted("linux")}, tags |-> {}, groups |-> g, agent_ids |-> a] :
        g \in {{}} \cup {{Quoted("y"), Quoted(s)} : s \in Texts},
        a \in {{}} \cup {{Quoted(s)} : s \in Texts}}

\* Texts with every combination of two kinds of change: of the rule, of the
\* rest of the document, of its targets, or of a size.
RuleTexts == {[PlainText EXCEPT !.outbound = <<r>>] : r \in Rules}

OtherTexts ==
    {[PlainText EXCEPT !.description = d, !.version = v,
                       !.exclude = x, !.inbound = i, !.outbound = o] :
        d \in Optionals, v \in {None, Some(2)}, x \in BOOLEAN,
        i \in {<<>>, <<[PlainRule EXCEPT !.id = Some(Quoted("r3"))]>>},
        o \in {<<>>, <<PlainRule>>, <<[PlainRule EXCEPT !.id = Some(Quoted("-"))]>>,
               <<PlainRule, [PlainRule EXCEPT !.id = Some(Quoted("r2"))]>>}}

TargetTexts ==
    {[PlainText EXCEPT !.os = s.os, !.tags = s.tags, !.groups = s.groups,
                       !.agent_ids = s.agent_ids, !.version = v] :
        s \in Selections, v \in {None, Some(2)}}

SizeTexts ==
    {[PlainText EXCEPT !.outbound =
        <<[PlainRule EXCEPT !.destinations = i,
              !.conditions = Some([NoConditions EXCEPT
                !.size[f] = Some([num |-> n, unit |-> u])])]>>] :
        i \in {j \in Items : j = <<>> \/ j[1].type = "usb"}, f \in SizeFields,
        n \in SomeSizes, u \in {"B", "KB", "MB", "GB"}}

SampleTexts == RuleTexts \cup OtherTexts \cup TargetTexts \cup SizeTexts

Symmetry == Permutations(Slots)
===========================================================================
