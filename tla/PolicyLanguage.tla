--------------------------- MODULE PolicyLanguage ---------------------------
(***************************************************************************)
(* The policy document: the YAML text of                                   *)
(* crates/scrooge-policy/src/{lib,rules}.rs as the manager reads it, and   *)
(* the two codecs of the dashboard's form,                                 *)
(* static/policy-editor/codec/{formToYaml,yamlToForm,supportability}.js.   *)
(*                                                                         *)
(* Three representations of a policy meet here:                            *)
(*   - a text: which keys the YAML has and how its scalars are written.    *)
(*     Indentation, order and comments are left out; lists of strings are  *)
(*     in brackets, every other value ends its line;                       *)
(*   - a policy: the struct `Policy` after serde filled in its defaults;   *)
(*   - a form: the object formState of the editor.                         *)
(* An optional value is a sequence of at most one element.  A list whose   *)
(* order no one reads is a set.  A field that is copied as it stands by    *)
(* every conversion is kept once for its kind (`action` stands for         *)
(* severity and action, `flags` for the two check boxes, the `list` of a   *)
(* source for its lists of paths, serials, domains or classifiers).        *)
(***************************************************************************)
EXTENDS Integers, Sequences, FiniteSets

CONSTANTS
    Kilo,       \* 1024: the factor between B, KB, MB and GB
    U64,        \* 2^64: sizes are counted modulo this
    SafeInt     \* 2^53: below this a JavaScript number is exact

\* The distances between neighbouring JavaScript numbers, up to 2^64.
Grains == {1, 2, 4, 8, 16, 32, 64, 128, 256, 512, 1024, 2048}

\* As 1024, 2^64 and 2^53.
ASSUME LanguageAssumption ==
    /\ Kilo \in Grains \ {1, 2048}
    /\ SafeInt \in Nat \ {0} /\ SafeInt % Kilo = 0
    /\ U64 = 2 * Kilo * SafeInt

None == <<>>
Some(x) == <<x>>

\* The strings in use, told apart by what YAML and validation make of them;
\* any other string is an ordinary slug.
Nulls == {"null"}               \* unquoted, YAML reads null
NotStrings == {"123", "true"} \cup Nulls    \* unquoted, not a string
Dashes == {"-"}                 \* unquoted, begins a list, but not in brackets
Phrases == {"two words"}        \* needs quotes
BadRegexes == {"("}             \* does not compile as a regex; needs quotes
Multilines == {"two\nwords"}    \* has a line break; needs quotes
Unquotables == {"\f"}           \* a control character: YAML allows it only escaped

NeedQuotes == Phrases \cup BadRegexes \cup Multilines \cup Unquotables \cup {""}

IsSlug(s) == s \notin NeedQuotes

\* A scalar of a text is bare, or in double quotes as it stands, or written
\* some other way that keeps every character ("escaped").  YAML folds a line
\* break inside quotes.
Folded(s) == IF s \in Multilines THEN "two words" ELSE s
Content(sc) == IF sc.style = "quoted" THEN Folded(sc.str) ELSE sc.str

\* Can YAML read the scalar in brackets, after a key, or as a key?
InBrackets(sc) == ~(sc.style = "quoted" /\ sc.str \in Unquotables)
OnLine(sc) == InBrackets(sc) /\ ~(sc.style = "bare" /\ sc.str \in Dashes)
AsKey(sc) == InBrackets(sc) /\ ~(sc.style = "quoted" /\ sc.str \in Multilines)

SizeFields == {"file_size_min", "file_size_max"}
RegexFields == {"filename_regex", "path_regex"}

\* The types whose list has no #[serde(default)].
ListRequired == {"directory", "file_match"}

----------------------------------------------------------------------------
(* Sizes. *)

Multiplier(unit) ==
    CASE unit = "B" -> 1
      [] unit = "KB" -> Kilo
      [] unit = "MB" -> Kilo * Kilo
      [] unit = "GB" -> Kilo * Kilo * Kilo

\* parse_size: the product is taken on u64, which the release profile wraps.
parse_size(t) == (t.num * Multiplier(t.unit)) % U64

\* JSON.parse: the distance between two JavaScript numbers at n and the number
\* nearest to n (of two, the one whose last bit is zero).
Grain(n) == CHOOSE g \in Grains :
                /\ n < SafeInt * g
                /\ \A h \in Grains : n < SafeInt * h => g <= h

JsNumber(n) ==
    LET g == Grain(n)
        q == n \div g
        r == n % g
    IN IF 2 * r < g \/ (2 * r = g /\ q % 2 = 0) THEN q * g ELSE (q + 1) * g

\* Number to string, of a number n: of the decimals that JavaScript reads as n,
\* one that ends in most zeros, and of those the nearest to n.  Farther than a
\* grain there is none, and within it no two multiples of 10000.
Decades == {1, 10, 100, 1000, 10000}
Distance(m, n) == IF m < n THEN n - m ELSE m - n
Decimals(n, d) == {m \in n - Grain(n) .. n + Grain(n) : m % d = 0 /\ m >= 0 /\ JsNumber(m) = n}
Zeros(n) == CHOOSE d \in Decades :
                /\ Decimals(n, d) # {}
                /\ \A e \in Decades : Decimals(n, e) # {} => e <= d
Printed(n) == CHOOSE m \in Decimals(n, Zeros(n)) :
                \A k \in Decimals(n, Zeros(n)) : Distance(m, n) <= Distance(k, n)

\* Mutant: any number is written in the largest unit below it.
PrettySizeRounded(n) ==
    LET Fits(u) == n >= Multiplier(u)
        unit == IF Fits("GB") THEN "GB" ELSE IF Fits("MB") THEN "MB"
                ELSE IF Fits("KB") THEN "KB" ELSE "B"
    IN [num |-> n \div Multiplier(unit), unit |-> unit]

\* prettySize: the largest unit that divides the number.
prettySize(n) ==
    LET Fits(u) == n % Multiplier(u) = 0 /\ n >= Multiplier(u)
        unit == IF Fits("GB") THEN "GB" ELSE IF Fits("MB") THEN "MB"
                ELSE IF Fits("KB") THEN "KB" ELSE "B"
    IN [num |-> Printed(n \div Multiplier(unit)), unit |-> unit]

----------------------------------------------------------------------------
(* From text to policy: Policy::from_yaml. *)

\* What a text holds where a codec computes with it.  The other fields are
\* copied, compared, or sets of scalars.
IsOption(o, S) == o \in Seq(S) /\ Len(o) <= 1
IsSize(t) == t.num \in Nat /\ t.unit \in {"B", "KB", "MB", "GB"}
AreItems(items) == \A i \in DOMAIN items : IsOption(items[i].recursive, BOOLEAN)
AreSizes(sizes) == \A f \in SizeFields : sizes[f] # None => IsSize(sizes[f][1])

IsRule(r) ==
    /\ IsOption(r.enabled, BOOLEAN)
    /\ AreItems(r.sources) /\ AreItems(r.destinations)
    /\ r.conditions # None => AreSizes(r.conditions[1].size)

IsDocument(y) ==
    /\ y.header \in BOOLEAN /\ y.exclude \in BOOLEAN
    /\ y.outbound \in Seq({y.outbound[i] : i \in DOMAIN y.outbound})
    /\ \A i \in DOMAIN y.outbound : IsRule(y.outbound[i])

\* An Option<String>: an unquoted null is no value.
ReadOption(o) ==
    IF o = None \/ (o[1].style = "bare" /\ o[1].str \in Nulls)
    THEN None ELSE Some(Content(o[1]))

TextParses(o) == o # None => OnLine(o[1])

Strings(scalars) == {Content(sc) : sc \in scalars}

ReadTags(tags) == {[key |-> Content(t.key), value |-> Content(t.value)] : t \in tags}

\* Source and Destination are enums tagged inside the map, so serde reads the
\* map without knowing its types first: an unquoted number, boolean or null in
\* it is not a string.  A String of a struct takes any scalar.
ItemParses(it) ==
    /\ it.type \in ListRequired => it.list # None
    /\ it.list # None =>
          \A sc \in it.list[1] :
              InBrackets(sc) /\ ~(sc.style = "bare" /\ sc.str \in NotStrings)

ReadItem(it) ==
    [type |-> it.type,
     list |-> IF it.list = None THEN {} ELSE Strings(it.list[1]),
     recursive |-> it.type = "directory" => it.recursive = None \/ it.recursive[1]]

ReadItems(items) == [i \in DOMAIN items |-> ReadItem(items[i])]

ReadConditions(c) ==
    [size |-> [f \in SizeFields |->
                 IF c.size[f] = None THEN None ELSE Some(parse_size(c.size[f][1]))],
     file_extensions |-> Strings(c.file_extensions),
     regex |-> [f \in RegexFields |-> ReadOption(c.regex[f])]]

ConditionsParse(c) ==
    /\ \A sc \in c.file_extensions : InBrackets(sc)
    /\ \A f \in RegexFields : TextParses(c.regex[f])

RuleParses(r) ==
    /\ r.id # None /\ OnLine(r.id[1])
    /\ r.name # None /\ OnLine(r.name[1])
    /\ TextParses(r.message)
    /\ \A i \in DOMAIN r.sources : ItemParses(r.sources[i])
    /\ \A i \in DOMAIN r.destinations : ItemParses(r.destinations[i])
    /\ r.conditions # None => ConditionsParse(r.conditions[1])

ReadRule(r) ==
    [id |-> Content(r.id[1]), name |-> Content(r.name[1]),
     enabled |-> r.enabled = None \/ r.enabled[1],
     action |-> r.action, message |-> ReadOption(r.message), flags |-> r.flags,
     sources |-> ReadItems(r.sources), destinations |-> ReadItems(r.destinations),
     conditions |-> IF r.conditions = None THEN None
                    ELSE Some(ReadConditions(r.conditions[1]))]

ReadRules(rules) == [i \in DOMAIN rules |-> ReadRule(rules[i])]

Parses(y) ==
    /\ y.name # None /\ OnLine(y.name[1])
    /\ TextParses(y.description)
    /\ \A t \in y.tags : AsKey(t.key) /\ OnLine(t.value)
    /\ \A sc \in y.os \cup y.groups \cup y.agent_ids : InBrackets(sc)
    /\ \A i \in DOMAIN y.inbound : RuleParses(y.inbound[i])
    /\ \A i \in DOMAIN y.outbound : RuleParses(y.outbound[i])

ReadPolicy(y) ==
    [header |-> y.header, name |-> Content(y.name[1]),
     description |-> ReadOption(y.description),
     version |-> IF y.version = None THEN 1 ELSE y.version[1],
     priority |-> IF y.priority = None THEN 0 ELSE y.priority[1],
     os |-> Strings(y.os), tags |-> ReadTags(y.tags), groups |-> Strings(y.groups),
     agent_ids |-> Strings(y.agent_ids), exclude |-> y.exclude,
     inbound |-> ReadRules(y.inbound), outbound |-> ReadRules(y.outbound),
     monitored_paths |-> y.monitored_paths, classifiers |-> y.classifiers]

RuleValid(r) ==
    /\ IsSlug(r.id)
    /\ r.conditions # None =>
          \A f \in RegexFields :
              r.conditions[1].regex[f] # None =>
                  r.conditions[1].regex[f][1] \notin BadRegexes

Valid(p) ==
    LET rules == p.inbound \o p.outbound IN
    /\ p.header              \* apiVersion and kind
    /\ IsSlug(p.name)
    /\ \A i \in DOMAIN rules : RuleValid(rules[i])
    /\ \A i, j \in DOMAIN rules : rules[i].id = rules[j].id => i = j

from_yaml(y) ==
    IF Parses(y) /\ Valid(ReadPolicy(y)) THEN Some(ReadPolicy(y)) ELSE None

----------------------------------------------------------------------------
(* From form to text: formToYaml. *)

\* Bare when it has only the characters [A-Za-z0-9_./-].  In quotes, backslashes
\* and quotes are escaped and nothing else is.
yamlString(s) == [str |-> s, style |-> IF s \in NeedQuotes THEN "quoted" ELSE "bare"]

\* A field written only when it is not empty.
EmitText(s) == IF s = "" THEN None ELSE Some(yamlString(s))

emitSourceLike(it) ==
    [type |-> it.type,
     list |-> IF it.list = {} THEN None ELSE Some({yamlString(s) : s \in it.list}),
     recursive |-> IF it.type = "directory" THEN Some(it.recursive) ELSE None]

emitConditions(c) ==
    IF c = None THEN None
    ELSE LET cond == c[1] IN
         IF /\ \A f \in SizeFields : cond.size[f] = None
            /\ cond.file_extensions = {}
            /\ \A f \in RegexFields : cond.regex[f] = ""
         THEN None
         ELSE Some([size |-> cond.size,
                    file_extensions |-> {yamlString(s) : s \in cond.file_extensions},
                    regex |-> [f \in RegexFields |-> EmitText(cond.regex[f])]])

\* Only the active mode's selector is written.
emitTargets(f, mode) == IF f.mode = mode THEN {yamlString(s) : s \in f[mode]} ELSE {}

emitTags(f) ==
    IF f.mode = "tags"
    THEN {[key |-> yamlString(t.key), value |-> yamlString(t.value)] : t \in f.tags} ELSE {}

\* `if (r && r.id)`: a form whose rule has no id has no rules.
emitRule(f) ==
    IF f.rule.id = "" THEN <<>>
    ELSE << [id |-> Some(yamlString(f.rule.id)), name |-> EmitText(f.rule.name),
             enabled |-> None, action |-> f.rule.action,
             message |-> EmitText(f.rule.message), flags |-> f.rule.flags,
             sources |-> [i \in DOMAIN f.sources |-> emitSourceLike(f.sources[i])],
             destinations |-> [i \in DOMAIN f.destinations |->
                                 emitSourceLike(f.destinations[i])],
             conditions |-> emitConditions(f.conditions)] >>

formToYaml(f) ==
    [header |-> TRUE, name |-> Some(yamlString(f.name)),
     description |-> EmitText(f.description), version |-> None,
     priority |-> Some(f.priority),
     os |-> {yamlString(s) : s \in f.os}, tags |-> emitTags(f),
     groups |-> emitTargets(f, "groups"), agent_ids |-> emitTargets(f, "agent_ids"),
     exclude |-> FALSE, inbound |-> <<>>, outbound |-> emitRule(f),
     monitored_paths |-> {}, classifiers |-> {}]

----------------------------------------------------------------------------
(* From policy to form: yamlToForm. *)

defaultRuleState ==
    [id |-> "my-rule", name |-> "", action |-> "log_only", message |-> "", flags |-> {}]

defaultFormState ==
    [name |-> "my-policy", description |-> "", priority |-> 100, mode |-> "all",
     os |-> {}, tags |-> {}, groups |-> {}, agent_ids |-> {},
     rule |-> defaultRuleState, sources |-> <<>>, destinations |-> <<>>,
     conditions |-> None]

OrEmpty(o) == IF o = None THEN "" ELSE o[1]

normalizeConditions(c) ==
    [size |-> [f \in SizeFields |->
                 IF c.size[f] = None THEN None ELSE Some(prettySize(JsNumber(c.size[f][1])))],
     file_extensions |-> c.file_extensions,
     regex |-> [f \in RegexFields |-> OrEmpty(c.regex[f])]]

parsedTargetsToForm(p) ==
    IF p.tags # {} THEN "tags"
    ELSE IF p.groups # {} THEN "groups"
    ELSE IF p.agent_ids # {} THEN "agent_ids" ELSE "all"

parsedToFormState(p) ==
    LET hasRule == p.outbound # <<>>
        r == p.outbound[1]
    IN [name |-> p.name, description |-> OrEmpty(p.description),
        priority |-> p.priority, mode |-> parsedTargetsToForm(p),
        os |-> p.os, tags |-> p.tags, groups |-> p.groups, agent_ids |-> p.agent_ids,
        rule |-> IF hasRule
                 THEN [id |-> r.id, name |-> r.name, action |-> r.action,
                       message |-> OrEmpty(r.message), flags |-> r.flags]
                 ELSE defaultRuleState,
        sources |-> IF hasRule THEN r.sources ELSE <<>>,
        destinations |-> IF hasRule THEN r.destinations ELSE <<>>,
        conditions |-> IF hasRule /\ r.conditions # None
                       THEN Some(normalizeConditions(r.conditions[1])) ELSE None]

\* listUnsupported: what the form cannot show.
listUnsupported(p) ==
    {what \in {"outbound", "inbound", "mix", "exclude", "monitored_paths", "classifiers"} :
        \/ what = "outbound" /\ Len(p.outbound) > 1
        \/ what = "inbound" /\ p.inbound # <<>>
        \/ what = "mix" /\ \E s, t \in {"tags", "groups", "agent_ids"} :
                              s # t /\ p[s] # {} /\ p[t] # {}
        \/ what = "exclude" /\ p.exclude
        \/ what = "monitored_paths" /\ p.monitored_paths # {}
        \/ what = "classifiers" /\ p.classifiers # {}}

----------------------------------------------------------------------------
(* What the form leaves of a policy. *)

\* A string that does not come back from a line, or from brackets.
LineForgotten(s) == s \in Dashes \cup Multilines \cup Unquotables
BracketsForgotten(s) == s \in Multilines \cup Unquotables

\* An optional text the form cannot give back: it writes no empty text, and
\* writes null without quotes.
TextForgotten(o) == o # None /\ (o[1] \in {""} \cup Nulls \/ LineForgotten(o[1]))

ItemForgotten(it) ==
    \/ it.type \in ListRequired /\ it.list = {}
    \/ \E s \in it.list : s \in NotStrings \/ BracketsForgotten(s)

\* A size comes back as the JavaScript number nearest to it, and as a shorter
\* decimal of that number unless a unit divides it.
SizeForgotten(n) ==
    LET m == JsNumber(n) IN n # IF m % Kilo = 0 THEN m ELSE Printed(m)

ConditionsForgotten(c) ==
    \/ \E f \in RegexFields : TextForgotten(c.regex[f])
    \/ \E f \in SizeFields : c.size[f] # None /\ SizeForgotten(c.size[f][1])
    \/ \E s \in c.file_extensions : BracketsForgotten(s)
    \/ /\ \A f \in SizeFields : c.size[f] = None
       /\ \A f \in RegexFields : c.regex[f] = None
       /\ c.file_extensions = {}

\* The policies that listUnsupported calls form-friendly and that the form
\* changes all the same, or turns into a document that is refused.
FormForgets(p) ==
    \/ p.version # 1
    \/ LineForgotten(p.name)
    \/ TextForgotten(p.description)
    \/ \E s \in p.os \cup p.groups \cup p.agent_ids : BracketsForgotten(s)
    \/ \E t \in p.tags : BracketsForgotten(t.key) \/ LineForgotten(t.value)
    \/ p.outbound = <<>>
    \/ \E i \in DOMAIN p.outbound :
          LET r == p.outbound[i] IN
          \/ ~r.enabled
          \/ LineForgotten(r.id)
          \/ r.name = "" \/ LineForgotten(r.name)
          \/ TextForgotten(r.message)
          \/ \E j \in DOMAIN r.sources : ItemForgotten(r.sources[j])
          \/ \E j \in DOMAIN r.destinations : ItemForgotten(r.destinations[j])
          \/ r.conditions # None /\ ConditionsForgotten(r.conditions[1])
=============================================================================
