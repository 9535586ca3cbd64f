---------------------------- MODULE Classifiers ----------------------------
(***************************************************************************)
(* The content classifiers of crates/scrooge-agent-core/src/modules/       *)
(* classifier: payment cards (luhn.rs), PESEL, NIP and IBAN.  Each scans a *)
(* text with a regular expression (find_iter: leftmost, longest,           *)
(* non-overlapping), strips every match and keeps it when its check digits *)
(* are right.                                                              *)
(*                                                                         *)
(* A character is a number: a decimal digit is itself, the capital letters *)
(* are 10 .. 35 (their values in an IBAN), and one character stands for    *)
(* each of: other word characters, space, dash, and the foreign digits     *)
(* (those of other scripts) of two, three and four bytes, which \d of the  *)
(* regex crate matches too.  The redacted text is left out.                *)
(*                                                                         *)
(* The text under scan is a number of the repository's tests that someone  *)
(* has edited a few times: mistyped, regrouped, cut or run into a word.    *)
(***************************************************************************)
EXTENDS Integers, Sequences, SequencesExt

CONSTANTS
    Seeds,      \* records [kind, text]: numbers the classifiers accept
    Keys,       \* characters an edit may insert
    MaxEdits    \* bound: edits made to a text

Digit == 0 .. 9
Letter == 10 .. 35
OtherWord == 36
Space == 37
Dash == 38
Foreign == 39 .. 41
Chars == 0 .. 41
Separator == {Space, Dash}

\* What \d matches: Unicode is on.  [A-Z0-9] is ASCII.
Numeral == Digit \cup Foreign
\* What filter(char::is_ascii_digit) drops.
NonDigit == Chars \ Digit

VARIABLES
    seed,       \* the number the text started from
    text,       \* the text that is scanned
    edits       \* edits so far

vars == <<seed, text, edits>>

----------------------------------------------------------------------------
(* Texts and sums. *)

\* The text t up to its k-th character, for every k, without those in `drop`.
Strips(t, drop) ==
    LET kept[k \in 0 .. Len(t)] ==
            IF k = 0 THEN <<>>
            ELSE IF t[k] \in drop THEN kept[k - 1] ELSE Append(kept[k - 1], t[k])
    IN  kept

Strip(t, drop) == Strips(t, drop)[Len(t)]

AllIn(t, S) == \A k \in DOMAIN t : t[k] \in S

\* str::len: foreign digits take two to four bytes, what else is measured one.
Width(c) == IF c \in Foreign THEN c - 37 ELSE 1
Bytes(t) ==
    LET Wider(n) == Cardinality({k \in DOMAIN t : Width(t[k]) > n})
    IN  Len(t) + Wider(1) + Wider(2) + Wider(3)

Sums(f) ==
    LET upTo[k \in 0 .. Len(f)] == IF k = 0 THEN 0 ELSE upTo[k - 1] + f[k]
    IN  upTo

Sum(f) == Sums(f)[Len(f)]

----------------------------------------------------------------------------
(* Check digits. *)

\* Mutant: a doubled digit above 9 is not reduced.
LuhnCheckUnreduced(ds) ==
    LET Value(k) == IF (Len(ds) - k) % 2 = 1 THEN 2 * ds[k] ELSE ds[k]
    IN  Sum([k \in DOMAIN ds |-> Value(k)]) % 10 = 0

\* From the last digit, every second one is doubled.
LuhnCheck(ds) ==
    LET Doubled(d) == IF 2 * d > 9 THEN 2 * d - 9 ELSE 2 * d
        Value(k) == IF (Len(ds) - k) % 2 = 1 THEN Doubled(ds[k]) ELSE ds[k]
    IN  Sum([k \in DOMAIN ds |-> Value(k)]) % 10 = 0

Weighted(ds, w) == Sum([k \in DOMAIN w |-> ds[k] * w[k]])

PeselWeights == <<1, 3, 7, 9, 1, 3, 7, 9, 1, 3>>
PeselCheck(ds) ==
    /\ Bytes(ds) = 11
    /\ (10 - (Weighted(ds, PeselWeights) % 10)) % 10 = ds[11]

NipWeights == <<6, 5, 7, 2, 3, 4, 5, 6, 7>>
NipCheck(ds) ==
    /\ Len(ds) = 10
    /\ Weighted(ds, NipWeights) % 11 # 10
    /\ Weighted(ds, NipWeights) % 11 = ds[10]

\* The first four characters go to the end.
Rearranged(cs) == SubSeq(cs, 5, Len(cs)) \o SubSeq(cs, 1, 4)

\* Mutant: a letter shifts the remainder by one decimal place only.
RemaindersOnePlace(cs) ==
    LET remainder[k \in 0 .. Len(cs)] ==
            IF k = 0 THEN 0 ELSE ((remainder[k - 1] * 10) + cs[k]) % 97
    IN  remainder

\* The remainder of the number the first k characters spell, for every k.
Remainders(cs) ==
    LET remainder[k \in 0 .. Len(cs)] ==
            IF k = 0 THEN 0
            ELSE (IF cs[k] < 10 THEN (remainder[k - 1] * 10) + cs[k]
                  ELSE (remainder[k - 1] * 100) + cs[k]) % 97
    IN  remainder

\* str::split_at(4), a byte index, panics inside a character.
IbanPanics(cs) == \A k \in 0 .. Len(cs) : Bytes(SubSeq(cs, 1, k)) # 4

\* What iban_check returns, if it returns: false at any foreign digit.
IbanCheck(cs) ==
    /\ AllIn(cs, Digit \cup Letter)
    /\ Remainders(Rearranged(cs))[Len(cs)] = 1

----------------------------------------------------------------------------
(* Regular expressions. *)

IsWord(t, k) == k \in DOMAIN t /\ t[k] \notin Separator

\* \b: the places k such that one of the characters k and k+1 is a word
\* character and the other is not.
Boundaries(t) == {k \in 0 .. Len(t) : IsWord(t, k) # IsWord(t, k + 1)}

\* At most one separator of `seps` between two characters, none at the ends.
Grouped(t, seps) ==
    /\ t # <<>> /\ t[1] \notin seps /\ t[Len(t)] \notin seps
    /\ \A k \in 1 .. Len(t) - 1 : t[k] \in seps => t[k + 1] \notin seps

\* Mutant: no separators.
CardRegexPlain(t) == AllIn(t, Numeral) /\ Len(t) \in 13 .. 19

\* (?:\d[ -]?){12,18}\d
CardRegex(t) ==
    /\ AllIn(t, Numeral \cup Separator)
    /\ Grouped(t, Separator)
    /\ Len(Strip(t, Separator)) \in 13 .. 19

\* \d{11}
PeselRegex(t) == Len(t) = 11 /\ AllIn(t, Numeral)

\* \d{3}[ -]?\d{3}[ -]?\d{2}[ -]?\d{2}
NipRegex(t) ==
    /\ AllIn(t, Numeral \cup Separator)
    /\ Grouped(t, Separator)
    /\ Len(Strip(t, Separator)) = 10
    /\ \A k \in DOMAIN t : t[k] \in Separator => Len(Strips(t, Separator)[k]) \in {3, 6, 8}

\* [A-Z]{2}\d{2}(?:[ ]?[A-Z0-9]){11,30}
IbanRegex(t) ==
    /\ Grouped(t, {Space})
    /\ Len(Strip(t, {Space})) \in 15 .. 34
    /\ AllIn(SubSeq(t, 1, 2), Letter) /\ AllIn(SubSeq(t, 3, 4), Numeral)
    /\ AllIn(SubSeq(t, 5, Len(t)), Digit \cup Letter \cup {Space})

\* The places <<i, j>> between two boundaries.
Spans(t) == {<<k + 1, j>> : k, j \in Boundaries(t)}

\* find_iter: from left to right, the longest match at the first place that
\* has one; the search goes on after its end.  Finds[k]: the matches that start
\* at the first k characters.
Finds(t, matches) ==
    LET EndsFrom(k) == {j \in 1 .. Len(t) : <<k, j>> \in matches}
        found[k \in 0 .. Len(t)] ==
            IF k = 0 THEN {}
            ELSE LET before == found[k - 1] IN
                 IF EndsFrom(k) # {} /\ \A m \in before : m[2] < k
                 THEN before \cup {<<k, Max(EndsFrom(k))>>} ELSE before
    IN  found

FindIter(t, matches) == Finds(t, matches)[Len(t)]

----------------------------------------------------------------------------
(* The classifiers. *)

\* The characters of match m of text t, without those in `drop`.
Matched(t, m, drop) == Strip(SubSeq(t, m[1], m[2]), drop)

\* scan of each classifier: the matches whose check digits are right.
ScanCard(t) ==
    {m \in FindIter(t, {p \in Spans(t) : CardRegex(SubSeq(t, p[1], p[2]))}) :
        LET digits == Matched(t, m, NonDigit) IN Len(digits) \in 13 .. 19 /\ LuhnCheck(digits)}
ScanPesel(t) ==
    {m \in FindIter(t, {p \in Spans(t) : PeselRegex(SubSeq(t, p[1], p[2]))}) :
        PeselCheck(Matched(t, m, {}))}
ScanNip(t) ==
    {m \in FindIter(t, {p \in Spans(t) : NipRegex(SubSeq(t, p[1], p[2]))}) :
        NipCheck(Matched(t, m, NonDigit))}

\* The matches whose check digits IbanClassifier::scan computes.
IbanTried(t) ==
    {m \in FindIter(t, {p \in Spans(t) : IbanRegex(SubSeq(t, p[1], p[2]))}) :
        Bytes(Matched(t, m, {Space})) \in 15 .. 34}
ScanIban(t) == {m \in IbanTried(t) : IbanCheck(Matched(t, m, {Space}))}

\* ClassifierRegistry::scan_all with the default classifiers.  A panic unwinds
\* through it: what the others found is lost too.
ScanPanics(t) == \E m \in IbanTried(t) : IbanPanics(Matched(t, m, {Space}))
ScanAll(t) ==
    LET Tagged(kind, ms) == {[kind |-> kind, from |-> m[1], to |-> m[2]] : m \in ms} IN
    IF ScanPanics(t) THEN {}
    ELSE Tagged("card", ScanCard(t)) \cup Tagged("pesel", ScanPesel(t))
         \cup Tagged("iban", ScanIban(t)) \cup Tagged("nip", ScanNip(t))

ReportsOf(kind, t) == {r \in ScanAll(t) : r.kind = kind}

----------------------------------------------------------------------------
(* The numbers, by the standards and independently of the code. *)

\* The value modulo 97 of a place with k characters of cs to its right, each of
\* which spells one decimal or, as a letter, two.
PlaceValues(cs) ==
    LET place[k \in 0 .. Len(cs)] ==
            IF k = 0 THEN 1
            ELSE IF cs[(Len(cs) + 1) - k] \in Digit THEN (place[k - 1] * 10) % 97
            ELSE (place[k - 1] * 100) % 97
    IN  place

\* The check digits as the standards define them.
Valid(kind, cs) ==
    CASE kind = "card" ->
           LET DigitSum(n) == (n \div 10) + (n % 10)
               Value(k) == IF (Len(cs) - k) % 2 = 1 THEN DigitSum(2 * cs[k]) ELSE cs[k]
           IN  Sum([k \in DOMAIN cs |-> Value(k)]) % 10 = 0
      [] kind = "pesel" -> (Weighted(cs, PeselWeights) + cs[11]) % 10 = 0
      [] kind = "nip"   -> (Weighted(cs, NipWeights) - cs[10]) % 11 = 0
      [] kind = "iban"  ->
           LET number == SubSeq(cs, 5, Len(cs)) \o SubSeq(cs, 1, 4)
               place == PlaceValues(number)
           IN  Sum([k \in DOMAIN number |-> number[k] * place[Len(number) - k]]) % 97 = 1

\* The characters of a number of each kind, without separators.
Shaped(kind, cs) ==
    CASE kind = "card"  -> AllIn(cs, Digit) /\ Len(cs) \in 13 .. 19
      [] kind = "pesel" -> AllIn(cs, Digit) /\ Len(cs) = 11
      [] kind = "nip"   -> AllIn(cs, Digit) /\ Len(cs) = 10
      [] kind = "iban"  -> /\ AllIn(cs, Digit \cup Letter) /\ Len(cs) \in 15 .. 34
                           /\ cs[1] \in Letter /\ cs[2] \in Letter
                           /\ cs[3] \in Digit /\ cs[4] \in Digit

IsNumber(kind, cs) == Shaped(kind, cs) /\ Valid(kind, cs)

\* The number a report is about: LuhnClassifier passes over foreign digits, the
\* others must not meet one.
NumberIn(kind, t) == Strip(t, IF kind = "card" THEN NonDigit ELSE Separator)

\* How a number may be grouped.
Layout(kind, t) ==
    CASE kind = "card"  -> Grouped(t, Separator)
      [] kind = "pesel" -> AllIn(t, Digit)
      [] kind = "nip"   -> NipRegex(t)
      [] kind = "iban"  -> /\ AllIn(t, Digit \cup Letter \cup {Space})
                           /\ Grouped(t, {Space})
                           /\ AllIn(SubSeq(t, 1, 4), Digit \cup Letter)

\* The seeds are numbers, alone and grouped as their kind may be.
ASSUME ClassifierAssumption ==
    /\ \A s \in Seeds :
          /\ s.kind \in {"card", "pesel", "nip", "iban"}
          /\ s.text \in Seq(Chars)
          /\ Layout(s.kind, s.text)
          /\ IsNumber(s.kind, Strip(s.text, Separator))
    /\ Keys \subseteq Chars
    /\ MaxEdits \in Nat

----------------------------------------------------------------------------
(* Edits. *)

Init ==
    /\ seed \in Seeds
    /\ text = seed.text
    /\ edits = 0

Edit(t) ==
    /\ edits < MaxEdits
    /\ edits' = edits + 1
    /\ text' = t
    /\ UNCHANGED seed

Replace == \E k \in DOMAIN text, c \in Digit : Edit([text EXCEPT ![k] = c])
Insert == \E k \in 1 .. Len(text) + 1, c \in Keys : Edit(InsertAt(text, k, c))
Delete == \E k \in DOMAIN text : Edit(RemoveAt(text, k))
Transpose ==
    \E k \in 1 .. Len(text) - 1 :
        Edit([text EXCEPT ![k] = text[k + 1], ![k + 1] = text[k]])

Next == Replace \/ Insert \/ Delete \/ Transpose

Spec == Init /\ [][Next]_vars

----------------------------------------------------------------------------
(* Properties. *)

\* The places at which two texts differ.
Differ(s, t) == {k \in DOMAIN s : s[k] # t[k]}

MistypedDigit(s, t) ==
    /\ Len(s) = Len(t)
    /\ \E k \in DOMAIN s : Differ(s, t) = {k} /\ s[k] \in Digit /\ t[k] \in Digit

SwappedDigits(s, t) ==
    /\ Len(s) = Len(t)
    /\ \E k \in 1 .. Len(s) - 1 :
          /\ Differ(s, t) = {k, k + 1}
          /\ s[k] \in Digit /\ s[k + 1] \in Digit
          /\ t[k] = s[k + 1] /\ t[k + 1] = s[k]

\* What the check digits are for: one mistyped digit of a valid number is
\* caught by every classifier, and so are two adjacent digits exchanged, which
\* Luhn's sum misses only for 0 and 9 and PESEL's does not promise to catch.
SlipsCaught ==
    (\/ MistypedDigit(seed.text, text)
     \/ /\ SwappedDigits(seed.text, text)
        /\ \/ seed.kind \in {"nip", "iban"}
           \/ seed.kind = "card" /\ {text[k] : k \in Differ(seed.text, text)} # {0, 9})
    => ReportsOf(seed.kind, text) = {}

\* A valid number that stands alone is found exactly once, however it is
\* grouped and whatever separators surround it.
FormattedFound ==
    \A i, j \in DOMAIN text :
        LET core == SubSeq(text, i, j) IN
        (/\ AllIn(SubSeq(text, 1, i - 1) \o SubSeq(text, j + 1, Len(text)), Separator)
         /\ Strip(core, Separator) = Strip(seed.text, Separator)
         /\ Layout(seed.kind, core))
        => ReportsOf(seed.kind, text) = {[kind |-> seed.kind, from |-> i, to |-> j]}

\* Whatever was typed, what is reported is a number of its kind with correct
\* check digits (a card perhaps with foreign digits in between), bounded on both
\* sides, and two reports of one classifier do not overlap.
ReportsAreNumbers ==
    \A r \in ScanAll(text) :
        /\ IsNumber(r.kind, NumberIn(r.kind, SubSeq(text, r.from, r.to)))
        /\ ~IsWord(text, r.from - 1) /\ ~IsWord(text, r.to + 1)
        /\ \A q \in ReportsOf(r.kind, text) : q # r => (q.to < r.from \/ r.to < q.from)
============================================================================
