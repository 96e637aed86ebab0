------------------------------ MODULE ArgvScan ------------------------------
(***************************************************************************)
(* How the rule table reads a command: src/walk_blocker/search_rules.py,   *)
(* one profile per tool and four scanners over its arguments.  Each of the *)
(* scanners steps over the same grammar for itself; ToolGrammar is what    *)
(* they should agree with.                                                 *)
(*                                                                         *)
(* A text is a sequence of atoms, and an atom is a letter, a numeral, a    *)
(* separator or a word.  So -rd is <<"r", "d">> after its dash, -dskip is  *)
(* <<"d", "skip">>, and the empty argument is << >>.                       *)
(***************************************************************************)
EXTENDS Integers, Sequences, SequencesExt, FiniteSets, FiniteSetsExt, TLC

CONSTANT
    Atom        \* what a text is made of

Numeral ==
    [d \in {"0", "1", "3", "5", "9"} |->
        CASE d = "0" -> 0 [] d = "1" -> 1 [] d = "3" -> 3 [] d = "5" -> 5 [] d = "9" -> 9]
Letter == {"r", "d", "e", "n", "f", "x", "l", "C", "D", "E", "H", "L", "S"}
              \cup DOMAIN Numeral

\* Tokens.  A long option without "=" has NoText.
NoText == <<"no text">>
Token(kind, name, text) == [kind |-> kind, name |-> name, text |-> text]
Word(text) == Token("word", "", text)
Short(text) == Token("short", "", text)
LongIs(name, text) == Token("long", name, text)
Long(name) == LongIs(name, NoText)
DashDash == Token("dashdash", "", << >>)
Dash == Token("word", "", <<"-">>)
Semicolon == Word(<<";">>)

\* Any text, or none.
Text == Seq(Atom) \cup {NoText}

\* The atoms that mean something to a tool; "no text" is none.
ASSUME AtomAssumption ==
    /\ Letter \cup {"-", ",", ";", "+", "{}", ".", "skip", "an option"} \subseteq Atom
    /\ "no text" \notin Atom

\* What a token says where a value is wanted.
ValueOf(t) == IF t.kind = "word" THEN t.text ELSE <<"an option">>

\* The longer option names that a name is a proper prefix of.
Longer(name) ==
    CASE name = "dir" -> {"directories"}
      [] name = "re" -> {"recursive", "regexp"}
      [] name = "rec" -> {"recursive"}
      [] name = "rege" -> {"regexp"}
      [] name = "binary" -> {"binary-files"}
      [] name \in {"time", "time-s"} -> {"time-style"}
      [] OTHER -> {}

-----------------------------------------------------------------------------
(* Profiles: the fields of class Profile. *)

\* The flags of a tool that has none.
NoFlags ==
    [field \in {"recFlags", "recValue", "depthFlags", "deviceFlags", "deviceOff", "values",
                "patFlags", "rootFlags", "cwdFlags", "execFlags", "execPlus"} |-> {}]

\* How a tool reads its arguments, unless its profile says otherwise.
Plain ==
    LET ways == [always |-> FALSE, onValues |-> {}, skipPos |-> 0, rootMode |-> "positional",
                 exact |-> {}, abbreviates |-> FALSE, dirAction |-> "none",
                 defaultDepth |-> -1, depthEnables |-> FALSE, depthRange |-> FALSE,
                 depthDigits |-> {}, fallbackNeedsTty |-> FALSE, clusterLetters |-> {},
                 dashdash |-> "predicate"]
    IN  [field \in DOMAIN ways \cup DOMAIN NoFlags |->
            IF field \in DOMAIN ways THEN ways[field] ELSE NoFlags[field]]

\* value_flags: a profile's own, and all the others that take one.
ValueFlags(p) == p.values \cup p.patFlags \cup p.depthFlags \cup p.rootFlags

Grep ==
    [Plain EXCEPT !.recFlags = {Short(<<"r">>), Long("recursive")},
                  !.recValue = {Short(<<"d">>), Long("directories")},
                  !.onValues = {<<"recurse">>},
                  !.patFlags = {Short(<<"e">>), Long("regexp")},
                  !.values = {Short(<<"d">>), Long("directories"), Short(<<"C">>),
                              Long("binary-files")},
                  !.exact = {"binary"}, !.abbreviates = TRUE,
                  !.dirAction = "skip", !.skipPos = 1]

Rgrep == [Grep EXCEPT !.dirAction = "recurse"]

Rg ==
    [Plain EXCEPT !.always = TRUE, !.depthFlags = {Long("max-depth")},
                  !.deviceFlags = {Long("one-file-system")},
                  !.deviceOff = {Long("no-one-file-system")},
                  !.patFlags = {Short(<<"e">>), Long("regexp")},
                  !.values = {Short(<<"C">>)}, !.skipPos = 1]

Fd ==
    [Plain EXCEPT !.always = TRUE, !.depthFlags = {Short(<<"d">>), Long("max-depth")},
                  !.deviceFlags = {Long("one-file-system")},
                  !.rootFlags = {Long("search-path")},
                  !.cwdFlags = {Long("base-directory")},
                  !.execFlags = {Short(<<"x">>)},
                  !.values = {Short(<<"E">>), Long("base-directory"), Short(<<"x">>)},
                  !.skipPos = 1]

\* -P, spelled E, stands for its options with a value.
Tree ==
    [Plain EXCEPT !.always = TRUE, !.depthFlags = {Short(<<"L">>)},
                  !.deviceFlags = {Short(<<"x">>)}, !.values = {Short(<<"E">>)}]

Du ==
    [Plain EXCEPT !.always = TRUE,
                  !.deviceFlags = {Short(<<"x">>), Long("one-file-system")},
                  !.values = {Short(<<"d">>), Long("max-depth"), Long("time-style")},
                  !.exact = {"time"}, !.abbreviates = TRUE]

\* find and bfs, which differ in `--` and in -f.
Find ==
    [Plain EXCEPT !.always = TRUE, !.rootMode = "leading",
                  !.execFlags = {Short(<<"exec">>), Short(<<"ok">>)},
                  !.execPlus = {Short(<<"exec">>)},
                  !.depthFlags = {Short(<<"maxdepth">>)},
                  !.deviceFlags = {Short(<<"xdev">>), Short(<<"x">>)},
                  !.clusterLetters = {"H", "L", "d", "x"},
                  !.values = {Short(<<"D">>), Short(<<"S">>)}]

Bfs == [Find EXCEPT !.dashdash = "end_of_options", !.rootFlags = {Short(<<"f">>)}]

Ugrep ==
    [Plain EXCEPT !.dirAction = "recurse_default", !.defaultDepth = 1,
                  !.recFlags = {Short(<<"r">>), Long("recursive")},
                  !.recValue = {Short(<<"d">>), Long("directories")},
                  !.onValues = {<<"recurse">>, <<"dereference-recurse">>},
                  !.depthFlags = {Long("depth")}, !.depthEnables = TRUE,
                  !.depthRange = TRUE,
                  !.depthDigits = {"l", "n", "r", "-", ","} \cup DOMAIN Numeral,
                  !.fallbackNeedsTty = TRUE,
                  !.patFlags = {Short(<<"e">>), Long("regexp")},
                  !.values = {Short(<<"d">>), Long("directories"), Short(<<"C">>)},
                  !.skipPos = 1]

Fzf ==
    [Plain EXCEPT !.always = TRUE, !.rootMode = "stdin",
                  !.depthFlags = {Long("walker-max-depth")},
                  !.rootFlags = {Long("walker-root")}]

-----------------------------------------------------------------------------
(* One token. *)

None == Token("none", "", NoText)

\* resolve_for() and resolve_long_flag(): the one flag an option abbreviates
\* or is.
Resolve(p, t, flags) ==
    LET matches == {f \in flags : f.kind = "long" /\ f.name \in {t.name} \cup Longer(t.name)}
    IN  IF p.abbreviates /\ t.kind = "long" /\ t.name \notin p.exact
           /\ Cardinality(matches) = 1
        THEN CHOOSE f \in matches : TRUE
        ELSE None

NoCluster == [letters |-> << >>, flag |-> None, glued |-> NoText, next |-> FALSE]

\* parse_short_cluster(): the first letter that takes a value takes the rest,
\* or the next token if there is no rest.  An atom that is no letter is a
\* predicate of find's, none of whose letters takes a value.
Cluster(p, t) ==
    LET n == Len(t.text)
        eating == {i \in 1..n : t.text[i] \in Letter /\ Short(<<t.text[i]>>) \in ValueFlags(p)}
    IN  IF t.kind # "short" THEN NoCluster
        ELSE IF eating # {}
        THEN LET i == Min(eating)
             IN  [letters |-> SubSeq(t.text, 1, i), flag |-> Short(<<t.text[i]>>),
                  glued |-> IF i = n THEN NoText ELSE SubSeq(t.text, i + 1, n),
                  next |-> i = n]
        ELSE IF p.clusterLetters # {} /\ ~(ToSet(t.text) \subseteq p.clusterLetters)
        THEN NoCluster
        ELSE [NoCluster EXCEPT !.letters = t.text]

\* `-epat`, `-dskip`: a short flag of the set with its value glued on.
GluedTo(t, flags) ==
    t.kind = "short" /\ Len(t.text) > 1 /\ Short(<<t.text[1]>>) \in flags

\* `--regexp=pat`, under the flag's own name.
AttachedTo(t, flags) ==
    t.kind = "long" /\ t.text # NoText /\ Long(t.name) \in flags

IsAttachedPattern(p, t) == AttachedTo(t, p.patFlags) \/ GluedTo(t, p.patFlags)

\* The tokens an option takes when its value is not attached: a missing one
\* is stepped over all the same.
Width(t) == IF t.text = NoText THEN 2 ELSE 1

\* skip_exec_body(): the index after a command template.
SkipExecBody(p, argv, i) ==
    LET Ends(j) == \/ argv[j] = Semicolon
                   \/ /\ argv[i] \in p.execPlus
                      /\ argv[j] = Word(<<"+">>)
                      /\ j > i + 1 /\ argv[j - 1] = Word(<<"{}">>)
        ends == {j \in i + 1..Len(argv) : Ends(j)}
    IN  IF ends = {} THEN Len(argv) + 1 ELSE Min(ends) + 1

\* The value in the token after i, if there is one.
NextValue(argv, i) == IF i < Len(argv) THEN ValueOf(argv[i + 1]) ELSE NoText

-----------------------------------------------------------------------------
(* A scan of n tokens: what was read of those before a position makes, with  *)
(* the token there, the next position and what is read by then.              *)

Scan(n, Acc, step, first) ==
    LET from[c \in (Nat \ {0}) \X Acc] == IF c[1] > n THEN c[2] ELSE from[step[c]]
    IN  from[<<1, first>>]

-----------------------------------------------------------------------------
(* The directory action: is_traversal(). *)

NoSetting == [action |-> "none", used |-> 0]

\* _dir_action_setting(): a value that is missing sets nothing.
DirActionSetting(p, argv, i) ==
    LET t == argv[i]
        Setting(value, used) ==
            IF value = NoText THEN NoSetting
            ELSE [action |-> IF value \in p.onValues THEN "recurse" ELSE "skip", used |-> used]
        named == t.kind = "long"
                 /\ (Long(t.name) \in p.recValue
                     \/ \E f \in p.recValue : Resolve(p, t, {f}) # None)
    IN  IF p.recValue = {} THEN NoSetting
        ELSE IF t \in p.recValue \/ (named /\ t.text = NoText) THEN Setting(NextValue(argv, i), 2)
        ELSE IF named THEN Setting(t.text, 1)
        ELSE IF GluedTo(t, p.recValue) THEN Setting(SubSeq(t.text, 2, Len(t.text)), 1)
        ELSE IF t \in p.recFlags \/ (t.text = NoText /\ Resolve(p, t, p.recFlags) # None)
        THEN [action |-> "recurse", used |-> 1]
        ELSE NoSetting

Actions == {"none", "skip", "recurse", "recurse_default"}

\* What a cluster sets, left to right, so a -d at its end comes last.
ClusterAction(p, argv, i, action) ==
    LET c == Cluster(p, argv[i])
        isDir == c.flag \in p.recValue
        scanned == IF isDir THEN Front(c.letters) ELSE c.letters
        byLetter == IF "r" \in ToSet(scanned) THEN "recurse" ELSE action
        value == IF c.next THEN NextValue(argv, i) ELSE c.glued
    IN  IF ~isDir \/ value = NoText THEN byLetter
        ELSE IF value \in p.onValues THEN "recurse" ELSE "skip"

\* _last_dir_action(), at one token.
DirActionAt(p, argv, i, action) ==
    LET t == argv[i]
        s == DirActionSetting(p, argv, i)
        c == Cluster(p, t)
    IN  IF t = DashDash THEN <<Len(argv) + 1, action>>
        ELSE IF IsAttachedPattern(p, t) THEN <<i + 1, action>>
        ELSE IF s # NoSetting THEN <<i + s.used, s.action>>
        ELSE IF c.letters # << >>
        THEN <<i + (IF c.next THEN 2 ELSE 1), ClusterAction(p, argv, i, action)>>
        ELSE IF Resolve(p, t, ValueFlags(p)) # None THEN <<i + Width(t), action>>
        ELSE <<i + (IF t \in ValueFlags(p) THEN 2 ELSE 1), action>>

DirActionFrom(p, argv, initial) ==
    Scan(Len(argv), Actions,
         [c \in (1..Len(argv)) \X Actions |-> DirActionAt(p, argv, c[1], c[2])], initial)

\* Bug: one recursive flag is enough.
LastDirActionAny(p, argv) ==
    IF \E i \in DOMAIN argv : DirActionSetting(p, argv, i).action = "recurse"
    THEN "recurse" ELSE DirActionFrom(p, argv, p.dirAction)

LastDirAction(p, argv) == DirActionFrom(p, argv, p.dirAction)

-----------------------------------------------------------------------------
(* The bounds: _scan_bounds(). *)

NoDepth == -1
IsDepth(text) == Len(text) = 1 /\ text[1] \in DOMAIN Numeral

\* _depth_span(): [MIN,]MAX for a tool with ranges; what the tool rejects is
\* NoSpan.
NoSpan == [low |-> NoDepth, high |-> NoDepth]
DepthSpan(p, text) ==
    LET comma == IF Len(text) > 0 /\ text[1] = "," THEN 1 ELSE 2
        low == IF comma = 2 THEN Numeral[text[1]] ELSE NoDepth
        tail == SubSeq(text, comma + 1, Len(text))
    IN  IF IsDepth(text) THEN [low |-> NoDepth, high |-> Numeral[text[1]]]
        ELSE IF /\ p.depthRange /\ "," \in ToSet(text)
                /\ comma = 2 => text[1] \in DOMAIN Numeral /\ text[2] = ","
                /\ IsDepth(tail) /\ low <= Numeral[tail[1]]
        THEN [low |-> low, high |-> Numeral[tail[1]]]
        ELSE NoSpan

\* Depth read so far, the floor of a tool with ranges, the device bound.
Bounds == [last : Int, floor : Int, device : BOOLEAN, malformed : BOOLEAN]
Unbounded == [last |-> NoDepth, floor |-> NoDepth, device |-> FALSE, malformed |-> FALSE]

\* _apply_depth(): a later depth may not fall below a range's floor.
ApplyDepth(p, b, span) ==
    IF span = NoSpan \/ (p.depthRange /\ span.high < b.floor)
    THEN [b EXCEPT !.malformed = TRUE, !.last = NoDepth]
    ELSE [b EXCEPT !.last = span.high,
                   !.floor = IF p.depthRange /\ @ = NoDepth
                             THEN IF span.low # NoDepth THEN span.low ELSE span.high
                             ELSE @]

ApplyText(p, b, text) ==
    IF text = NoText THEN [b EXCEPT !.malformed = TRUE, !.last = NoDepth]
    ELSE ApplyDepth(p, b, DepthSpan(p, text))

ApplyTexts(p, b, texts) ==
    Scan(Len(texts), Bounds,
         [c \in (1..Len(texts)) \X Bounds |-> <<c[1] + 1, ApplyText(p, c[2], texts[c[1]])>>], b)

\* _device_setting().
DeviceOn(p, t) == t \in p.deviceFlags \/ Resolve(p, t, p.deviceFlags) # None
DeviceOff(p, t) == t \in p.deviceOff \/ Resolve(p, t, p.deviceOff) # None

\* The depth expressions among a cluster's letters, N, N-M and N,M; a lone 0
\* is --null.
DigitRunsAt(letters, i, runs) ==
    LET digit(k) == k <= Len(letters) /\ letters[k] \in DOMAIN Numeral
        ranged == i < Len(letters) /\ letters[i + 1] \in {"-", ","}
    IN  IF ~digit(i) \/ (~ranged /\ letters[i] = "0") THEN <<i + 1, runs>>
        ELSE IF ~ranged THEN <<i + 1, Append(runs, <<letters[i]>>)>>
        ELSE IF digit(i + 2)
        THEN <<i + 3, Append(runs, <<letters[i], ",", letters[i + 2]>>)>>
        ELSE <<i + 2, Append(runs, <<letters[i], ",">>)>>

DigitRuns(letters) ==
    Scan(Len(letters), Seq(Text),
         [c \in (1..Len(letters)) \X Seq(Text) |-> DigitRunsAt(letters, c[1], c[2])], << >>)

\* What a cluster sets on its way: device letters, digits, then its own depth
\* flag.
ClusterBounds(p, argv, i, b) ==
    LET c == Cluster(p, argv[i])
        device == [b EXCEPT !.device = @ \/ \E k \in DOMAIN c.letters :
                                                Short(<<c.letters[k]>>) \in p.deviceFlags]
        runs == IF p.depthDigits # {} /\ ToSet(c.letters) \subseteq p.depthDigits
                THEN DigitRuns(c.letters) ELSE << >>
        digits == ApplyTexts(p, device, runs)
    IN  IF c.flag \in p.depthFlags
        THEN ApplyText(p, digits, IF c.next THEN NextValue(argv, i) ELSE c.glued)
        ELSE digits

\* Where the scan goes on from a token that is no depth and no device flag.
BoundsStep(p, argv, i) ==
    LET t == argv[i]
        c == Cluster(p, t)
    IN  IF c.flag # None THEN i + (IF c.next THEN 2 ELSE 1)
        ELSE IF Resolve(p, t, ValueFlags(p)) # None THEN i + Width(t)
        ELSE i + (IF t \in ValueFlags(p) THEN 2 ELSE 1)

\* One token of the scan; _depth_value() is separate, attached or glued to a
\* short flag.
BoundsAt(p, argv, i, b) ==
    LET t == argv[i]
        glued == GluedTo(t, p.depthFlags) /\ IsDepth(SubSeq(t.text, 2, Len(t.text)))
    IN  IF t \in p.execFlags THEN <<SkipExecBody(p, argv, i), b>>
        ELSE IF t = DashDash /\ p.rootMode # "leading" THEN <<Len(argv) + 1, b>>
        ELSE IF t \in p.depthFlags
        THEN <<i + (IF i < Len(argv) THEN 2 ELSE 1), ApplyText(p, b, NextValue(argv, i))>>
        ELSE IF AttachedTo(t, p.depthFlags) THEN <<i + 1, ApplyText(p, b, t.text)>>
        ELSE IF glued THEN <<i + 1, ApplyText(p, b, SubSeq(t.text, 2, Len(t.text)))>>
        ELSE IF DeviceOff(p, t) THEN <<i + 1, [b EXCEPT !.device = FALSE]>>
        ELSE IF DeviceOn(p, t) THEN <<i + 1, [b EXCEPT !.device = TRUE]>>
        ELSE <<BoundsStep(p, argv, i), ClusterBounds(p, argv, i, b)>>

ScanBounds(p, argv) ==
    Scan(Len(argv), Bounds,
         [c \in (1..Len(argv)) \X Bounds |-> BoundsAt(p, argv, c[1], c[2])], Unbounded)

DeviceBounded(p, argv) == ScanBounds(p, argv).device
DepthMalformed(p, argv) == ScanBounds(p, argv).malformed

\* is_traversal(): a depth may be what makes it one.
IsTraversal(p, argv) ==
    IF p.dirAction = "none" THEN p.always
    ELSE \/ LastDirAction(p, argv) \in {"recurse", "recurse_default"}
         \/ p.depthEnables /\ ScanBounds(p, argv).last # NoDepth

-----------------------------------------------------------------------------
(* The operands: roots(). *)

Charges == [found : Seq(Text), positionals : Seq(Text), pattern : BOOLEAN]
Charged == [found |-> << >>, positionals |-> << >>, pattern |-> FALSE]

\* _find_leading(): the tokens of an option before find's operands, 0 if it
\* is none.
FindLeading(p, t) ==
    IF t \in p.rootFlags \cup {Short(<<"D">>), Short(<<"S">>)} THEN 2
    ELSE IF t.kind = "short" /\ ToSet(t.text) \subseteq p.clusterLetters THEN 1
    ELSE 0

\* The tokens after one, as operands.
Rest(argv, i) == [k \in 1..Len(argv) - i |-> ValueOf(argv[i + k])]

\* A dash that does not make an option of a token.
IsOption(t) == t.kind \in {"short", "long", "dashdash"}

SuppliesPattern(p, t) ==
    \/ t \in p.patFlags
    \/ IsAttachedPattern(p, t)
    \/ Resolve(p, t, p.patFlags) # None
    \/ Cluster(p, t).flag \in p.patFlags

\* One token of the scan.
RootsAt(p, argv, i, acc) ==
    LET t == argv[i]
        n == Len(argv)
        root == IF t \in p.rootFlags THEN t ELSE Resolve(p, t, p.rootFlags)
        Charge(text) == [acc EXCEPT !.found = Append(@, text)]
        seen == [acc EXCEPT !.pattern = @ \/ SuppliesPattern(p, t)]
        attachedRoot == p.rootMode # "leading" /\ AttachedTo(t, p.rootFlags)
    IN  IF t \in p.execFlags THEN <<SkipExecBody(p, argv, i), acc>>
        ELSE IF attachedRoot \/ (root # None /\ t.kind = "long" /\ t.text # NoText)
        THEN <<i + 1, Charge(t.text)>>
        ELSE IF root # None
        THEN <<i + 2, IF i < n THEN Charge(ValueOf(argv[i + 1])) ELSE acc>>
        ELSE IF IsAttachedPattern(p, t) THEN <<i + 1, seen>>
        ELSE IF Cluster(p, t).flag # None
        THEN <<i + (IF Cluster(p, t).next THEN 2 ELSE 1), seen>>
        ELSE IF t \in ValueFlags(p) \/ Resolve(p, t, ValueFlags(p)) # None
        THEN <<i + Width(IF t.kind = "long" THEN t ELSE None), seen>>
        ELSE IF t = DashDash /\ p.rootMode = "leading" /\ p.dashdash = "end_of_options"
        THEN <<i + 1, acc>>
        ELSE IF t = DashDash
        THEN <<n + 1, [acc EXCEPT !.positionals = @ \o Rest(argv, i)]>>
        ELSE IF IsOption(t) /\ p.rootMode = "leading" /\ FindLeading(p, t) = 0
        THEN <<n + 1, acc>>
        ELSE IF IsOption(t) THEN <<i + 1, acc>>
        ELSE <<i + 1, [acc EXCEPT !.positionals = Append(@, t.text)]>>

RootsFrom(p, argv) ==
    Scan(Len(argv), Charges,
         [c \in (1..Len(argv)) \X Charges |-> RootsAt(p, argv, c[1], c[2])], Charged)

\* The operands of find's grammar: `--` before the first of them is skipped,
\* and the first expression token ends them.
LeadingAt(p, argv, i, operands) ==
    LET t == argv[i]
        skipped == t = DashDash /\ (operands = << >> \/ p.dashdash = "end_of_options")
    IN  IF FindLeading(p, t) > 0 THEN <<i + FindLeading(p, t), operands>>
        ELSE IF skipped THEN <<i + 1, operands>>
        ELSE IF IsOption(t) \/ t = Word(<<"!">>) THEN <<Len(argv) + 1, operands>>
        ELSE <<i + 1, Append(operands, t.text)>>

LeadingOperands(p, argv) ==
    Scan(Len(argv), Seq(Text),
         [c \in (1..Len(argv)) \X Seq(Text) |-> LeadingAt(p, argv, c[1], c[2])], << >>)

Here == <<".">>

\* What is walked: the operands found, without the empty ones, or the working
\* directory if none was named and the tool falls back to it.
Roots(p, argv, tty, fallback) ==
    LET scan == RootsFrom(p, argv)
        skip == IF scan.pattern THEN 0 ELSE p.skipPos
        found == scan.found \o
                     CASE p.rootMode = "leading" -> LeadingOperands(p, argv)
                       [] p.rootMode = "stdin" -> << >>
                       [] OTHER -> SubSeq(scan.positionals, skip + 1, Len(scan.positionals))
        needsTty == p.rootMode = "stdin" \/ p.fallbackNeedsTty
    IN  IF found = << >> /\ fallback /\ (tty \/ ~needsTty) THEN {Here}
        ELSE ToSet(found) \ {<< >>}

\* depth_bound(): the last depth, or the tool's own while nothing has said
\* otherwise and an operand is named.
DepthBound(p, argv) ==
    LET depth == ScanBounds(p, argv).last
    IN  IF depth # NoDepth THEN depth
        ELSE IF /\ p.defaultDepth # NoDepth
                /\ LastDirAction(p, argv) = "recurse_default"
                /\ Roots(p, argv, FALSE, FALSE) # {}
        THEN p.defaultDepth
        ELSE NoDepth

\* effective_cwd(): the last base directory, NoText for the caller's own.
CwdAt(p, argv, i, base) ==
    LET t == argv[i]
    IN  IF t \in p.execFlags THEN <<SkipExecBody(p, argv, i), base>>
        ELSE IF t = DashDash THEN <<Len(argv) + 1, base>>
        ELSE IF t \in p.cwdFlags
        THEN <<i + 2, IF i < Len(argv) THEN ValueOf(argv[i + 1]) ELSE base>>
        ELSE IF AttachedTo(t, p.cwdFlags) THEN <<i + 1, t.text>>
        ELSE <<i + (IF Cluster(p, t).next \/ t \in ValueFlags(p) THEN 2 ELSE 1), base>>

EffectiveCwd(p, argv) ==
    IF p.cwdFlags = {} THEN NoText
    ELSE Scan(Len(argv), Text,
              [c \in (1..Len(argv)) \X Text |-> CwdAt(p, argv, c[1], c[2])], NoText)

\* unclaimed_absolute_root(): an operand scan of find's that charged nothing
\* although the command has an absolute path; absolute are the texts that
\* are one.
UnclaimedAbsoluteRoot(p, argv, absolute) ==
    /\ p.rootMode = "leading"
    /\ Roots(p, argv, FALSE, FALSE) = {}
    /\ \E i \in DOMAIN argv : argv[i].kind = "word" /\ argv[i].text \in absolute
=============================================================================
