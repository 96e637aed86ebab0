---------------------------- MODULE ToolGrammar ----------------------------
(***************************************************************************)
(* What the wrapped tools make of their arguments, as the rule table's     *)
(* measurements have it: getopt's grammar for all but find and bfs, with   *)
(* one pass over the arguments.  What the scanners of ArgvScan say of a    *)
(* command should be what its tool does.                                   *)
(***************************************************************************)
EXTENDS ArgvScan

\* What a pass has read: what the options so far have set, the last one over
\* those before it, the operands, and whether the tool runs at all.
Reading ==
    [phase : {"options", "operands", "expression"}, action : Actions,
     depth : Int, floor : Int, device : BOOLEAN, pattern : BOOLEAN, roots : Seq(Text),
     base : Text, operands : Seq(Text), runs : BOOLEAN]
Nothing(p) ==
    [phase |-> "options", action |-> p.dirAction, depth |-> NoDepth, floor |-> NoDepth,
     device |-> FALSE, pattern |-> FALSE, roots |-> << >>, base |-> NoText,
     operands |-> << >>, runs |-> TRUE]

\* A depth: repeats of a tool with ranges may not fall below the minimum of the
\* first.
TellDepth(p, r, text) ==
    LET span == DepthSpan(p, text)
    IN  [r EXCEPT !.depth = span.high,
                  !.floor = IF @ # NoDepth THEN @ ELSE IF span.low # NoDepth THEN span.low
                            ELSE span.high,
                  !.runs = @ /\ span # NoSpan /\ (p.depthRange => span.high >= r.floor)]

TellDepths(p, r, texts) ==
    Scan(Len(texts), Reading,
         [c \in (1..Len(texts)) \X Reading |-> <<c[1] + 1, TellDepth(p, c[2], texts[c[1]])>>], r)

\* An option with its value.
Tell(p, r, flag, value) ==
    LET s == IF flag \in p.depthFlags THEN TellDepth(p, r, value) ELSE r
        acts == flag \in p.recValue
    IN  [s EXCEPT !.action = IF ~acts THEN @ ELSE IF value \in p.onValues THEN "recurse" ELSE "skip",
                  !.pattern = @ \/ flag \in p.patFlags,
                  !.roots = IF flag \in p.rootFlags THEN Append(@, value) ELSE @,
                  !.base = IF flag \in p.cwdFlags THEN value ELSE @,
                  !.runs = @ /\ (acts => value \in p.onValues \cup {<<"skip">>})]

\* Options without one: no tool has a letter that takes another's effect back.
Switch(p, r, flags) ==
    [r EXCEPT !.action = IF flags \cap p.recFlags # {} THEN "recurse" ELSE @,
              !.device = IF flags \cap p.deviceFlags # {} THEN TRUE
                         ELSE IF flags \cap p.deviceOff # {} THEN FALSE ELSE @]

-----------------------------------------------------------------------------
(* getopt. *)

Options(p) == ValueFlags(p) \cup p.recFlags \cup p.recValue \cup p.deviceFlags
                  \cup p.deviceOff \cup {Long(n) : n \in p.exact}

\* The option a long token means: itself, or the only one it begins.
Meant(p, t) ==
    LET longer == {f \in Options(p) : f.kind = "long" /\ f.name \in Longer(t.name)}
    IN  IF Long(t.name) \in Options(p) THEN Long(t.name)
        ELSE IF p.abbreviates /\ Cardinality(longer) = 1
        THEN CHOOSE f \in longer : TRUE
        ELSE None

\* The letter of a short token that takes a value, 0 if none does.
Eater(p, t) ==
    LET eating == {i \in 1..Len(t.text) : Short(<<t.text[i]>>) \in ValueFlags(p)}
    IN  IF eating = {} THEN 0 ELSE Min(eating)

\* The letters before it, and the digits among them.
Letters(p, t) == SubSeq(t.text, 1, IF Eater(p, t) = 0 THEN Len(t.text) ELSE Eater(p, t) - 1)
TellLetters(p, r, letters) ==
    LET runs == IF p.depthDigits # {} /\ ToSet(letters) \subseteq p.depthDigits
                THEN DigitRuns(letters) ELSE << >>
    IN  TellDepths(p, Switch(p, r, {Short(<<l>>) : l \in ToSet(letters)}), runs)

\* An error ends a pass.
Goes(argv, i, r) == <<IF r.runs THEN i ELSE Len(argv) + 1, r>>
Fails(argv, r) == Goes(argv, 0, [r EXCEPT !.runs = FALSE])

\* An option that takes a value, attached or in the next token.
Takes(p, argv, i, r, flag, attached) ==
    IF attached # NoText THEN Goes(argv, i + 1, Tell(p, r, flag, attached))
    ELSE IF i = Len(argv) THEN Fails(argv, r)
    ELSE Goes(argv, i + 2, Tell(p, r, flag, ValueOf(argv[i + 1])))

LongAt(p, argv, i, r) ==
    LET t == argv[i]
        flag == Meant(p, t)
    IN  IF flag \in ValueFlags(p) THEN Takes(p, argv, i, r, flag, t.text)
        ELSE IF flag = None \/ t.text # NoText THEN Fails(argv, r)
        ELSE <<i + 1, Switch(p, r, {flag})>>

ShortAt(p, argv, i, r) ==
    LET t == argv[i]
        k == Eater(p, t)
        told == TellLetters(p, r, Letters(p, t))
        glued == IF k = Len(t.text) THEN NoText ELSE SubSeq(t.text, k + 1, Len(t.text))
    IN  IF k = 0 THEN Goes(argv, i + 1, told)
        ELSE Takes(p, argv, i, told, Short(<<t.text[k]>>), glued)

GetoptAt(p, argv, i, r) ==
    LET t == argv[i]
    IN  CASE t.kind = "word" -> <<i + 1, [r EXCEPT !.operands = Append(@, t.text)]>>
          [] t.kind = "dashdash" ->
                <<Len(argv) + 1, [r EXCEPT !.operands = @ \o Rest(argv, i)]>>
          [] t.kind = "long" -> LongAt(p, argv, i, r)
          [] t.kind = "short" /\ t \in p.execFlags -> <<SkipExecBody(p, argv, i), r>>
          [] t.kind = "short" /\ t \notin p.execFlags -> ShortAt(p, argv, i, r)

-----------------------------------------------------------------------------
(* find: options, operands, expression. *)

\* An action, a depth or a test; each makes the rest of the tokens expression.
ExpressionAt(p, argv, i, r) ==
    LET t == argv[i]
        past == SkipExecBody(p, argv, i)
        Then(n, s) == Goes(argv, n, [s EXCEPT !.phase = "expression"])
    IN  IF t \in p.execFlags /\ argv[past - 1] \in {Semicolon, Word(<<"+">>)} THEN Then(past, r)
        ELSE IF t \in p.depthFlags /\ i < Len(argv)
        THEN Then(i + 2, Tell(p, r, t, ValueOf(argv[i + 1])))
        ELSE IF t \in p.deviceFlags \cup {Word(<<"!">>)} THEN Then(i + 1, Switch(p, r, {t}))
        ELSE Fails(argv, r)

\* What an option before the operands sets: a root, or what its letters do.
Leads(p, argv, i, r) ==
    LET t == argv[i]
    IN  IF t \in p.rootFlags THEN [r EXCEPT !.roots = Append(@, ValueOf(argv[i + 1]))]
        ELSE Switch(p, r, {Short(<<l>>) : l \in ToSet(t.text)})

FindAt(p, argv, i, r) ==
    LET t == argv[i]
        width == FindLeading(p, t)
        operand == t.kind = "word" /\ t # Word(<<"!">>)
    IN  IF r.phase = "options" /\ width > 0
        THEN IF i + width > Len(argv) + 1 THEN Fails(argv, r)
             ELSE <<i + width, Leads(p, argv, i, r)>>
        ELSE IF r.phase # "expression" /\ operand
        THEN <<i + 1, [r EXCEPT !.phase = "operands", !.operands = Append(@, t.text)]>>
        ELSE IF t # DashDash THEN ExpressionAt(p, argv, i, r)
        ELSE IF \/ r.phase = "options"
                \/ r.phase = "operands" /\ p.dashdash = "end_of_options"
        THEN <<i + 1, r>>
        ELSE Fails(argv, r)

-----------------------------------------------------------------------------
(* What the tool does. *)

Read(p, argv) ==
    Scan(Len(argv), Reading,
         [c \in (1..Len(argv)) \X Reading |->
             IF p.rootMode = "leading" THEN FindAt(p, argv, c[1], c[2])
             ELSE GetoptAt(p, argv, c[1], c[2])],
         Nothing(p))

Operands(p, r) ==
    LET skip == IF p.rootMode = "leading" \/ r.pattern THEN 0 ELSE p.skipPos
    IN  r.roots \o
            (IF p.rootMode = "stdin" THEN << >> ELSE SubSeq(r.operands, skip + 1, Len(r.operands)))

Walked(p, r, tty) ==
    IF Operands(p, r) = << >>
    THEN IF tty \/ ~(p.rootMode = "stdin" \/ p.fallbackNeedsTty) THEN {Here} ELSE {}
    ELSE ToSet(Operands(p, r)) \ {<< >>}

Traverses(p, r) ==
    IF p.dirAction = "none" THEN p.always
    ELSE r.action \in {"recurse", "recurse_default"} \/ (p.depthEnables /\ r.depth # NoDepth)

DepthReached(p, r) ==
    IF r.depth # NoDepth THEN r.depth
    ELSE IF p.defaultDepth # NoDepth /\ r.action = "recurse_default"
            /\ ToSet(Operands(p, r)) \ {<< >>} # {}
    THEN p.defaultDepth ELSE NoDepth

-----------------------------------------------------------------------------
(* What the scanners promise of a command that its tool runs. *)

\* A command walks a tree exactly if is_traversal() says so, whatever order its
\* directory actions come in and however they are spelled.
\* src/walk_blocker/search_rules.py:496-505.
TraversalIsRead(p, argv) ==
    Read(p, argv).runs => (IsTraversal(p, argv) <=> Traverses(p, Read(p, argv)))

\* A walk has the bounds that are read of it, and a command whose depth is
\* called malformed does not run.  src/walk_blocker/search_rules.py:1888-1911
\* and 1973-1982.
BoundsAreRead(p, argv) ==
    LET r == Read(p, argv)
    IN  r.runs /\ Traverses(p, r) =>
            /\ DepthBound(p, argv) = DepthReached(p, r)
            /\ DeviceBounded(p, argv) = r.device
            /\ ~DepthMalformed(p, argv)

\* A walk starts where roots() and effective_cwd() have it start: no operand is
\* lost, and no pattern, value or template token charged.
\* src/walk_blocker/search_rules.py:2321-2331.
RootsAreRead(p, argv, tty) ==
    LET r == Read(p, argv)
    IN  r.runs /\ Traverses(p, r) =>
            /\ Roots(p, argv, tty, TRUE) = Walked(p, r, tty)
            /\ EffectiveCwd(p, argv) = r.base
=============================================================================
