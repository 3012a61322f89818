# Lexer bases of the grammars-v4 collection: specification, model checking, proofs

The repository holds some 350 ANTLR 4 grammars. Nearly all of its own *code* is in the
"base" classes: hand-written superclasses of generated lexers and parsers that carry the
state a context-free grammar cannot (indentation, nesting of strings and scopes, queued
tokens). This directory specifies those bases as they are written for the Python target
(`*/Python3/*Base.py`), checks them with TLC and proves properties of them with TLAPS.

## 1. The system

### 1.1 How the parts interact

    input characters
        |  generated lexer (ANTLR runtime): nextToken(), mode, LA(k), emit, reset
        v
    lexer base  (subclass of Lexer, superclass of the generated lexer)
        |  nextToken() overridden; actions of lexer rules call back into the base
        v
    CommonTokenStream -> generated parser -> parser base (semantic predicates)
        ^
    test driver (src/_scripts/templates/Python3/st.Test.py): builds lexer and parser,
    optionally runs the lexer to EOF and calls reset(), parses, sets the exit code

Everything is single-threaded. What makes it hard is order: a base overrides `nextToken()`
and keeps tokens in queues, looks one token ahead while the mode of the generated lexer
decides what that token is, makes up tokens that stand for nothing in the source, and must
be as new after `reset()`.

### 1.2 Inventory

| Part | State it keeps | Operations | Hard part | Correct when |
|---|---|---|---|---|
| Python 3.13 lexer base (`python/python3_13`) | pending queue, current and look-ahead token, indentation stack and flags, bracket count, lexer mode stack, bracket counts per f-string expression | `nextToken`, `reset`, one handler per token type | look-ahead lexed before the mode switch of the current token; f-strings in format specifications in f-strings; resets | stream matches its grammar, tokens in order, stacks sound, EOF comes |
| Python 2.7 lexer base (`python/python2_7_18`) | the same without modes | the same without f-strings | unguarded `pop(0)`; tokens made up at EOF | the same |
| Ring-buffer Python lexer (`python/python`) | ring of tokens that doubles, indentation list, bracket count | `emitToken`, `nextToken`, `HandleNewLine`, `HandleSpaces`, `IncIndentLevel`, `DecIndentLevel` | enlarging a wrapped ring; no `reset` | ring = queue; no token lost |
| Python 3 lexer base (`python/python3`) | token list, indentation list, bracket count | `emitToken`, `nextToken`, `onNewLine`, `openBrace`, `closeBrace`, `reset` | EOF removed and put back; `skip()` after emission | the stream of 1.3, EOF last |
| JavaScript lexer base | scope strict modes, template depths, last token | braces, string literal, template braces, `nextToken`, `reset` | strict mode of the scope left or entered; depths that braces of all kinds count | mode = that of the innermost scope; `}` closes what it should |
| JavaScript parser base | none; reads hidden tokens | `lineTerminatorAhead` | any number of hidden tokens, of which it reads two | true iff a line ends there |
| PHP lexer base | mode flags, heredoc identifier, last token type | `nextToken`, html close, curly close | tokens replaced after modes were popped | mode stack, flags and tags agree |
| MySQL lexer base | pending tokens, dot flag, version comment flag | `nextToken`, `emitDot`, `emit`, function, number and version tests | a dot emitted in the middle of a token | tokens laid end to end, the dot first |
| ANTLR grammar lexer (`LexerAdaptor`) | current rule type, mode stack | `emit`, begin and end of arguments, `reset` | options in rules | rule type = enclosing rule |
| PostgreSQL lexer base | stack of dollar-quote tags | push, test, pop | no reset | a string waits for its own tag |
| Lua lexer base | none; a loop over characters | `HandleComment`, `read_long_string`, `skip_sep` | brackets consumed before they are known to be a pair | a comment ends where it is complete |
| Rust lexer base, Go parser base | two tokens; name table | predicates | look-behind after reset | predicates mean what the grammar needs |
| Test driver template | options, `error_code` | `DoParse`, `-tokens` loop, reset | parse after reset | both passes see the same tokens |
| Other bases | none or one flag | predicates | - | - |
| Grammars, ports to other targets, scripts | - | - | - | not code of the Python target |

`PROJECT.json` lists each with its sources and status.

### 1.3 What a Python lexer promises

`PyTokenStream` says it without look-ahead, queues or modes: the order of tokens a caller of
`nextToken()` may see. INDENT and DEDENT match and stand between a NEWLINE and the first
token of a line; NEWLINE ends only lines that have tokens, and only outside brackets and
f-strings; EOF comes after every line is ended and every INDENT closed; a reset begins
another stream. The 3.13 and the 2.7 lexer implement it.

The lexers of `python/python` and `python/python3` promise less, and have an abstract stream
of their own, `PyLineStream`: a break (LINE_BREAK in the one, NEWLINE in the other) only
outside brackets, INDENT and DEDENT behind a break, EOF last with every INDENT closed.
`EmptyLines` says whether breaks may follow each other: `python/python3` gives one NEWLINE
more before the DEDENTs at EOF, and one at blanks at the start of the input.

## 2. Modules

| Module | Models |
|---|---|
| `PyTokenQueue` | what the 3.13 and the 2.7 base share: tokens, channels, the pending queue with the type queued last (`prev` = `__previous_pending_token_type`) and last on the default channel (`last`), indentation length with tab stops and form feeds, the INDENT/DEDENT loop |
| `PyTokenStream`, `PyLineStream` | the abstract streams of 1.3 |
| `Python313Lexer` | `python/python3_13/Python3/PythonLexerBase.py` |
| `Python27Lexer` | `python/python2_7_18/Python3/PythonLexerBase.py` |
| `TokenRing`, `TokenFifo` | the circular buffer of `python/python`: slots, first and last index, doubling, and what it stands for (`Contents`, `SoundRing`); the abstract queue |
| `PythonRingLexer` | `PythonLexerBase` of `python/python/Python3/PythonLexerBase.py` |
| `Python3Lexer` | `python/python3/Python3/Python3LexerBase.py` |
| `JavaScriptLexer`, `JavaScriptParser` | `JavaScriptLexerBase.py`; `lineTerminatorAhead` of `JavaScriptParserBase.py` |
| `PhpLexer` | `php/Python3/PhpLexerBase.py` |
| `AntlrLexer` | `antlr/antlr4/Python3/LexerAdaptor.py` |
| `MySQLLexer` | `sql/mysql/Oracle/Python3/MySQLLexerBase.py` |
| `PostgreSQLLexer` | `sql/postgresql/Python3/PostgreSQLLexerBase.py` |
| `LuaLexer` | `lua/Python3/LuaLexerBase.py` |
| `TestDriver` | `DoParse` of `_scripts/templates/Python3/st.Test.py`, composed with the six lexers above |
| `MC...` | the small inputs TLC checks |
| `Subsequences` | `OnlyIn(s, S)`, the elements of a sequence that are in a set: `SelectSeq`, as a recursive function of which proofs can say something |
| `SequenceLemmas` | lemmas about sequences, induction over them among them |
| `ModeLexerProofs` | proofs of `AntlrLexer`, `PhpLexer`, `JavaScriptLexer` and `JavaScriptParser` |
| other `...Proofs` | proofs of the module in the name; `TestDriverProofs` has those of the MySQL, PostgreSQL and Lua lexers, which are correct only for the resets the driver makes |

### 2.1 Python 3.13 and 2.7

3.13 (2.7 is the same without `fs`, `fault` and the ENCODING token):

| Code | Model |
|---|---|
| `__pending_tokens`, `__previous_pending_token_type`, `__last_pending_token_type_from_default_channel` | `out.pending`, `out.prev`, `out.last` |
| `__cur_token`, `__ffg_token` | `cur`, `ffg` |
| `_mode`, `_modeStack`/`__lexer_mode_stack`, `__paren_or_bracket_opened_stack` | `fs.mode`, `fs.modes`, `fs.parens` |
| `__brace_expression_stack` | its height is `Len(fs.parens)`: the code pushes and pops both together; its text is not kept |
| `__opened`, `__indent_length_stack`, `__was_space_indentation`, `__was_tab_indentation`, `__was_indentation_mixed_with_spaces_and_tabs` | `opened`, `ind.stack`, `ind.space`, `ind.tab`, `ind.mixed` |
| exception out of `nextToken()` | `pc = "failed"`, `fault` |
| error listener called | `reported` |

A call of `nextToken()` is several steps, so that each handler is an action of its own:
`Begin`, `SkipLeading`*, `EndLeading` (the first call), or `Fetch`; then one action of
`Dispatch`, the `match` of `__check_next_token`; then `Finish` (2.7: `Pop`), which pops.
`Drain` is a call after EOF was queued. `Reset` may come between any two calls, and after an
exception it is the only thing a caller may do. `heard` is a history variable: what the
caller has received.

The generated lexer is the environment (`Raw`): in each mode it returns any token of that
mode's rules in `PythonLexer.g4`, in the mode the lexer has *when it reads*, and EOF once the
input ends. Every sequence of tokens is an input, well-formed Python or not, but for what
maximal munch excludes (`MayFollow`: no whitespace after whitespace, a comment up to its
line's end). Characters of f-string modes that no rule matches are skipped by the runtime, so
that two FSTRING_MIDDLE tokens may follow each other.

What is abstracted:

- texts keep only characters the code looks at (blanks; the last two of an FSTRING_MIDDLE;
  the quotes of an FSTRING_START as one unit); line, column and indices of tokens are left
  out, `pos` numbers the raw token a token comes from;
- LSQB is LPAR and RSQB is RPAR: no branch tells them apart;
- `__is_dictionary_comprehension_or_set_comprehension` matches the text of an expression
  against a regular expression; both answers are possible where the code asks;
- the encoding name is not computed; the ENCODING token is there, hidden, first;
- the last case of `__set_lexer_mode_after_RBRACE_token`, a single `}` in an f-string literal:
  no rule of those modes makes an RBRACE, so the case is never reached (`AfterRbrace` leaves
  the modes as they are there, as the code does).

### 2.2 python/python and python/python3

Here the generated lexer calls back into the base, so that one action is one rule with its
callback (`HandleNewLine`, `HandleSpaces`, `IncIndentLevel`, `DecIndentLevel`, or none:
`LexText`); `Dedent` and `CloseLevel` are the turns of the two DEDENT loops, and `TakeToken`
the end of `nextToken()`. `ring` is `__buffer`, `__first_tokens_ind` and `__last_tokens_ind`;
`last` the type of `__last_token`; `ahead` the raw token that `LA(1)` is the first character
of. Characters no rule matches are a raw token of their own: `SKIPPED` stands for form feeds
and lone carriage returns, which `__is_not_new_line_or_comment` knows, `STRAY` for all others
(`$`, say), which that test takes for the start of a statement. So a line of stray characters
gets its LINE_BREAK, INDENT or DEDENTs, but no token of its own: the caller hears two
LINE_BREAKs in a row, or an INDENT with nothing behind it. For the stream such a line has
text, though no token: the token behind the characters has a mark (`gap`), and what the
caller has heard takes it into account (`LineAfter`).
Every call takes one token from the buffer and may add four, so that a backlog builds up and
the caller gets tokens later than they are lexed. The backlog is also why the odd test of
line 45 (`.type` of a slot that holds None) never raises: a block is only opened by a call
that leaves tokens in excess.

`Python3Lexer` is built the same way: `tokens`, `indents` and `opened` are the fields of that
name; `CloseAtEof` is the first half of `nextToken()`, in which the EOF tokens are taken out
of the list and one is put behind the DEDENTs; `OnNewLine` is the callback of rule NEWLINE,
whose four disjuncts are its branches. `skip()` makes the generated lexer go on within the
call (`pc = "lexing"`), with the NEWLINE left in the list. `next_next == -1` is `lone`: the
match ahead is the last character of the input. A line end that begins with a form feed
(FORMFEED) is a match of its own, because `next_ in (10, 13, 35)` does not know it.

### 2.3 The lexers under the driver

One step is one token of the generated lexer, or one character of a loop for Lua. What the
input goes on with (`c`) is a member of a small set: one item for each thing a rule or an
action tells apart. The prefix of a name is that of its lexer (`js`, `php`, `ad`, `my`, `pg`,
`lua`).

| Code | Model |
|---|---|
| JS `scopeStrictModes`, `useStrictCurrent`, `useStrictDefault`, `currentDepth`, `templateDepthStack`, `lastToken` | `js.scopes`, `.strict`, `.default`, `.depth`, `.templates`, `.last` |
| JS tokens on the hidden channel before the current one | `jsRun` |
| PHP `_scriptTag`, `_styleTag`, `_htmlNameText = "language"`, `_phpScript`, `_insideString`, `_prevTokenType`; `_heredocIdentifier` is the one of the open heredoc | `php.scriptTag`, `.styleTag`, `.language`, `.phpScript`, `.inside`, `.prev`; `.heredoc` |
| PHP second `super().nextToken()` of a call | `php.again`: its token is returned without being looked at |
| ANTLR `_currentRuleType` | `ad.rule` |
| MySQL `pendingTokens`, `justEmitedDot`, `inVersionComment`, `sqlModes` | `my.pending`, `.dot`, `.comment`, `.space` |
| PostgreSQL `tags`, mode | `pg.tags`, `.quoting` |
| Lua program counter and locals of the three functions | `lua.pc`, `.count`, `.sep` |
| all: `_mode` and `_modeStack` | `.modes`, with the current mode last |

`js.out`, `php.out` ... are the token just returned. `jsSeen`, `phpSeen` ... are histories
of the *input*, kept by what the input is and not by what the lexer does: how braces,
templates and scopes nest; the last PHP token; where in a grammar file the input is; how far
the characters are matched; the tag that began a string; the text of a comment. The
properties compare the lexer with them.

The inputs are all sequences of items, but for these: a grammar file for the ANTLR lexer is
well-formed up to where it stops (`InGrammar`), because a rule type has no meaning otherwise;
blanks are one token, and a JavaScript comment of one line ends with it.

`TestDriver` is `DoParse`. With `-tokens` it lists the tokens up to EOF (`ListToken`), calls
`reset()` (`ResetLexer`) and parses, which is a second pass over the same input
(`ParseToken`); without, it only parses. An exception ends it (`crashed`). `Configure` is
another caller than the driver, which sets `useStrictDefault` or the mode IgnoreSpace of a
new lexer. One lexer is there at a time; the variables of the others do not change.

## 3. Model checking

| Run | Question | Result |
|---|---|---|
| `py313_indent` | indentation, lines, brackets, comments, joined lines, resets | `TypeOK`, `IndentStackOK`, `StreamOK`, `RawTokensInOrder` hold |
| `py313_fstring` | f-strings nested three ways | `ModeStackOK`, `LookaheadInMode`, `OnlyKnownFaults`, `StreamOK`, `RawTokensInOrder`, `EofReached` hold |
| `py27_stream` | the 2.7 lexer | `TypeOK`, `IndentStackOK`, `PopFindsToken`, `RawTokensInOrder`, `StreamOK`, `EofReached` hold |
| `ring_stream` | lines, brackets, indentation, characters no rule matches; a buffer that wraps and doubles | `TypeOK`, `IndentsOK`, `RawTokensInOrder`, `OnlyKnownFaults`, `WholeInputHeard`, `RingIsQueue`, `StreamOK`, `EofReached` hold |
| `py3_stream` | the `python/python3` lexer, with resets | `BlocksOK`, `EofLast`, `TokensInOrder`, `StreamOK`, `EofReached` hold |
| `driver_lexers` | the six lexers of 2.3 under the driver | `SamePasses`, `TemplateBracesOK`, `ScopesOK`, `EndsOfLines`, `PhpPathOK`, `PhpFlagsOK`, `RuleTypeOK`, `ArgumentsOK`, `TokensTile`, `TagsOK`, `CommentEnds` hold |
| `py313_walrus` | "now correctly tokenizes ... walrus operator" | violated: `f'{x:={3}}'` calls a method that does not exist |
| `ring_skipped_end` | "Now emit as much DEDENT tokens as needed" | violated: EOF comes first when the last characters of a block are ones no rule matches |
| `ring_reset` | the driver resets the lexer and parses | violated: buffered tokens of the first pass, EOF among them, come first |
| `js_left` | "Current value of strict mode" | violated: behind a strict scope the lexer stays strict |
| `php_semicolon` | "Add semicolon ... if it is absent" | violated: it is added behind one, too |
| `mysql_version` | "Will set this.inVersionComment if the number matches" | violated: the number is never looked at |

The last six are disagreements between the code and its own words; `findings` in
`PROJECT.json` quotes them.

### 3.1 Properties

`StreamOK` is the refinement of `PyTokenStream` or `PyLineStream`: a lexer counts a bracket, a
level or a string when it handles it, the caller sees the token when it is popped, so the
mapping takes what the caller has received (3.13 and 2.7: takes off what is still queued).
`RawTokensInOrder` and `TokensInOrder` say that no raw token is lost, doubled or overtaken:
from the last one the caller has received through the queue to the look-ahead, positions are
consecutive. One exception is the code's: the whitespace token that first mixes tabs and
spaces is replaced by an error token. The property (3.13, 2.7) does not say where that was:
once tabs and spaces are mixed it lets neighbours be two apart anywhere, though never more.
`LookaheadInMode` says that the token read ahead belongs to the mode that is current once the
handler before it has switched modes. `PopFindsToken` (2.7) and `OnlyKnownFaults` (3.13, ring)
say that no unguarded access meets an empty container. `RingIsQueue` is the refinement of
`TokenFifo` by the ring: through wrapping and doubling, tokens go in at the end and come out
at the front.

`BlocksOK` (python3) has the reason why an EOF lexed before the blocks are closed is never
returned: while a block is open every call leaves a token over, so that the EOF is still in
the list when the next call takes it out. `EofLast` says that nothing but EOF is left then.

`TemplateBracesOK`: the depth that all braces count is the nesting, and the predicate of a
template's closing brace holds where `${` is the innermost opening, after any number of
unmatched braces. `ScopesOK`: a scope is strict when it or one around it has the directive;
the current mode is right until an inner scope is left (what happens then is `js_left`).
`EndsOfLines`: `lineTerminatorAhead` finds a line end among any number of hidden tokens,
unless a comment stands behind it, and finds none where there is none. `PhpPathOK` and
`PhpFlagsOK`: the path of modes is one the grammar means, and four flags agree with it;
`ComesApart` names the four constructs in which they do not. `RuleTypeOK` and `ArgumentsOK`:
at `[` the ANTLR lexer knows what it is in, and END_ARGUMENT is returned for one bracket only.
`TokensTile`: tokens of MySQL are laid end to end. `TagsOK`: a dollar-quoted string waits for
its own tag, also above a tag left by a reset. `CommentEnds`: a Lua comment, read character by
character, ends exactly when its text is complete, where complete is defined on the whole
text. `SamePasses`: after `reset()` a parser gets the tokens that were listed.

### 3.2 Bounds

`MaxRaw` is the number of raw tokens before EOF. There are three indentations: one blank; two
blanks behind a form feed, which starts the count over; a tab to column 8. A second level
takes seven tokens (a name, a line end and whitespace, twice, and a name), and so does a
dedent to a length between 0 and a level above it; two levels are then closed both at once by
the end of the input. That is the bound of `py313_indent`, `py27_stream` and `ring_stream`
(where a tab reaches column 4, and whitespace that begins the input opens a level, so that a
line may close both). To make room for it, types that take no part in it are left out of these
runs: closing brackets of 3.13, which `py313_fstring` has; backslashes at line ends of 2.7 and
of the ring lexer, which no branch of theirs names (`py313_indent` has them). For 3.13 and 2.7
a line that closes two levels (nine tokens) or is indented between two (ten) is left to the
theorems. The runs of f-strings and of `python/python3`, whose line end and indentation are
one match, have 6 tokens, those of the ring lexer's disagreements 5. Six tokens of f-string
allow a string in a format specification in a string, with brackets. Two kinds of quotes are
enough to see a specification mode of the wrong quotes. The ring starts with two slots instead
of 32 (`BufferSize`), so that six raw tokens make it wrap and double twice. `SkippedLast` lets
the input end with characters no rule matches, which `ring_skipped_end` is about;
`ring_stream` leaves that input out, so that it shows what holds for all others. Five tokens
make a line of stray characters between two others, six an indented one.

`MaxItems` (in `MCTestDriver`) bounds an input that is only parsed: 7 items of JavaScript (a
brace in a template expression in a template, closed again), 10 of PHP (a script tag with a
language, PHP in it, a string with an expression, a comment and `?>`), 12 of a grammar file
(a rule with options and an argument in an argument, and a rule behind it), 6 of MySQL (three
dotted names), 8 of PostgreSQL, 8 of Lua (a long bracket of level one that a bracket of
another level comes before). `MaxListed` (3) bounds an input that is listed and parsed: what a
reset forgets shows at the first token of the second pass. PHP is not in `Listed`: its flags
survive a reset (see 6). Two tags of PostgreSQL are enough to tell the right one from the
wrong one. The mutants of `PROJECT.json`, one per property, are all found within these
bounds. There is no symmetry: token types are not interchangeable.

### 3.3 Fairness and deadlock

`FairSpec` adds weak fairness of `NextToken`: a call of `nextToken()` is straight-line code
that runs to its end, and the caller (`CommonTokenStream.fill`, the `-tokens` loop of the
driver) calls again until it gets EOF. `Reset` is not fair, and `EofReached` excepts a caller
that resets for ever. The runs of the ring-buffer lexer turn deadlock checking off: it stops
after EOF, and after the exception of `HandleSpaces`. A call after EOF has been returned is
not modelled there and in `Python3Lexer`, since both callers stop at EOF (`Python3Lexer` may
be reset then). `Finished` in `TestDriver` is the end of the program.

## 4. Proofs

TLAPS proves, for every bound, every set of token types and whitespace texts, every choice of
f-string quotes and every size of the ring:

| Theorem | Property |
|---|---|
| `Python313LexerProofs!Typing`, `Python27LexerProofs!Typing`, `PythonRingLexerProofs!Typing` | `TypeOK` |
| `Python313LexerProofs!IndentStack`, `Python27LexerProofs!IndentStack` | `IndentStackOK` |
| `Python313LexerProofs!Order`, `Python27LexerProofs!Order`, `PythonRingLexerProofs!Order` | `RawTokensInOrder` |
| `Python313LexerProofs!ModeStack`, `!Lookahead`, `!KnownFaults` | `ModeStackOK`, `LookaheadInMode`, `OnlyKnownFaults` |
| `Python27LexerProofs!PopSafe` | `PopFindsToken` |
| `PyTokenQueueProofs!StackAfterSound` | the DEDENT loop keeps a sound stack, for any length |
| `PythonRingLexerProofs!Indents`, `!KnownFaults`, `!Heard` | `IndentsOK`, `OnlyKnownFaults`, `WholeInputHeard` |
| `PythonRingLexerProofs!Refinement` | `RingIsQueue`: the lexer's buffer implements `TokenFifo` |
| `Python3LexerProofs!Invariance` | its inductive invariant |
| `Python3LexerProofs!Blocks`, `!LastEof`, `!Order` | `BlocksOK`, `EofLast`, `TokensInOrder` |
| `Python3LexerProofs!Stream` | `StreamOK`: the `python/python3` lexer implements `PyLineStream` |
| `PythonRingLexerProofs!Stream` | `StreamOK`: so does the ring lexer, if no input ends with characters no rule matches |
| `Python27LexerProofs!Stream` | `StreamOK`: the 2.7 lexer implements `PyTokenStream` |
| `Python313LexerProofs!Stream` | `StreamOK`: so does the 3.13 lexer, with f-strings, exceptions and resets |
| `ModeLexerProofs!RuleTypeKept`, `!ArgumentsKept` | `RuleTypeOK`, `ArgumentsOK` |
| `ModeLexerProofs!PathKept`, `!FlagsKept` | `PhpPathOK`, `PhpFlagsOK` |
| `ModeLexerProofs!TemplatesTold`, `!ScopesKept`, `!LineEndsFound` | `TemplateBracesOK`, `ScopesOK`, `EndsOfLines` |
| `TestDriverProofs!DrivesAntlr`, `!DrivesPhp`, `!DrivesJs` | the driver implements the specification of each lexer alone, so that the seven properties above hold in it |
| `TestDriverProofs!Tags`, `!Tiling`, `!Comments` | `TagsOK`, `TokensTile`, `CommentEnds` |
| `TestDriverProofs!Repeats` | `SamePasses`, if the PHP lexer is not listed |

In each module most are consequences of one theorem, `Spec => []IInv`. The inductive
invariants are needed because none of the properties is inductive alone:

- 3.13: `ModeStackOK` needs to know *which* token may come next (a `}` in a specification
  pops two modes), hence `LookaheadOK`: the look-ahead fits the mode; that in turn needs the
  path of modes to be sound. `SoundState` therefore joins path and bracket counts, `QueueInv`
  says that `prev` is the type of the last queued token and that a call about to pop has
  queued one, `FaultOK` is `OnlyKnownFaults`, and `FreshOK` the mode of a new lexer.
- 2.7: `QueueInv` again, and `ReadOK` of the look-ahead (a WS token has a text the lexer can
  measure).
- Ring: `BacklogOK`. While a block is open there is a token more than the call takes, from
  the call that opened it; that is why the test before EOF finds a slot that is not empty.
  `Longer(r, s, k)` says that ring `s` has the contents of `r` and `k` tokens more; one lemma
  shows it of `emitToken` with each of its three branches (room behind, wrapping, doubling),
  and it adds up over the tokens of a callback. The same lemmas give the refinement: a step
  puts tokens, gets one, or leaves the contents alone. `OrderOK` adds for `Order` and `Heard`
  which raw token goes into the queue next (`NextPos`, which is not the one ahead while the
  DEDENTs of a line come before its whitespace), and that nothing but EOF is behind an EOF.
- Order (3.13, 2.7): `OrderOK` says up to which raw token `e` the caller and the queue have
  come, and that the current token and the look-ahead are the ones behind `e`; so no handler
  can drop or repeat one without breaking the chain. In 3.13 the brace that is cut off from an
  FSTRING_MIDDLE has the number of the token it was cut from (`Cut`).
- Python 3: `Excess` is the reason why EOF never overtakes a DEDENT: an open block leaves a
  token over. `EofsBehind` has where the EOF tokens are, `TextsInOrder` is `TokensInOrder` with
  the match ahead apart. `StreamFollows` is what the refinement needs and `StreamOK` does not
  say: the tokens still in the list lead a reader who has heard what the caller has to the
  levels, the brackets and the kind of line where the lexer is (`Leads`, a path of steps
  through the list). Taking a token is then a step of that path, and emitting one prolongs it.
- `StreamOK` of the ring lexer, of 2.7 and of 3.13: the same idea. The tokens that wait, read by one who
  has heard what the caller has, end in an `e` that the lexer is at: its levels, its brackets
  and the kind of line (`Reached`). For the ring this is `Leads` again. For 2.7 and 3.13,
  `PyTokenQueueProofs` has the shared part: `Tells(k, h, q, e)` says that `e` is where reading
  the queue `q` leads from `h`, `TellMore` adds a token, `TellHead` takes one away, and there is
  one lemma for each thing a handler queues (`TellHidden`, `TellNewline`, `TellTrailing`,
  `TellLevels` for the loop that closes blocks, `TellEof`, ...). `NumberConcat` counts brackets
  in what waits, which is how the mapping of the refinement takes off what the caller has not
  heard. For 3.13 the reader also counts the f-strings that are open. The lexer has no such
  count: it has a path of modes, in which each literal is one (`Literals`). It changes modes
  when a token becomes current, one step before that token is queued, so `Begun` corrects the
  path for an FSTRING_START or FSTRING_END that is current. `StreamInv` says that what waits
  leads to a reader at the levels of the lexer, its brackets, and `Begun` f-strings.
  `SkippedLast` has to be false for the ring lexer, because otherwise an EOF comes out
  ahead of the DEDENTs (`ring_skipped_end`).
- JavaScript: `JsNestOK` says the same of the nesting: the openings of the history lead an
  empty lexer to the depth, the template depths and the modes that the lexer has. Closing takes
  the last step back, whose shape (`JsAdds`) tells what closes it; no remembered depth is above
  the current one, so that a plain brace never looks like that of a template. `JsNesting`
  counts along the path. `JsScopesKept` adds to `ScopesOK` what a directive relies on: nothing
  is open before the first token, something is behind an opening brace.
- Hidden tokens: `JsRunOK` has what maximal munch says of neighbours, which is all that
  `lineTerminatorAhead` needs for looking at two tokens only.
- Lua: `LuaIInv` says at every turn of `skip_sep` what was read already: a prefix that may
  still become a long bracket, one that can never (`NeverOpens`), an opening bracket with no
  closing one of its level before the last bracket (`BegunAt`). `LuaComplete` shows that
  stopping where the code stops is stopping where the whole text is complete.
- ANTLR: `AdPlaceOK` has the rule type at *every* place of a grammar file, also where no
  bracket may come, and behind an option of a parser rule, where the type is lost but never
  becomes the one of options; so the semicolon that ends the rule finds the way back.
  `AdPathOK` is the path of modes element by element.
- PHP: `PhpPath` adds to what may be below each mode that nothing but PHP, strings, comments
  and heredocs is anywhere above PHP, which the neighbours alone do not show without an
  induction over the path, so it is carried along. `PhpFit` adds that at most one expression is
  open, which is what makes one flag enough.
- MySQL under the driver: the dot flag is always false between calls, the token that waits
  is an identifier, and none waits before the first match. PostgreSQL: `TagsOK` is inductive.
  `OneLexerMoves` projects a step of the driver to a step of one lexer.
- `SamePasses` compares two passes, of which the state has only the second. `View` is what the
  rest of a pass depends on: the fields of the lexer, of the tags of PostgreSQL only the one of
  the open string. `After` has the actions of the lexers as functions of it, and
  `LexDetermined` shows that every step goes where `After` says. `Passes` then has a witness:
  the states `h` of the first pass, from `Fresh` on, one for each item (`Listing`), of which
  the second pass has reached `h[n]`; `ResetRefreshes` says that it begins at `h[0]`. That PHP
  is not listed is needed: with it TLC finds the input `<`, `>`, `<script`, whose second pass
  is lexed as a script.

Sequences of any length need induction: `SeqInduction` says that a *set* of sequences with
the empty one in it, and with every sequence that has one element more, has them all; it
follows from the least element of a set of naturals (`SmallestOf`). With it `OnlyInDef` shows
that the recursive function of `OnlyIn` exists, and the other lemmas what it does with a token
appended, taken away or put in between.

`StepByStep` says that a function on `0..N` can be built from its first value and one step
for each place. So the recursive functions behind the widths exist, and have naturals as
values: every whitespace text has an indentation length (`WidthOfText`, 3.13 and 2.7) and
reaches a column behind the first (`Columns`, ring), which is what the indentation stacks
rest on.

The argument for modes (3.13): `PathPush` and `PathPop` say what pushing and popping do to a
sound path and to its number of expressions; `ModesAfterSound` goes through the cases of
`__check_cur_token`; `NoUnderflow` and `NoBraceOnlyAtEof` show which cases raise. Then, in
every module, there is one lemma per action, joined for `Next`.

Assumptions, all named in the modules and evaluated by TLC in every run: bounds are naturals,
and a buffer has a slot; `Quotes` are among the eight pairs of modes; the token types are
those the generated lexer makes; texts are sequences of known characters, not empty; `None`,
the empty slot, is no token.

Only model-checked:

- `EofReached`: liveness under fairness is beyond the prover;
- the ring lexer on inputs that end with characters no rule matches, where its `StreamOK` does
  not hold;
- what `IndentWidth` and `Column` compute (that it is a natural number is proved).

## 5. Plan for what is left

1. PHP under `-tokens`: a separate property for the flags that survive.
2. `determineNumericType` as a function on digit strings against the comparison it stands
   for, should a caller give it a text (see 6).

## 6. Not modelled

- **Files that only look like the program.** Most Python files of the repository, 46,000
  lines with `python/*/examples` and `python3/large`, are inputs of the grammars' tests
  (copies of the standard library). The hand-written code of the Python target is some 2,500
  lines; the modules cover the parts of it that keep state.
- Predicates without state: one or two comparisons of the next or the previous token or
  character (Rust, bison, bnf, C++, Dart, Fortran, gvpr, PL/SQL, REXX, Rust and Lua parsers,
  the server-version predicates of MySQL, the character tests of PostgreSQL, `IsLine1Col0`).
- The Go parser base: its predicates run during ANTLR's adaptive prediction, which is not in
  the repository.
- Ports to Java, C#, JavaScript, TypeScript, Go, C++ and PHP (the same algorithms); grammars
  (data for a tool); transformation, build and test scripts (file handling); options, files,
  timing and exit code of the driver.
- The part of MySQL's `determineNumericType` behind its test for None: its one caller passes
  `self._text`, which is None while a rule's action runs.

Disagreements met while modelling that have no run of their own:

- 3.13: EOF inside an f-string literal raises IndexError (`PythonLexerBase.py:298`,
  `OnlyKnownFaults` allows it); an empty FSTRING_MIDDLE is made "instead of the missing format
  specification" also after `f'{ {1}}'`, where there is no colon; a line with only a
  backslash gets a NEWLINE of its own (`StreamOK` allows it).
- `python/python`: whitespace at the end of the input raises ValueError
  (`PythonLexerBase.py:81`, `chr(-1)`); `src/python/python/README.md:9-10` gives 8 as the
  default tab size, the code has 4.
- `python/python3`: a blank line that begins with a form feed gets a NEWLINE, and may change
  the indentation.
- JavaScript: with the strict default the first brace ends strict mode, because line 65 wants a
  scope on the stack, and `setUseStrictDefault` puts none there; `reset()` sets
  `useStrictDefault` to false (line 125), so that a second pass is not strict by default;
  `lineTerminatorAhead` does not see a line end that a comment of one line follows.
- PHP: the class has no `reset()`, and flags of the first pass survive; an expression in an
  expression of a string, `?>` inside an expression, a script element without content and a
  heredoc right behind a heredoc leave a flag and the modes apart (`ComesApart`); the branch
  of lines 57-61 that skips a token is never taken.
- MySQL: `chr(-1)` raises ValueError where a function name ends the input; with IgnoreSpace
  the blanks hide the function's own token.
- ANTLR: an option in a parser rule ends the rule for `emit`, because only options of lexer
  rules are known.
- PostgreSQL: `HandleNumericFail` names a class that the module does not import (NameError);
  the class is defined twice, the first definition is lost.
- Rust: `FloatDotPossible` takes `chr(-1)` at the end of the input and compares the number
  `LA(3)` with a string.
