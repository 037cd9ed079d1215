----------------------------- MODULE StyleGlobs -----------------------------
(***************************************************************************)
(* The globs of documentation.style_exclude (tools/markdownlint/           *)
(* verify.mjs): what is refused when the settings are read, how a glob is  *)
(* compiled, and how it is matched against a path, segment by segment with *)
(* one row of a table and character by character with one point to go back *)
(* to, in a loop with a bound.                                             *)
(*                                                                         *)
(* A character is a number.  A token matches a set of characters, or is a  *)
(* `*'; text says whether its spelling holds a letter or a digit.  What a  *)
(* segment spells between two brace lists, each list, and each [ ] class   *)
(* that may also stand for its own bracketed text, is a part: a sequence   *)
(* of alternatives, each a sequence of tokens.                             *)
(***************************************************************************)
EXTENDS Naturals, SequencesExt

CONSTANTS
    Globs,            \* sequences of segments: Globstar or a sequence of parts
    Paths,            \* sequences of segments, each a sequence of characters
    Spelling(_),      \* the text of a glob as such a sequence of segments
    Codes,            \* all the characters
    MaxAlternatives   \* MAX_BRACE_ALTERNATIVES

VARIABLES glob, path, compiled, verdict

vars == <<glob, path, compiled, verdict>>

Star == [star |-> TRUE, codes |-> {}, text |-> FALSE]
Anything == [star |-> FALSE, codes |-> Codes, text |-> FALSE]       \* ?
Literal(c) == [star |-> FALSE, codes |-> {c}, text |-> TRUE]
Class(codes) == [star |-> FALSE, codes |-> codes, text |-> TRUE]

\* A segment is never without a part, so that stands for **.
Globstar == <<>>
AnySegment == [globstar |-> FALSE, wildcard |-> TRUE, alternatives |-> {<<Star>>}]
Refused == [problem |-> TRUE, segments |-> <<>>]

------------------------------------------------------------------------------
(* Compiling.                                                              *)

\* expandBraces and bracketVariants: every choice of one alternative per part,
\* each once, and how many choices there are.
Continue(prefixes, choices) == {prefix \o choice : prefix \in prefixes, choice \in choices}
ExpandBraces(parts) ==
    LET expanded[p \in 0..Len(parts)] ==
            IF p = 0 THEN {<<>>} ELSE Continue(expanded[p - 1], ToSet(parts[p]))
    IN  expanded[Len(parts)]
Expansions(parts) ==
    LET counted[p \in 0..Len(parts)] == IF p = 0 THEN 1 ELSE counted[p - 1] * Len(parts[p])
    IN  counted[Len(parts)]

\* alternativeProblem: an empty alternative, or `*' alone out of a brace list.
AlternativeProblem(tokens, parts) ==
    tokens = <<>> \/ (tokens = <<Star>> /\ \E p \in DOMAIN parts : Len(parts[p]) > 1)

Wildcard(tokens) == \A i \in DOMAIN tokens : ~ tokens[i].text

\* compileSegment, of what braceParts could read.
CompileSegment(parts) ==
    IF parts = Globstar THEN [globstar |-> TRUE, wildcard |-> TRUE, alternatives |-> {}]
    ELSE [globstar |-> FALSE,
          wildcard |-> \E tokens \in ExpandBraces(parts) : Wildcard(tokens),
          alternatives |-> ExpandBraces(parts)]

SegmentProblem(parts) ==
    /\ parts # Globstar
    /\ \/ Expansions(parts) > MaxAlternatives
       \/ \E tokens \in ExpandBraces(parts) : AlternativeProblem(tokens, parts)

\* Consecutive ** count as one.
Collapse(segments) ==
    LET collapsed[i \in 0..Len(segments)] ==
            IF i = 0 THEN <<>>
            ELSE IF i > 1 /\ segments[i] = Globstar /\ segments[i - 1] = Globstar THEN collapsed[i - 1]
            ELSE Append(collapsed[i - 1], segments[i])
    IN  collapsed[Len(segments)]

EndsInStar(segment) ==
    \/ segment = Globstar
    \/ /\ Len(Last(segment)) = 1 /\ Last(segment)[1] # <<>>
       /\ Last(Last(segment)[1]) = Star

\* parseStyleExclusion: a trailing ** after a segment that ends in * takes at
\* least one more segment, so one that takes any is put before it.
Compiled(raw) == [i \in DOMAIN raw |-> CompileSegment(raw[i])]
TakesOneMore(raw) == Len(raw) > 1 /\ Last(raw) = Globstar /\ EndsInStar(raw[Len(raw) - 1])
ParseStyleExclusion(pattern) ==
    LET raw == Collapse(pattern)
        segments == Compiled(raw)
    IN  IF \/ \E i \in DOMAIN raw : SegmentProblem(raw[i])
           \/ \A i \in DOMAIN segments : segments[i].wildcard
        THEN Refused
        ELSE [problem |-> FALSE,
              segments |-> IF TakesOneMore(raw) THEN Front(segments) \o <<AnySegment, Last(segments)>>
                           ELSE segments]

------------------------------------------------------------------------------
(* Matching.                                                               *)

\* tokensMatch: a `*' takes nothing at first; where what follows does not match,
\* the last one takes one character more, and its followers are tried again.
\* star is the last `*' that was read, 0 if none, and from where it takes up to.
GoesBackOnce(at) == at.star > 0 /\ at.from = 0     \* mistake: a * grows by one character only
GoesBack(at) == at.star > 0

StartMatch == [token |-> 0, position |-> 0, star |-> 0, from |-> 0, failed |-> FALSE]
Advance(at, tokens, text) ==
    LET more == at.token < Len(tokens)
        token == tokens[at.token + 1]
    IN  IF at.failed \/ at.position = Len(text) THEN at
        ELSE IF more /\ token.star
        THEN [at EXCEPT !.token = @ + 1, !.star = at.token + 1, !.from = at.position]
        ELSE IF more /\ text[at.position + 1] \in token.codes
        THEN [at EXCEPT !.token = @ + 1, !.position = @ + 1]
        ELSE IF GoesBack(at)
        THEN [at EXCEPT !.token = at.star, !.position = at.from + 1, !.from = @ + 1]
        ELSE [at EXCEPT !.failed = TRUE]

\* The loop has a bound, past which nothing matches.
Attempt(tokens, text) ==
    LET bound == (Len(tokens) + 1) * (Len(text) + 1)
        tried[k \in 0..bound] == IF k = 0 THEN StartMatch ELSE Advance(tried[k - 1], tokens, text)
    IN  tried[bound]
TokensMatch(tokens, text) ==
    LET at == Attempt(tokens, text)
    IN  /\ ~ at.failed /\ at.position = Len(text)
        /\ \A i \in (at.token + 1)..Len(tokens) : tokens[i].star

SegmentMatches(segment, text) == \E tokens \in segment.alternatives : TokensMatch(tokens, text)

\* segmentsMatch: reached[i] says that the first i segments match the parts so
\* far; a ** carries over from its left neighbour or from the row before.
Row(segments, reached, part) ==
    LET next[i \in 0..Len(segments)] ==
            i > 0 /\ IF segments[i].globstar
                     THEN next[i - 1] \/ reached[i]
                     ELSE reached[i - 1] /\ SegmentMatches(segments[i], part)
    IN  next

FirstRow(segments) ==
    [i \in 0..Len(segments) |-> \A j \in 1..i : segments[j].globstar]

SegmentsMatch(segments, parts) ==
    LET rows[p \in 0..Len(parts)] ==
            IF p = 0 THEN FirstRow(segments) ELSE Row(segments, rows[p - 1], parts[p])
    IN  rows[Len(parts)][Len(segments)]

------------------------------------------------------------------------------
(* One glob and one path.                                                  *)

Init == glob \in Globs /\ path \in Paths /\ compiled = <<>> /\ verdict = "none"

Compile ==
    /\ compiled = <<>>
    /\ compiled' = <<ParseStyleExclusion(glob)>>
    /\ UNCHANGED <<glob, path, verdict>>

\* styleExclusionMatcher: a path that is spelled as the glob is not looked at.
OnlyItsMeaning == FALSE                      \* mistake: matched as any other path
SpelledAsGlob == path = Spelling(glob)

Match ==
    /\ compiled # <<>> /\ verdict = "none"
    /\ verdict' = IF compiled[1].problem THEN "refused"
                  ELSE IF SpelledAsGlob \/ SegmentsMatch(compiled[1].segments, path)
                  THEN "match" ELSE "mismatch"
    /\ UNCHANGED <<glob, path, compiled>>

Next == Compile \/ Match

Spec == Init /\ [][Next]_vars

------------------------------------------------------------------------------
(* What the comment above the grammar promises, without an algorithm.      *)

\* Cut points that give each of m items of a pattern its piece of n things.
Cuts(m, n) == {c \in [0..m -> 0..n] : c[0] = 0 /\ c[m] = n /\ \A i \in 1..m : c[i - 1] <= c[i]}

Spells(tokens, text) ==
    \E c \in Cuts(Len(tokens), Len(text)) :
        \A i \in DOMAIN tokens :
            tokens[i].star \/ (c[i] = c[i - 1] + 1 /\ text[c[i]] \in tokens[i].codes)

SegmentSpells(parts, text) ==
    \E choice \in [DOMAIN parts -> UNION {ToSet(parts[p]) : p \in DOMAIN parts}] :
        /\ \A p \in DOMAIN parts : choice[p] \in ToSet(parts[p])
        /\ Spells(FlattenSeq(choice), text)

Names(pattern, parts) ==
    \E c \in Cuts(Len(pattern), Len(parts)) :
        \A i \in DOMAIN pattern :
            IF pattern[i] = Globstar
            THEN \* a trailing ** after a segment ending in * takes at least one part
                 ~ (i = Len(pattern) /\ i > 1 /\ pattern[i - 1] # Globstar
                      /\ EndsInStar(pattern[i - 1]) /\ c[i] = c[i - 1])
            ELSE c[i] = c[i - 1] + 1 /\ SegmentSpells(pattern[i], parts[c[i]])

(* A glob the settings accept matches exactly the path that is spelled as it *)
(* and those the grammar says it does: `*' and `?' stay inside one segment,  *)
(* a list offers its alternatives, a ** spans any number of segments, a      *)
(* trailing one after `*' at least one (verify.mjs:382, :402), although the  *)
(* matcher goes back to the last `*' only.                                   *)
MatchesAsWritten ==
    verdict \in {"match", "mismatch"} =>
        (verdict = "match" <=> (path = Spelling(glob) \/ Names(Collapse(glob), path)))
==============================================================================
