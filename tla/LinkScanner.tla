----------------------------- MODULE LinkScanner -----------------------------
(***************************************************************************)
(* findPrivateScratchLinks (tools/markdownlint/no-private-scratch-links    *)
(* .mjs): which destinations of one Markdown or MDX document lead into     *)
(* private scratch.  Markdown tokens are read in order; an HTML fragment   *)
(* is a tree, whose srcdoc attributes hold further documents, read from a  *)
(* stack of frames; style sheets and JavaScript syntax trees are walked    *)
(* too; and every walk has a bound that refuses the document.              *)
(*                                                                         *)
(* Text is what its parser makes of it.  A destination is a base and a     *)
(* path of the segments "up", "scratch" and "dir".                         *)
(***************************************************************************)
EXTENDS Naturals, SequencesExt

CONSTANTS
    Documents,    \* [dirs |-> Nat, snippets |-> destinations, tokens |-> tokens]
    MaxEvents,    \* MAX_EVENTS: destinations of one document
    MaxNodes,     \* MAX_HTML_NODES
    MaxDepth,     \* MAX_HTML_DEPTH
    MaxCss,       \* MAX_CSS_TOKENS
    MaxCssDepth,  \* MAX_CSS_DEPTH
    MaxTree,      \* MAX_ESTREE_NODES
    MaxTreeDepth, \* MAX_ESTREE_DEPTH
    Limit         \* the caller's limit on findings

VARIABLES
    document,     \* what is scanned, fixed
    next,         \* index of the next token
    frames,       \* collectHTML's stack of [pending, depth, jsx], innermost first
    pending,      \* collectMDXESTree's stack of [node, depth]
    visited,      \* and the nodes it has taken off
    nodes,        \* htmlState.nodes
    css,          \* htmlState.cssTokens
    found,        \* the destinations
    expressions,  \* mdxPropertyExpressions: [at |-> offset, url |-> a URL property?]
    result,       \* "none", "refused" or "done"
    findings      \* what is returned then

vars == <<document, next, frames, pending, visited, nodes, css, found, expressions, result, findings>>

------------------------------------------------------------------------------
(* Where a destination leads.                                              *)

\* The URL parser's path: .. takes the last segment away, if there is one.
Normal(path) ==
    FoldLeft(LAMBDA done, s : IF s # "up" THEN Append(done, s)
                              ELSE IF done = <<>> THEN done ELSE Front(done), <<>>, path)

Repository == "repository"     \* SYNTHETIC_REPOSITORY_PATH

\* resolveURLDestination and scratchResolution, from a source so many directories deep.
Leads(dirs, to) ==
    CASE to.base = "file" -> Contains(Normal(to.path), "scratch")
      [] to.base = "elsewhere" \/ to.path = <<>> -> FALSE
      [] to.base = "root" -> Contains(Normal(to.path), "scratch")
      [] OTHER -> LET path == Normal(<<Repository>> \o [i \in 1..dirs |-> "dir"] \o to.path)
                  IN  Len(path) > 1 /\ path[1] = Repository /\ path[2] = "scratch"

\* forbiddenResolution: a snippet or a property may also be meant from the root.
Forbidden(d) ==
    Leads(document.dirs, d) \/ (d.context \in {"snippet", "property"} /\ Leads(0, d))

------------------------------------------------------------------------------
(* Style sheets: tokens [t, to], of which the opening ones nest.           *)

Opening == {"image-set", "function", "bracket"}
Closing == {"closing parenthesis", "closing bracket"}

\* cssStep and what it calls; sets holds the depths that are an image-set().
InImageSet(scan) == scan.depth \in scan.sets

\* A name, comment, string or url() counts when it is read; an @import's
\* string beside its name.
Spend(scan, token) == [scan EXCEPT !.spent = @ + IF token.t = "import" THEN 2 ELSE 1]

CssStep(scan, token, allowImport) ==
    LET spent == Spend(scan, token)
        Take == [spent EXCEPT !.found = Append(@, token.to)]
    IN  CASE token.t = "url" ->
               IF scan.depth + 1 > MaxCssDepth THEN [spent EXCEPT !.deep = TRUE] ELSE Take
          [] token.t = "import" /\ allowImport /\ scan.depth = 0 -> Take
          [] token.t \in {"string", "import"} ->
               IF InImageSet(scan) THEN Take ELSE spent
          [] token.t \in Opening ->
               [spent EXCEPT !.depth = @ + 1,
                             !.deep = @ \/ scan.depth + 1 > MaxCssDepth,
                             !.sets = IF token.t = "image-set" THEN @ \cup {scan.depth + 1} ELSE @]
          [] token.t \in Closing /\ scan.depth > 0 ->
               [spent EXCEPT !.depth = @ - 1,
                             !.sets = IF token.t = "closing parenthesis"
                                      THEN @ \ {scan.depth} ELSE @]
          [] OTHER -> spent

CssDestinations(sheet, allowImport) ==
    FoldLeft(LAMBDA scan, token : CssStep(scan, token, allowImport),
             [depth |-> 0, sets |-> {}, found |-> <<>>, spent |-> 0, deep |-> FALSE], sheet)

------------------------------------------------------------------------------
(* What one token or node adds, and whether that refuses the document.     *)

Refuse == result' = "refused" /\ UNCHANGED <<found, nodes, css, expressions>>

\* appendHTMLDestination for each of a sequence.
Fits(more) == Len(found) + Len(more) <= MaxEvents

Add(more) == IF Fits(more) THEN found' = found \o more /\ UNCHANGED <<result, nodes, css, expressions>>
             ELSE Refuse

\* collectHTMLAttributes, collectMetaRefresh and collectStyleElement.  A node
\* has URL attributes, one of which may be a { } expression, a style attribute
\* and, if it is a style element, a sheet.
NodeCss(node) == <<CssDestinations(node.style, FALSE), CssDestinations(node.sheet, TRUE)>>
NodeFound(node) ==
    node.urls \o NodeCss(node)[1].found \o node.refresh \o NodeCss(node)[2].found
NodeSpent(node) == NodeCss(node)[1].spent + NodeCss(node)[2].spent
NodeRefused(node, jsx) ==
    \/ node.braced /\ ~ jsx                   \* rejectJSXURLExpression
    \/ NodeCss(node)[1].deep \/ NodeCss(node)[2].deep
    \/ css + NodeSpent(node) > MaxCss
    \/ ~ Fits(NodeFound(node))

------------------------------------------------------------------------------
Init ==
    /\ document \in Documents
    /\ next = 1 /\ frames = <<>> /\ pending = <<>> /\ visited = 0 /\ nodes = 0 /\ css = 0
    /\ expressions = {} /\ findings = <<>>
    /\ IF Len(document.snippets) > MaxEvents            \* snippetDestinations
       THEN found = <<>> /\ result = "refused"
       ELSE found = document.snippets /\ result = "none"

\* The walk of a fragment or of a syntax tree is over before the next token.
NextToken(kind) ==
    /\ result = "none" /\ frames = <<>> /\ pending = <<>>
    /\ next <= Len(document.tokens)
    /\ document.tokens[next].kind = kind
    /\ next' = next + 1
    /\ UNCHANGED <<document, findings>>

Token == document.tokens[next]

\* A link, or an attribute list of a paragraph.
Link ==
    /\ NextToken("link")
    /\ Add(Token.to)
    /\ UNCHANGED <<frames, pending, visited>>

Html ==
    /\ NextToken("html")
    /\ frames' = <<[pending |-> Token.nodes, depth |-> 0, jsx |-> Token.jsx]>>
    /\ UNCHANGED <<pending, visited, nodes, css, found, expressions, result>>

\* collectMDXJSXAttribute: { } is looked up when its expression comes, a URL
\* attribute's literal was read with the tag.
Remember(attribute) == expressions \cup {[at |-> attribute.at, url |-> attribute.url]}

JsxAttribute ==
    /\ NextToken("attribute")
    /\ CASE Token.form = "expression" ->
              expressions' = Remember(Token) /\ UNCHANGED <<found, result, nodes, css>>
         [] Token.form = "unquoted" /\ ~ Token.url -> Refuse
         [] Token.form = "quoted" /\ ~ Token.url -> Add(Token.to)
         [] OTHER -> Add(<<>>)
    /\ UNCHANGED <<frames, pending, visited>>

JsxSpread ==
    /\ NextToken("spread")
    /\ Refuse
    /\ UNCHANGED <<frames, pending, visited>>

\* A { } expression: the value of a property, if it is one, and its syntax tree.
Expression ==
    /\ NextToken("expression")
    /\ LET property == {e \in expressions : e.at = Token.at} IN
       IF property = {} THEN UNCHANGED <<found, result, expressions>>
       ELSE \/ /\ ~ Token.static
               /\ expressions' = expressions \ property
               /\ UNCHANGED found
               /\ result' = IF \E e \in property : e.url THEN "refused" ELSE result
            \/ /\ Token.static
               /\ expressions' = expressions \ property
               /\ IF Fits(Token.to)
                  THEN found' = found \o Token.to /\ UNCHANGED result
                  ELSE result' = "refused" /\ UNCHANGED found
    /\ pending' = <<[node |-> Token.tree, depth |-> 0]>>
    /\ visited' = 0
    /\ UNCHANGED <<frames, nodes, css>>

\* One node of an HTML fragment: its own destinations, then the document in its
\* srcdoc, whose frame goes on top, its children last in first out.
Replace(frame, rest) == <<frame>>              \* mistake: the holder is not gone on with
Nest(frame, rest) == <<frame>> \o rest

HtmlNode ==
    /\ result = "none" /\ frames # <<>> /\ Head(frames).pending # <<>>
    /\ LET frame == Head(frames)
           node == Last(frame.pending)
           holder == [frame EXCEPT !.pending = Front(@) \o node.children]
           inner == [pending |-> node.srcdoc, depth |-> frame.depth + 1, jsx |-> frame.jsx]
       IN  IF \/ nodes >= MaxNodes
              \/ NodeRefused(node, frame.jsx)
              \/ node.srcdoc # <<>> /\ inner.depth > MaxDepth
           THEN Refuse /\ UNCHANGED frames
           ELSE /\ nodes' = nodes + 1
                /\ css' = css + NodeSpent(node)
                /\ found' = found \o NodeFound(node)
                /\ frames' = IF node.srcdoc = <<>> THEN <<holder>> \o Tail(frames)
                             ELSE Nest(inner, <<holder>> \o Tail(frames))
                /\ UNCHANGED <<result, expressions>>
    /\ UNCHANGED <<document, next, pending, visited, findings>>

PopFrame ==
    /\ result = "none" /\ frames # <<>> /\ Head(frames).pending = <<>>
    /\ frames' = Tail(frames)
    /\ UNCHANGED <<document, next, pending, visited, nodes, css, found, expressions, result, findings>>

\* One node of a syntax tree: an import or export of a text is a destination,
\* an import of anything else refuses the document.
TreeNode ==
    /\ result = "none" /\ pending # <<>>
    /\ LET top == Last(pending)
           rest == Front(pending) \o [i \in DOMAIN top.node.children |->
                                        [node |-> top.node.children[i], depth |-> top.depth + 1]]
       IN  IF \/ visited >= MaxTree \/ Len(rest) > MaxTree
              \/ top.depth > MaxTreeDepth
              \/ top.node.dynamic
              \/ ~ Fits(top.node.imports)
           THEN Refuse /\ UNCHANGED <<pending, visited>>
           ELSE /\ found' = found \o top.node.imports
                /\ pending' = rest
                /\ visited' = visited + 1
                /\ UNCHANGED <<result, nodes, css, expressions>>
    /\ UNCHANGED <<document, next, frames, findings>>

\* forbiddenFindings, unless an attribute's expression never came.
Finish ==
    /\ result = "none" /\ frames = <<>> /\ pending = <<>> /\ next > Len(document.tokens)
    /\ IF expressions # {}
       THEN result' = "refused" /\ UNCHANGED findings
       ELSE LET all == SelectSeq(found, Forbidden)
            IN  /\ result' = "done"
                /\ findings' = SubSeq(all, 1, IF Len(all) < Limit THEN Len(all) ELSE Limit)
    /\ UNCHANGED <<document, next, frames, pending, visited, nodes, css, found, expressions>>

Next ==
    \/ Link \/ Html \/ JsxAttribute \/ JsxSpread \/ Expression
    \/ HtmlNode \/ PopFrame \/ TreeNode \/ Finish

Spec == Init /\ [][Next]_vars

------------------------------------------------------------------------------
(* What a document holds, without stack, order or bound.                   *)

RECURSIVE Inside(_), Imported(_)
All(Holds(_), items) == FlattenSeq([i \in DOMAIN items |-> Holds(items[i])])

\* A style sheet's destinations: each url(), each top-level @import, and each
\* string whose innermost open bracket is an image-set.
Depth(sheet, i) == Len(SelectSeq(SubSeq(sheet, 1, i), LAMBDA t : t.t \in Opening))
                     - Len(SelectSeq(SubSeq(sheet, 1, i), LAMBDA t : t.t \in Closing))
Innermost(sheet, i) ==
    {j \in 1..(i - 1) : sheet[j].t \in Opening
       /\ \A k \in (j + 1)..(i - 1) : Depth(sheet, k) >= Depth(sheet, j)}
InSet(sheet, i) ==
    \E j \in Innermost(sheet, i) :
        sheet[j].t = "image-set" /\ \A k \in Innermost(sheet, i) : k <= j
Styled(sheet, allowImport) ==
    FlattenSeq([i \in DOMAIN sheet |->
        IF \/ sheet[i].t = "url"
           \/ sheet[i].t = "import" /\ allowImport /\ Depth(sheet, i) = 0
           \/ sheet[i].t \in {"string", "import"} /\ InSet(sheet, i)
        THEN <<sheet[i].to>> ELSE <<>>])

Inside(node) ==
    node.urls \o node.refresh \o Styled(node.style, FALSE) \o Styled(node.sheet, TRUE)
      \o All(Inside, node.srcdoc) \o All(Inside, node.children)
Imported(node) == node.imports \o All(Imported, node.children)
\* The attribute whose value the expression token j is.
Valued(i, j) ==
    LET attribute == document.tokens[i]
        value == document.tokens[j]
    IN  /\ i < j /\ attribute.kind = "attribute" /\ attribute.form = "expression"
        /\ value.kind = "expression" /\ value.at = attribute.at
Held(i) ==
    LET token == document.tokens[i] IN
    CASE token.kind = "link" -> token.to
      [] token.kind = "html" -> All(Inside, token.nodes)
      [] token.kind = "attribute" -> IF token.form = "quoted" /\ ~ token.url THEN token.to ELSE <<>>
      [] token.kind = "expression" ->
           (IF token.static /\ \E h \in 1..i : Valued(h, i) THEN token.to ELSE <<>>)
             \o Imported(token.tree)
      [] OTHER -> <<>>

\* A document that is not refused hides nothing: as many private destinations
\* are reported as it holds at any depth of nesting, up to the limit, none that
\* leads elsewhere, and no JSX attribute was left unread
\* (no-private-scratch-links.mjs:1088).
NothingHidden ==
    result = "done" =>
      LET held == SelectSeq(document.snippets \o FlattenSeq([i \in DOMAIN document.tokens |-> Held(i)]),
                              Forbidden)
      IN  /\ Len(findings) = IF Len(held) < Limit THEN Len(held) ELSE Limit
          /\ \A i \in DOMAIN findings : Contains(held, findings[i])
          /\ \A i \in DOMAIN document.tokens :
               LET token == document.tokens[i] IN
               /\ token.kind # "spread"
               /\ token.kind = "attribute" /\ token.form = "expression" =>
                    \E j \in DOMAIN document.tokens :
                        Valued(i, j) /\ (token.url => document.tokens[j].static)
==============================================================================
