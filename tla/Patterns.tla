------------------------------ MODULE Patterns ------------------------------
(***************************************************************************)
(* Entries of permissions.allow and .deny (permission/pattern.rs), what    *)
(* they decide about a tool call (permission/mod.rs, allowlist.rs), and    *)
(* the entry an Always adds (additions/derive.rs).                         *)
(*                                                                         *)
(* A text is a sequence of tokens: a tool name or a part of one, or one    *)
(* character of an argument.  A call has a tool, a permission mode and at  *)
(* most one input field that the matcher knows.                            *)
(***************************************************************************)
EXTENDS Integers, FiniteSets, SequencesExt

Solid(s)    == {i \in DOMAIN s : s[i] # " "}
trim(s)     == IF Solid(s) = {} THEN <<>> ELSE SubSeq(s, Min(Solid(s)), Max(Solid(s)))
trim_end(s) == IF Solid(s) = {} THEN <<>> ELSE SubSeq(s, 1, Max(Solid(s)))
At(s, c)    == {i \in DOMAIN s : s[i] = c}

FILE_PATH_TOOLS == {<<t>> : t \in {"Read", "Edit", "Write", "MultiEdit", "Glob", "Grep"}}
PermissiveMode  == {"acceptEdits", "auto", "dontAsk", "bypassPermissions"}
PermissionMode  == PermissiveMode \cup {"default", "plan", "unknown"}

\* tool_input: the field that is given as a string, and its value.
Input(call, fields) == call.field \in fields

-----------------------------------------------------------------------------
(* Globs, as the crate globset reads them.  Tokens have no order: a class    *)
(* has no ranges.                                                          *)

GlobSign == {"*", "?", "[", "{", "}", "\\"}

\* How the next character is read after i of them: as text, as what it is, or
\* in a class, where only a "]" that is not its first member is a sign.
Reading(glob) ==
    LET after[i \in 0..Len(glob)] ==
          IF i = 0 THEN "text"
          ELSE LET before == after[i - 1]  c == glob[i] IN
               CASE before = "text" /\ c = "\\" -> "escaped"
                 [] before = "text" /\ c = "["  -> "class"
                 [] before = "class" /\ c \in {"!", "^"} -> "negated"
                 [] \/ before = "escaped" \/ (before = "member" /\ c = "]")
                    \/ (before = "text" /\ c \notin {"\\", "["}) -> "text"
                 [] OTHER -> "member"
    IN after

Glob(args) == [text |-> args, reading |-> Reading(args)]

Sign(glob, i, c) == glob.text[i] = c /\ glob.reading[i - 1] = "text"
depth(glob, i) ==
    LET Signs(c) == {k \in 1..i : Sign(glob, k, c)} IN
    Cardinality(Signs("{")) - Cardinality(Signs("}"))
Comma(glob, i)  == Sign(glob, i, ",") /\ depth(glob, i) > 0
Branch(glob, i) == Sign(glob, i, "{") \/ Sign(glob, i, "}") \/ Comma(glob, i)

\* Refused are a class or a group that is not closed, a "}" without its "{",
\* and a backslash at the end.
Closed(glob, n) ==
    /\ glob.reading[n] = "text"
    /\ depth(glob, n) = 0 /\ \A i \in 1..n : depth(glob, i) >= 0
ValidGlob(args) == Closed(Glob(args), Len(args))

\* After the group in which i is its "{" or one of its commas.
AfterGroup(glob, i) ==
    1 + Min({k \in i + 1..Len(glob.text) : depth(glob, k) < depth(glob, i)})

\* Where the glob may go on in the group whose "{" is at i: where one of its
\* alternatives begins that is not empty, or after it if all of them are.
Alternatives(glob, i) ==
    LET last == AfterGroup(glob, i) - 1
        cuts == {i} \cup {k \in i + 1..last : Comma(glob, k) /\ depth(glob, k) = depth(glob, i)}
        IsEmpty(from, to) == \A l \in from + 1..to - 1 : Branch(glob, l) IN
    {b + 1 : b \in {k \in cuts : ~IsEmpty(k, Min({e \in cuts \cup {last} : e > k}))}}
      \cup {k \in {last + 1} : IsEmpty(i, last)}

\* Signs that take no character, and where the glob goes on after them.
Moves(glob, i) ==
    CASE Sign(glob, i, "{") -> Alternatives(glob, i)
      [] Comma(glob, i)     -> {AfterGroup(glob, i)}
      [] OTHER              -> {i + 1}

\* "**/" where a directory can begin is any number of whole directories.
Directories(glob, i) ==
    /\ IsPrefix(<<"*", "*", "/">>, SubSeq(glob.text, i, Len(glob.text)))
    /\ i = 1 \/ glob.text[i - 1] = "/" \/ Sign(glob, i - 1, "{") \/ Comma(glob, i - 1)

\* The class whose "[" is at i: its "]", and whether it takes c.
ClassEnd(glob, i) == Min({k \in i + 1..Len(glob.text) : glob.reading[k] = "text"})
InClass(glob, i, c) ==
    LET negated == glob.reading[i + 1] = "negated"
        members == (IF negated THEN i + 2 ELSE i + 1)..ClassEnd(glob, i) - 1 IN
    (\E k \in members : glob.text[k] = c) # negated

\* A star and a question mark stand for separators too.
Match(glob, path) ==
    LET g == Len(glob.text)  n == Len(path)
        m[at \in (1..g + 1) \X (1..n + 1)] ==
          LET i == at[1]  j == at[2] IN
          IF i > g THEN j > n
          ELSE CASE Sign(glob, i, "*") /\ Directories(glob, i) ->
                      m[<<i + 3, j>>] \/ \E k \in j..n : path[k] = "/" /\ m[<<i + 3, k + 1>>]
                 [] Sign(glob, i, "*") /\ ~Directories(glob, i) ->
                      m[<<i + 1, j>>] \/ (j <= n /\ m[<<i, j + 1>>])
                 [] Sign(glob, i, "?") -> j <= n /\ m[<<i + 1, j + 1>>]
                 [] Sign(glob, i, "[") -> j <= n /\ InClass(glob, i, path[j])
                                          /\ m[<<ClassEnd(glob, i) + 1, j + 1>>]
                 [] Branch(glob, i) \/ Sign(glob, i, "\\") ->
                      \E k \in Moves(glob, i) : m[<<k, j>>]
                 [] OTHER -> j <= n /\ path[j] = glob.text[i] /\ m[<<i + 1, j + 1>>]
    IN m[<<1, 1>>]

is_match(args, path) == Match(Glob(args), path)

-----------------------------------------------------------------------------
(* Pattern::parse: an entry becomes a kind of pattern, the name or argument *)
(* it compares, and the tool it is for.                                    *)

Pat(kind, tool, text, raw) == [kind |-> kind, tool |-> tool, text |-> text, raw |-> raw]

parse_args(tool, args, raw) ==
    LET n == Len(args) IN
    CASE tool = <<"Agent">> -> Pat("Exact", tool, args, raw)
      [] tool \in FILE_PATH_TOOLS /\ ValidGlob(args)  -> Pat("PathGlob", tool, args, raw)
      [] tool = <<"Bash">> /\ IsSuffix(<<":", "*">>, args) ->
           Pat("BashPrefix", tool, trim_end(SubSeq(args, 1, n - 2)), raw)
      [] tool = <<"Bash">> /\ ~IsSuffix(<<":", "*">>, args) -> Pat("BashExact", tool, args, raw)
      [] OTHER -> Pat("Ambiguous", tool, <<>>, raw)

\* The argument is what the first opening and the last closing bracket enclose.
parse_tool_with_args(t, raw) ==
    LET open  == Min(At(t, "("))
        close == Max(At(t, ")") \cup {0}) IN
    IF close <= open THEN Pat("Unparseable", <<>>, <<>>, raw)
    ELSE parse_args(trim(SubSeq(t, 1, open - 1)), trim(SubSeq(t, open + 1, close - 1)), raw)

parse_mcp(t, raw) ==
    IF Last(t) = "*" THEN Pat("McpPrefix", <<>>, Front(t), raw)
    ELSE Pat("McpExact", t, <<>>, raw)

parse(raw) ==
    LET t == trim(raw) IN
    IF t = <<>> THEN Pat("Unparseable", <<>>, <<>>, raw)
    ELSE IF At(t, "(") # {} THEN parse_tool_with_args(t, raw)
    ELSE IF Head(t) = "mcp__" THEN parse_mcp(t, raw)
    ELSE Pat("BareTool", t, <<>>, raw)

-----------------------------------------------------------------------------
(* Pattern::matches.                                                       *)

Mentions(s, part) ==
    \E i \in 0..Len(s) - Len(part) : SubSeq(s, i + 1, i + Len(part)) = part

\* match_tool_args: a missing field is ambiguous, except that of Agent.
confident(holds) == IF holds THEN "Confident" ELSE "NoMatch"
match_tool_args(p, call) ==
    CASE p.kind = "Exact" ->
           confident(Input(call, {"subagent_type"}) /\ call.value = p.text)
      [] p.kind = "PathGlob" /\ Input(call, {"file_path", "path"}) ->
           confident(is_match(p.text, call.value))
      [] p.kind = "BashPrefix" /\ Input(call, {"command"}) ->
           confident(IsPrefix(p.text, call.value))
      [] p.kind = "BashExact" /\ Input(call, {"command"}) ->
           confident(call.value = p.text)
      [] OTHER -> "Ambiguous"

matches(p, call) ==
    CASE p.kind = "Unparseable" ->
           IF Mentions(p.raw, call.tool) THEN "Ambiguous" ELSE "NoMatch"
      [] p.kind = "McpPrefix" -> confident(IsPrefix(p.text, call.tool))
      [] p.kind \in {"BareTool", "McpExact"} -> confident(call.tool = p.tool)
      [] OTHER -> IF call.tool # p.tool THEN "NoMatch" ELSE match_tool_args(p, call)

-----------------------------------------------------------------------------
(* evaluate: the deny list, then the allow list, each to its first confident *)
(* match; failing that, to its first ambiguous one.                        *)

\* One step through a list: what it has found, and the entry it stopped at or
\* remembers.
Found(result, p) == [result |-> result, raw |-> p.raw]
Nothing == [result |-> "NoMatch", raw |-> <<>>]

\* Mutant: an ambiguous entry ends the walk as a confident one does.
Bug_Step(seen, p, m) ==
    IF seen.result # "NoMatch" \/ m = "NoMatch" THEN seen ELSE Found(m, p)

\* At an entry whose match with the call is m.
Step(seen, p, m) ==
    IF seen.result = "Confident" \/ m = "NoMatch" THEN seen
    ELSE IF m = "Ambiguous" /\ seen.result = "Ambiguous" THEN seen
    ELSE Found(m, p)

Scan(list, call) ==
    LET Next1(seen, p) == Step(seen, p, matches(p, call)) IN FoldLeft(Next1, Nothing, list)

\* A decision, and the entry it names.
Verdict(is, by) == [is |-> is, by |-> by.raw]

\* What the lists have found decides the call.
Decision(call, deny, allow) ==
    IF call.mode \in PermissiveMode        THEN Verdict("Allow", Nothing)
    ELSE IF deny.result = "Confident"      THEN Verdict("Deny", deny)
    ELSE IF deny.result = "Ambiguous"      THEN Verdict("AskAnnotated", deny)
    ELSE IF allow.result = "Confident"     THEN Verdict("Allow", allow)
    ELSE IF allow.result = "Ambiguous"     THEN Verdict("AskAnnotated", allow)
    ELSE Verdict("Intercept", Nothing)

evaluate(call, list) == Decision(call, Scan(list.deny, call), Scan(list.allow, call))

\* Mutant: the file of the user alone for this machine is left out.
Bug_cascade(local, project, user) ==
    [allow |-> project.allow \o user.allow, deny |-> project.deny \o user.deny]

cascade(local, project, user) ==
    [allow |-> local.allow \o project.allow \o user.allow,
     deny  |-> local.deny \o project.deny \o user.deny]

\* parse_pattern_array: an element that is no string is skipped.
NoString == <<"#">>
parse_pattern_array(array) ==
    LET Next1(parsed, raw) == IF raw = NoString THEN parsed ELSE Append(parsed, parse(raw))
    IN FoldLeft(Next1, <<>>, array)

-----------------------------------------------------------------------------
(* derive_pattern: the entry an Always adds, or none (BareToolNeedsConfirmation). *)

DerivedFrom(tool) ==
    CASE tool = <<"Bash">> -> "command"
      [] tool \in FILE_PATH_TOOLS \ {<<"Glob">>, <<"Grep">>} -> "file_path"
      [] tool = <<"Agent">> -> "subagent_type"
      [] OTHER -> "nothing"

\* Mutant: the tool alone, for a call whose argument is not looked at.
Bug_derive_pattern(call) == <<call.tool>>

\* specific_or_bare: <<entry>>, or <<>> when only the tool alone would do.
derive_pattern(call) ==
    IF Head(call.tool) = "mcp__" THEN <<call.tool>>
    ELSE IF call.field = DerivedFrom(call.tool)
      THEN <<call.tool \o <<"(">> \o call.value \o <<")">> >>
    ELSE <<>>
=============================================================================
