-------------------------- MODULE MCAllowlistCache --------------------------
\* Small instance of AllowlistCache for TLC: a repository whose .claude is yet
\* to come, and a project in it.
EXTENDS AllowlistCache, TLC

MCDir == {"/h", "/h/git", "/h/git/sub"}
MCUp ==
    "/h" :> <<"/h">> @@ "/h/git" :> <<"/h/git", "/h">>
      @@ "/h/git/sub" :> <<"/h/git/sub", "/h/git", "/h">>

Tool(tool, field, value, mode) ==
    [tool |-> tool, field |-> field, value |-> value, mode |-> mode]
MCCall ==
    {Tool(<<"Bash">>, "command", <<"l", "s">>, "default"),
     Tool(<<"Bash">>, "command", <<"l", "s", " ", "x">>, "acceptEdits"),
     Tool(<<"Read">>, "file_path", <<"x">>, "plan"),
     Tool(<<"Read">>, "file_path", <<"{", "d", ",", "x", "}">>, "default"),
     Tool(<<"mcp__", "m">>, "none", <<>>, "default")}

MCToken == {"Bash", "Read", "mcp__", "m", "l", "s", "d", "x", "/", " ", ":", "*", "(", ")",
            "{", ",", "}", "#"}

\* mcp__*, Bash(ls :*), an element that is no string; Bash(, Read(, Read(**/x ).
MCEntries ==
    {[allow |-> <<<<"mcp__", "*">>, <<"Bash", "(", "l", "s", " ", ":", "*", ")">>, NoString>>,
      deny |-> <<<<"Bash", "(">>, <<"Read", "(">>, <<"Read", "(", "*", "*", "/", "x", " ", ")">>>>]}
=============================================================================
