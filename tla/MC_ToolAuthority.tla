-------------------------- MODULE MC_ToolAuthority --------------------------
EXTENDS ToolAuthority

C == Plain("c:")
D == Plain("d:")
Win == Plain("windows")
W == Plain("w")

MC_SystemRoot == <<C, Win>>
MC_Home == <<D, Plain("home")>>
MC_Sensitive == {<<C, Win, Plain("config")>>}
MC_Workspaces == {<<>>, <<D, W>>}
MC_UserNever == {{}, {<<C, Win, Plain("logs")>>, <<D, W, Plain("private")>>}}
MC_Protected == {{<<D, W, Plain("key")>>, <<C, Win, Plain("key")>>}}
MC_Cwds == {[form |-> "absolute", segs |-> <<D, W>>],
            [form |-> "absolute", segs |-> <<C, Win>>],
            [form |-> "unresolved", segs |-> <<>>]}

T(f, ss) == [form |-> f, segs |-> ss]
Texts == {
  T("absolute", <<D, W, <<"a", "dots">>>>),
  T("absolute", <<D, W, Plain(".."), Plain("b")>>),
  T("absolute", <<C, <<"windows", "stream">>>>),
  T("absolute", <<C, <<"windows", "dots">>, Plain("config")>>),
  T("extended", <<D, W, <<"a", "dots">>>>),
  T("systemroot", <<Plain("logs")>>),
  T("systemroot", <<<<"logs", "stream">>>>),
  T("systemroot", <<Plain("key")>>),
  T("relative", <<Plain("a")>>),
  T("relative", <<Plain("private"), Plain("a")>>),
  T("rooted", <<W, Plain("key")>>),
  T("drive relative", <<Plain("a")>>)}
CommandTexts == {
  T("relative", <<Plain("a")>>),
  T("relative", <<<<"..", "stream">>, Plain("b")>>),
  T("systemroot", <<>>),
  T("compat", <<D, W, Plain("a")>>),
  T("home", <<>>), T("provider", <<>>), T("dynamic", <<>>)}

StructuredCalls ==
  {[tool |-> t, arg |-> a, segs |-> <<>>] :
     t \in {"read", "write"}, a \in Texts \cup {Absent, T("malformed", <<>>)}}
  \cup {[tool |-> t, arg |-> a, segs |-> <<>>] : t \in {"ls", "grep"}, a \in {Absent}}

Simple(v, ws) == [verb |-> v, words |-> ws, into |-> {}, wrapped |-> FALSE]
Word(k, t) == [as |-> k, text |-> t]
Rel == T("relative", <<Plain("a")>>)
Segments ==
  {Simple("cat", <<Word("operand", t)>>) : t \in CommandTexts}
  \cup {Simple(v, <<>>) : v \in {"echo", "cat", "cd", "python", "make", "env"}}
  \cup {Simple("cp", <<Word("operand", Rel)>>),
        Simple("cp", <<Word("operand", Rel), Word("operand", T("systemroot", <<>>))>>),
        Simple("ls", <<Word("option", T("systemroot", <<>>))>>),
        Simple("git", <<Word("option", Rel)>>), Simple("git clone", <<>>),
        Simple("python", <<Word("operand", Rel)>>),
        Simple("python", <<Word("flag", Absent), Word("operand", Rel)>>),
        [Simple("echo", <<>>) EXCEPT !.into = {T("systemroot", <<>>)}],
        [Simple("cat", <<Word("operand", Rel)>>) EXCEPT !.into = {T("systemroot", <<>>)}],
        [Simple("cd", <<Word("operand", Rel)>>) EXCEPT !.wrapped = TRUE]}
Commands == {<<x>> : x \in Segments} \cup {<<x, Simple(v, <<>>)>> : x \in Segments, v \in {"ls", "python"}}
CommandCalls ==
  {[tool |-> t, arg |-> Absent, segs |-> q] : t \in {"bash", "shell"}, q \in Commands}

\* Two calls in a batch: what one may do to the other.
Mixed ==
  {[tool |-> "write", arg |-> a, segs |-> <<>>] :
     a \in {T("relative", <<Plain("a")>>), T("rooted", <<W, Plain("key")>>),
            T("systemroot", <<Plain("logs")>>), T("drive relative", <<Plain("a")>>),
            T("absolute", <<C, <<"windows", "dots">>, Plain("config")>>)}}
  \cup {[tool |-> "bash", arg |-> Absent, segs |-> <<x>>] :
          x \in {Simple("cat", <<Word("operand", Rel)>>), Simple("cd", <<>>),
                 Simple("python", <<>>),
                 Simple("cat", <<Word("operand", T("systemroot", <<>>))>>)}}
MC_Batches == {<<c>> : c \in StructuredCalls \cup CommandCalls}
              \cup {<<a, b>> : a, b \in Mixed}
=============================================================================
