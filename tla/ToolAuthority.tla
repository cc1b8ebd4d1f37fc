---------------------------- MODULE ToolAuthority ----------------------------
(***************************************************************************)
(* The host's authority over the tool calls of a model.  A completed batch *)
(* of calls is partitioned before it is released                           *)
(* (_phase4_partition_structured_tool_calls), and the executor asks again, *)
(* with its own working directory, before it runs a released call          *)
(* (_phase4_executor_admission_decision).  Both ask the path policy        *)
(* (jack_path_policy) through the consequence gate                         *)
(* (jack_consequence_gate) and the guard of credential files.              *)
(*                                                                         *)
(* A path as it is written is a form and a sequence of segments; a segment *)
(* is a name with an ending: "dots" are trailing dots or blanks, "stream"  *)
(* a stream suffix.  A canonical path is a sequence of segments, the drive *)
(* first; <<>> is no path.  A command is a sequence of simple commands;    *)
(* the tokenizer and the patterns that recognise the parts are left out.   *)
(***************************************************************************)
EXTENDS Integers, Sequences, FiniteSets, SequencesExt

CONSTANTS SystemRoot, Home,  \* canonical paths of the host's environment
          Sensitive,         \* canonical paths below SystemRoot
          Workspaces,        \* workspace roots, <<>> for no Workspace Lock
          UserNever,         \* sets of NEVER roots of the operator
          Protected,         \* sets of credential files
          Batches,           \* the batches of calls a model may complete
          Cwds,              \* working directories, as the executor reports them
          Platforms,         \* subset of {"win32", "other"}
          Dialects           \* subset of {"", "bash", "powershell"}

Absent == [form |-> "absent", segs |-> <<>>]
Plain(n) == <<n, "">>

ASSUME AuthorityConstants ==
  /\ SystemRoot # <<>> /\ Home # <<>>
  /\ \A s \in Sensitive : IsPrefix(SystemRoot, s)
  /\ <<>> \notin UNION UserNever
  /\ Dialects \subseteq {"", "bash", "powershell"}
  /\ Platforms \subseteq {"win32", "other"}
  /\ \A b \in Batches :
       /\ b \in Seq(Range(b)) /\ b # <<>>
       /\ \A c \in Range(b) : /\ c = [tool |-> c.tool, arg |-> c.arg, segs |-> c.segs]
                               /\ c.segs \in Seq(Range(c.segs))

VARIABLES
  policy,     \* the RuntimePathPolicy, with the protected credential files
  context,    \* the executor's facts of the request that the batch answers
  batch,      \* the calls of the model
  phase,      \* "proposed", "released", "interrupted", "raised"
  released,   \* the calls given to the executor, as rewritten
  executed    \* what the executor ran: the call with its facts

authorityVars == <<policy, context, batch, phase, released, executed>>

-----------------------------------------------------------------------------
(* Normalization of a represented path: lexical, without the file system.   *)

Ok(p) == [is |-> "ok", path |-> p]
Fails(why) == [is |-> why, path |-> <<>>]

\* ntpath.normpath: a parent segment takes the one before it away.
Normpath(p) ==
  FoldLeft(LAMBDA acc, s : IF s = Plain("..")
                           THEN (IF Len(acc) > 1 THEN Front(acc) ELSE acc)
                           ELSE Append(acc, s),
           <<p[1]>>, Tail(p))

\* Win32 drops trailing dots and blanks; what has nothing else is ambiguous.
Trimmed(p) == [i \in DOMAIN p |-> IF p[i][2] = "dots" THEN Plain(p[i][1]) ELSE p[i]]

Canonical(p, extended) ==
  IF extended THEN Ok(Normpath(p))
  ELSE IF \E i \in DOMAIN p : p[i] = <<"", "dots">> THEN Fails("ambiguous")
  ELSE Ok(Normpath(Trimmed(p)))

\* Known variables are replaced; an unknown one is left, and is ambiguous.
Expanded(t) ==
  IF t.form = "systemroot" THEN [form |-> "absolute", segs |-> SystemRoot \o t.segs] ELSE t

\* The extended prefix is taken off, and devices are no files.
Namespace(t) ==
  CASE t.form = "extended" -> "extended"
    [] t.form \in {"device", "unresolved"} -> "ambiguous"
    [] OTHER -> "ordinary"

\* Of the executor's directory, <<>> for none, a rooted path takes the drive
\* and a relative one all.
Based(t, base) ==
  IF t.form \in {"absolute", "extended"} THEN Ok(t.segs)
  ELSE IF t.form = "drive relative" THEN Fails("ambiguous")
  ELSE IF t.form \in {"rooted", "compat"}
  THEN IF base = <<>> THEN Fails("ambiguous") ELSE Ok(<<base[1]>> \o t.segs)
  ELSE IF base = <<>> THEN Fails("needs cwd")
  ELSE Ok(base \o (IF t.form = "home" THEN <<Plain("~")>> ELSE <<>>) \o t.segs)

\* normalize_represented_windows_path
Normalize(t, base) ==
  LET x == Expanded(t)
      full == Based(x, base)
  IN
  IF t.form \in {"absent", "malformed"} THEN Fails("invalid")
  ELSE IF Namespace(x) = "ambiguous" THEN Fails("ambiguous")
  ELSE IF full.is # "ok" THEN full
  ELSE Canonical(full.path, Namespace(x) = "extended")

\* The object that a target belongs to: streams belong to their file.
PolicyObject(p) ==
  IF \E i \in DOMAIN p : p[i] = <<"", "stream">> THEN Fails("ambiguous")
  ELSE Ok(Normpath([i \in DOMAIN p |-> IF p[i][2] = "stream" THEN Plain(p[i][1]) ELSE p[i]]))

Within(p, root) == IsPrefix(root, p)

-----------------------------------------------------------------------------
(* The policy of a runtime, and the facts it establishes of a path.         *)

DefaultNever == {SystemRoot, <<SystemRoot[1], Plain("recovery")>>}

\* build_runtime_path_policy refuses a workspace inside a NEVER root.
Built(workspace, never) ==
  workspace = <<>> \/ \A root \in DefaultNever \cup never : ~Within(workspace, root)

Locked(p) == p.workspace # <<>>

Unresolved(p, path, invalid) ==
  [target |-> path, never |-> FALSE, locked |-> Locked(p), deterministic |-> FALSE,
   inside |-> FALSE, invalid |-> invalid]

Compared(path) == PolicyObject(path)

Established(p, norm) ==
  LET object == Compared(norm.path) IN
  IF norm.is # "ok" THEN Unresolved(p, <<>>, norm.is = "invalid")
  ELSE IF object.is # "ok" THEN Unresolved(p, norm.path, FALSE)
  ELSE [target |-> norm.path,
        never |-> \E root \in p.never : Within(object.path, root),
        locked |-> Locked(p), deterministic |-> TRUE,
        inside |-> Locked(p) => Within(object.path, p.workspace), invalid |-> FALSE]

\* inspect_represented_path; the executor's cwd must be absolute by itself.
Inspect(p, t, cwd) ==
  LET base == Normalize(cwd, <<>>) IN
  IF cwd # Absent /\ base.is # "ok" THEN Unresolved(p, <<>>, TRUE)
  ELSE Established(p, Normalize(t, IF cwd = Absent THEN <<>> ELSE base.path))

\* The consequence gate: the outcome that each fact calls for, the strictest
\* of them taken.  A protected credential file is denied, never interrupted.
PathOutcome(f) ==
  IF f.never THEN "HARD"
  ELSE IF f.invalid \/ (f.locked /\ (~f.deterministic \/ ~f.inside)) THEN "DENY"
  ELSE "ALLOW"

Evaluate(outcomes) ==
  IF "HARD" \in outcomes THEN "HARD" ELSE IF "DENY" \in outcomes THEN "DENY" ELSE "ALLOW"

ResourceOutcome(p, path) == IF path \in p.protected THEN "DENY" ELSE "ALLOW"

Authorize(p, f) == Evaluate({PathOutcome(f), ResourceOutcome(p, f.target)})

\* The exemption for reading the default Windows tree: it turns an interrupt
\* into a decision of its own, and is "none" where it does not apply.
SafeRead(p, f) ==
  IF \/ ~f.never
     \/ ~Within(f.target, SystemRoot)
     \/ \E root \in p.never \ DefaultNever : Within(f.target, root)
  THEN "none"
  ELSE IF \/ f.locked /\ ~f.inside
          \/ \E s \in Sensitive : Within(f.target, s)
          \/ f.target \in p.protected
  THEN "DENY" ELSE "ALLOW"

Decide(p, f, reading) ==
  IF reading /\ SafeRead(p, f) # "none" THEN SafeRead(p, f) ELSE Authorize(p, f)

-----------------------------------------------------------------------------
(* Structured tools: the path is an argument of its own.                    *)

Structured == {"read", "write", "ls", "grep"}
DefaultsToCwd == {"ls", "grep"}
ReadOnly == {"read", "ls"}

\* extract_structured_tool_paths
Extraction(c) ==
  CASE c.arg.form = "malformed" -> "error"
    [] c.arg = Absent -> IF c.tool \in DefaultsToCwd THEN "cwd" ELSE "error"
    [] OTHER -> "target"

\* authorize_structured_tool_call
AuthorizeStructured(p, c, cwd) ==
  CASE Extraction(c) = "error" -> "DENY"
    [] Extraction(c) = "cwd" ->
         IF cwd = Absent THEN "DENY" ELSE Decide(p, Inspect(p, cwd, Absent), c.tool \in ReadOnly)
    [] Extraction(c) = "target" -> Decide(p, Inspect(p, c.arg, cwd), c.tool \in ReadOnly)

\* rewrite_structured_tool_call_for_workspace_release: under Workspace Lock a
\* released call names its target in full.  <<>> when the function raises.
Rewritten(p, c) ==
  LET full(path) == <<[c EXCEPT !.arg = [form |-> "absolute", segs |-> path]]>>
      n == Normalize(c.arg, p.workspace)
  IN
  IF ~Locked(p) \/ c.arg.form = "malformed" THEN <<c>>
  ELSE IF c.arg = Absent THEN (IF c.tool \in DefaultsToCwd THEN full(p.workspace) ELSE <<c>>)
  ELSE IF n.is = "ok" THEN full(n.path) ELSE <<>>

-----------------------------------------------------------------------------
(* Commands.  A simple command has a verb, perhaps behind a wrapper like    *)
(* env or a nested shell, words (flags, options with a path, operands) and  *)
(* redirections.  The operands of git are the words after "--"; flags that  *)
(* mean nothing to the policy are left out.                                 *)

CommandTools == {"bash", "pwsh", "shell"}

DialectOf(tool, given) ==
  CASE tool = "bash" -> IF given \in {"", "bash"} THEN "bash" ELSE "none"
    [] tool = "pwsh" -> IF given \in {"", "powershell"} THEN "powershell" ELSE "none"
    [] OTHER -> IF given = "" THEN "none" ELSE given

Operands(s) == {i \in DOMAIN s.words : s.words[i].as = "operand"}
Options(s) == {i \in DOMAIN s.words : s.words[i].as = "option"}
TextsAt(s, is) == {s.words[i].text : i \in is}

\* What the contract of a verb says of a simple command: its targets, whether
\* the working directory is one, and whether something is left open.
Contract(targets, cwd, open) == [targets |-> targets, cwd |-> cwd, open |-> open]
Unknown == Contract({}, FALSE, TRUE)

AllWords(s) == TextsAt(s, Operands(s) \cup Options(s))

FileCommand(s) ==
  IF s.verb = "cp" /\ Cardinality(Operands(s)) < 2
  THEN Contract(TextsAt(s, Options(s)), FALSE, TRUE)
  ELSE Contract(AllWords(s), Operands(s) = {}, FALSE)

GitCommand(s) == Contract(AllWords(s), TRUE, s.verb = "git clone")

TestCommand(s) == Contract(AllWords(s), TRUE, FALSE)

ScriptCommand(s) == IF 1 \in Operands(s) THEN Contract({s.words[1].text}, FALSE, FALSE) ELSE Unknown

\* env alone prints; the other wrappers have to wrap something.
BareWrapper(s) == Contract({}, FALSE, s.verb # "env")

BashCommand(s) ==
  CASE s.verb \in {"cat", "ls", "rm", "cd", "cp"} -> FileCommand(s)
    [] s.verb \in {"git", "git clone"} -> GitCommand(s)
    [] s.verb = "pytest" -> TestCommand(s)
    [] s.verb = "python" -> ScriptCommand(s)
    [] s.verb = "echo" -> Contract({}, FALSE, FALSE)
    [] s.verb \in {"env", "nohup"} -> BareWrapper(s)
    [] OTHER -> Unknown

PowerShellCommand(s) ==
  CASE s.verb \in {"cat", "ls", "rm", "cd", "cp"} ->
         Contract(AllWords(s), s.verb = "ls" /\ AllWords(s) = {}, s.verb # "ls" /\ AllWords(s) = {})
    [] s.verb \in {"env", "nohup"} -> Unknown
    [] OTHER -> BashCommand(s)

ContractOf(s, dialect) == IF dialect = "bash" THEN BashCommand(s) ELSE PowerShellCommand(s)

ChangesCwd(s) == s.verb = "cd" /\ ~s.wrapped

\* Words that the shell computes, and words that it may expand.
Computed(t) == t.form = "dynamic"
Expands(t) == t.form = "home"

\* Mutant: what one simple command leaves open is forgotten at the next.
LastOpen(segs, dialect) == ContractOf(segs[Len(segs)], dialect).open

AnyOpen(segs, dialect) == \E i \in DOMAIN segs : ContractOf(segs[i], dialect).open

\* extract_command_paths: a computed word is no target but leaves things open,
\* as does a change of directory that other commands follow.
Extract(segs, dialect) ==
  LET targets == UNION {ContractOf(segs[i], dialect).targets \cup segs[i].into : i \in DOMAIN segs}
      words == UNION {TextsAt(segs[i], DOMAIN segs[i].words) \cup segs[i].into : i \in DOMAIN segs}
  IN
  [targets |-> {t \in targets : ~Computed(t)},
   cwd |-> \E i \in DOMAIN segs : ContractOf(segs[i], dialect).cwd,
   ambiguous |-> \/ \E t \in words : Computed(t) \/ Expands(t)
                 \/ AnyOpen(segs, dialect)
                 \/ \E i \in 1..(Len(segs) - 1) : ChangesCwd(segs[i])]

HomeExpanded(t) ==
  IF t.form = "home" THEN [form |-> "absolute", segs |-> Home \o t.segs] ELSE t

\* /c/x is drive c: in the shells of Windows only.
CompatMapped(t, platform) ==
  IF t.form = "compat" /\ platform = "win32" THEN [form |-> "absolute", segs |-> t.segs] ELSE t

\* _prepare_command_target: what the shell would have made of the word.
Prepared(t, dialect, platform) ==
  IF dialect = "bash" THEN CompatMapped(HomeExpanded(t), platform) ELSE HomeExpanded(t)

OutsideFiles(t, dialect) == t.form = "provider" /\ dialect = "powershell"

\* _safe_default_read_command: one plain command that only reads.
OnlyReads(segs, e, dialect) ==
  /\ ~e.ambiguous /\ e.targets # {}
  /\ Len(segs) = 1 /\ segs[1].into = {} /\ ~segs[1].wrapped
  /\ segs[1].verb \in {"cat", "ls"}
  /\ \A i \in DOMAIN segs[1].words : segs[1].words[i].as \in
       IF dialect = "bash" THEN {"operand"} ELSE {"operand", "option"}

\* A directory that does not resolve by itself is no base.
BaseOf(cwd) == IF cwd # Absent /\ Normalize(cwd, <<>>).is = "ok" THEN cwd ELSE Absent

RefusedTargets(p, segs, e, dialect, base, platform) ==
  {Decide(p, Inspect(p, Prepared(t, dialect, platform), base), OnlyReads(segs, e, dialect)) :
     t \in {u \in e.targets : ~OutsideFiles(u, dialect)}} \ {"ALLOW"}

AtCwd(p, e, cwd) ==
  IF ~e.cwd THEN "ALLOW"
  ELSE IF cwd = Absent THEN (IF Locked(p) THEN "DENY" ELSE "ALLOW")
  ELSE Authorize(p, Inspect(p, cwd, Absent))

Combined(p, e, atCwd, refused) ==
  IF atCwd # "ALLOW" THEN {atCwd}
  ELSE IF refused # {} THEN refused
  ELSE IF e.ambiguous /\ Locked(p) THEN {"DENY"} ELSE {"ALLOW"}

\* authorize_command_tool_call.  The targets are examined in order and the
\* first that is not allowed decides: any of them may be it.
CommandOutcomes(p, c, dialect, cwd, platform) ==
  LET e == Extract(c.segs, dialect)
  IN Combined(p, e, AtCwd(p, e, cwd),
              RefusedTargets(p, c.segs, e, dialect, BaseOf(cwd), platform))

\* authorize_executor_tool_call, "none" where no contract applies.
ExecutorOutcomes(p, c, cwd, given, platform) ==
  IF c.tool \in Structured THEN {AuthorizeStructured(p, c, cwd)}
  ELSE IF DialectOf(c.tool, given) = "none" THEN {"none"}
  ELSE CommandOutcomes(p, c, DialectOf(c.tool, given), cwd, platform)

-----------------------------------------------------------------------------
(* Release of a batch.                                                      *)

\* What may become of one call.  "raises" is the rewriting of a target that
\* cannot be resolved; nothing catches it.
Outcomes(c) ==
  IF c.tool \in Structured
  THEN IF Rewritten(policy, c) = <<>> THEN {"raises"}
       ELSE {AuthorizeStructured(policy, Rewritten(policy, c)[1], Absent)}
  ELSE {IF o # "none" THEN o
        ELSE IF Locked(policy) /\ c.tool \in CommandTools THEN "DENY" ELSE "ALLOW" :
          o \in ExecutorOutcomes(policy, c, context.cwd, context.dialect, context.platform)}

\* Mutant: the call is released as the model wrote it.
AsWritten(c) == c

Candidate(c) == IF c.tool \in Structured THEN Rewritten(policy, c)[1] ELSE c

Policies == {[workspace |-> w, never |-> DefaultNever \cup n, protected |-> k] :
               w \in Workspaces, n \in UserNever, k \in Protected}

\* The executor's facts of a request, or none: a partial set is refused.
Contexts == [cwd : Cwds \cup {Absent}, dialect : Dialects, platform : Platforms]

AuthorityInit ==
  /\ policy \in {p \in Policies : Built(p.workspace, p.never)}
  /\ context \in Contexts
  /\ batch \in Batches /\ phase = "proposed" /\ released = <<>> /\ executed = {}

AuthorityTypeOK ==
  /\ policy \in Policies /\ context \in Contexts /\ batch \in Batches
  /\ phase \in {"proposed", "released", "interrupted", "raised"}
  /\ Len(released) <= Len(batch)
  /\ phase # "released" => released = <<>>
  /\ \A x \in executed : x.call \in Range(released) /\ x.cwd \in Cwds /\ x.dialect \in Dialects

Allowed(out) == {i \in DOMAIN out : out[i] = "ALLOW"}

\* An interrupt, or an error, releases nothing of the batch.
Kept(out, stops) == IF stops = {} THEN Allowed(out) ELSE {}

\* _phase4_partition_structured_tool_calls: call by call, until one raises.
Partition ==
  /\ phase = "proposed"
  /\ \E out \in [DOMAIN batch -> {"ALLOW", "DENY", "HARD", "raises"}] :
       LET stops == {i \in DOMAIN batch : out[i] \in {"HARD", "raises"}}
           kept == Kept(out, stops)
       IN
       /\ \A i \in DOMAIN batch : out[i] \in Outcomes(batch[i])
       /\ \E order \in [1..Cardinality(kept) -> kept] :
            /\ \A j, k \in DOMAIN order : j < k => order[j] < order[k]
            /\ released' = [k \in DOMAIN order |-> Candidate(batch[order[k]])]
       /\ phase' = CASE stops = {} -> "released"
                     [] stops # {} /\ out[Min(stops)] = "HARD" -> "interrupted"
                     [] OTHER -> "raised"
  /\ UNCHANGED <<policy, context, batch, executed>>

-----------------------------------------------------------------------------
(* Admission by the executor.                                               *)

\* Mutant: the executor's cwd is taken from the request that was answered.
StaleCwd(cwd) == context.cwd

AskedCwd(cwd) == cwd

\* The executor, which may have changed its directory, asks before it runs a
\* call, and runs it if it is allowed and a contract applies.  Requests for
\* another runtime, lane, call or other arguments are refused and left out.
Admit ==
  /\ phase = "released"
  /\ \E i \in DOMAIN released, cwd \in Cwds, given \in Dialects :
       /\ "ALLOW" \in ExecutorOutcomes(policy, released[i], AskedCwd(cwd), given, context.platform)
       /\ executed' = {[call |-> released[i], cwd |-> cwd, dialect |-> given]}
  /\ UNCHANGED <<policy, context, batch, phase, released>>

AuthorityNext == Partition \/ Admit
AuthoritySpec == AuthorityInit /\ [][AuthorityNext]_authorityVars

-----------------------------------------------------------------------------
(* Properties.                                                              *)

\* The represented targets of a call, and of the executor's directory, as the
\* executor that stands in cwd has them.
TargetsOf(c, given) ==
  IF c.tool \in Structured THEN {c.arg}
  ELSE LET d == DialectOf(c.tool, given)
           e == Extract(c.segs, d)
       IN {Prepared(t, d, context.platform) : t \in {u \in e.targets : ~OutsideFiles(u, d)}}
          \cup (IF e.cwd THEN {Absent} ELSE {})

Resolved(t, cwd) ==
  IF t = Absent THEN Normalize(cwd, <<>>) ELSE Normalize(t, Normalize(cwd, <<>>).path)

\* A call that cannot write, whatever its targets.
ReadsOnly(c) ==
  IF c.tool \in Structured THEN c.tool \in {"read", "ls"}
  ELSE \A k \in 1..Len(c.segs) : c.segs[k].verb \in {"cat", "ls"} /\ c.segs[k].into = {}

\* Its words mean what the policy took them for: no command follows one that
\* changes the directory.  A cd inside a nested shell is not looked for.
StaysPut(c) ==
  c.tool \notin Structured =>
    \A k \in 1..(Len(c.segs) - 1) : c.segs[k].verb = "cd" => c.segs[k].wrapped

\* Of the NEVER roots only the default Windows tree may be read, and there
\* neither the sensitive parts nor what the operator named.
Readable(path) ==
  /\ Within(path, SystemRoot)
  /\ \A root \in Sensitive \cup (policy.never \ DefaultNever) : ~Within(path, root)

\* What the path names is not an object of its own but a stream of one.
OfStream(n) == PolicyObject(n.path) # n

\* Whatever the executor runs, every represented target that resolves where
\* the executor stands is no credential file and an object outside the NEVER
\* roots, or one that may be read there and a call that cannot write.  A stream
\* is readable by its own name, see UserNeverOutranks.  Under Workspace Lock every
\* target does resolve, to an object inside the workspace, and the words of a
\* command keep their meaning until it is over.
RunsInsideTheLock ==
  \A x \in executed :
    /\ Locked(policy) => StaysPut(x.call)
    /\ \A t \in TargetsOf(x.call, x.dialect) :
         LET n == Resolved(t, x.cwd)
             object == PolicyObject(n.path)
         IN
         /\ Locked(policy) =>
              n.is = "ok" /\ object.is = "ok" /\ Within(object.path, policy.workspace)
         /\ n.is = "ok" => n.path \notin policy.protected
         /\ n.is = "ok" /\ object.is = "ok" /\ (\E root \in policy.never : Within(object.path, root))
              => /\ ReadsOnly(x.call)
                 /\ Readable(object.path) \/ (OfStream(n) /\ Readable(n.path))

\* "User-defined NEVER paths always outrank the default read-only exception",
\* says the comment in _safe_default_windows_read: what the executor runs touches
\* no object under a root of the operator.  The exception compares the path with
\* its stream instead of the object: see README, Divergences.
UserNeverOutranks ==
  \A x \in executed : \A t \in TargetsOf(x.call, x.dialect) :
    LET n == Resolved(t, x.cwd)
        object == PolicyObject(n.path)
    IN n.is = "ok" /\ object.is = "ok" =>
         \A root \in policy.never \ DefaultNever : ~Within(object.path, root)

\* Release and admission agree: under Workspace Lock a structured call that
\* was released means the same wherever the executor stands.
ReleasedIsAdmitted ==
  Locked(policy) =>
    \A i \in DOMAIN released : released[i].tool \in Structured =>
      \A cwd \in {d \in Cwds : Normalize(d, <<>>).is = "ok"} :
        AuthorizeStructured(policy, released[i], cwd) = "ALLOW"

\* Commands put together may do no more than each of them alone.
NoFreerTogether ==
  \A i \in DOMAIN released : released[i].tool \in CommandTools =>
    \A k \in DOMAIN released[i].segs :
      LET alone == [released[i] EXCEPT !.segs = <<@[k]>>]
          outcomes == ExecutorOutcomes(policy, alone, context.cwd, context.dialect, context.platform)
      IN outcomes \cap {"ALLOW", "none"} # {}

\* Expected by the docstring of _phase4_partition_structured_tool_calls: calls
\* are partitioned, and only a NEVER match stops the batch.  An unresolvable
\* target under Workspace Lock makes the rewriting raise instead: see README,
\* Divergences.
OnlyNeverInterrupts == phase # "raised"
=============================================================================
