---- MODULE Inspection ----
(***************************************************************************)
(* internal/nxartifact/inspect.go: what an archive and the headers of its  *)
(* upload say of the task.                                                 *)
(*                                                                         *)
(* An archive is the sequence of its tar entries.  The regular expressions *)
(* and the splitting of names are data: a path is what the two scans of    *)
(* paths see in it, a terminal output is the sequence of the matches of    *)
(* the parsers, with what they take from them; a line that several match   *)
(* is there for each.  "" is what it is in the code: not known.            *)
(***************************************************************************)
EXTENDS Integers, SequencesExt

CONSTANTS
  Target,   \* the names of targets, commands and kinds, and ""
  Words,    \* the keywords in the names of targets and commands
  MaxPaths  \* maxInspectPaths

Info == [project : STRING, target : STRING, config : STRING, kind : STRING]

NoInfo == [project |-> "", target |-> "", config |-> "", kind |-> ""]

Or(s, t) == IF s # "" THEN s ELSE t

\* The loops over the paths end at the first that says something.
FirstKnown(strings) ==
  LET i == SelectInSeq(strings, LAMBDA s : s # "")
  IN IF i = 0 THEN "" ELSE strings[i]

Groups ==
  <<[kind |-> "e2e", names |-> {"e2e", "e2e-ci", "cypress", "playwright", "playwright-e2e"},
     words |-> {"e2e", "playwright", "cypress"}],
    [kind |-> "lint", names |-> {"lint", "eslint", "prettier", "stylelint"},
     words |-> {"lint"}],
    [kind |-> "test", names |-> {"test", "test-ci", "jest", "vitest", "unit-test", "spec"},
     words |-> {"test", "jest", "vitest"}],
    [kind |-> "typecheck", names |-> {"typecheck", "check-types", "tsc"},
     words |-> {"typecheck"}],
    [kind |-> "build", names |-> {"build", "compile", "bundle", "package", "prerender"},
     words |-> {"build", "compile"}]>>

WordsOf(target) == IF target \in DOMAIN Words THEN Words[target] ELSE {target}

\* A name is looked up in all groups before the keywords of any.
KindFromTarget == [target \in Target |->
  LET named == SelectInSeq(Groups, LAMBDA g : target \in g.names)
      alike == SelectInSeq(Groups, LAMBDA g : WordsOf(target) \cap g.words # {})
  IN IF named # 0 THEN Groups[named].kind
     ELSE IF alike # 0 THEN Groups[alike].kind
     ELSE target]

CommandKind(command) ==
  LET kind == KindFromTarget[command]
  IN IF kind \in {"build", "test", "lint", "e2e", "typecheck", "serve"} THEN kind ELSE ""

ProjectFromPaths(paths) == FirstKnown([i \in DOMAIN paths |-> paths[i].project])
KindFromPaths(paths) == FirstKnown([i \in DOMAIN paths |-> paths[i].kind])

----
(* The lines of a terminal output, in the order finalize asks for them.    *)

Parsers == <<"nx run", "nx command", "tool", "test result", "test summary", "nx target", "command">>

\* A parser gives up on a token without two parts, a command that names no one
\* target, a tool that is none, or a command that is no package manager's.
Accepted(line) ==
  /\ line.by = "nx run" => line.project # "" /\ line.target # ""
  /\ line.by \in {"nx command", "command"} => line.target # ""
  /\ line.by = "tool" => CommandKind(line.target) # ""

\* What a parser goes by: its first match alone, or the last command it accepts.
Matched(text, parser) ==
  LET lines == SelectSeq(text, LAMBDA l : l.by = parser)
  IN IF parser = "command" THEN Reverse(SelectSeq(lines, Accepted)) ELSE lines

Parsed(line) ==
  CASE line.by \in {"nx run", "nx command"} ->
         [project |-> line.project, target |-> line.target, config |-> line.config, kind |-> ""]
    [] line.by = "nx target" ->
         [NoInfo EXCEPT !.project = line.project, !.target = line.target]
    [] line.by = "tool" ->
         [NoInfo EXCEPT !.project = line.project, !.target = CommandKind(line.target)]
    [] line.by \in {"test result", "test summary"} ->
         [NoInfo EXCEPT !.project = line.project, !.target = "test", !.kind = "test"]
    [] line.by = "command" ->
         [NoInfo EXCEPT !.target = line.target, !.kind = CommandKind(line.target)]

ParseTerminal(text) ==
  LET matches == [p \in DOMAIN Parsers |-> Matched(text, Parsers[p])]
      i == SelectInSeq(matches, LAMBDA lines : lines # <<>> /\ Accepted(Head(lines)))
  IN IF i = 0 THEN NoInfo ELSE Parsed(Head(matches[i]))

\* finalize: the paths fill in what the terminal output leaves open.
Filled(found, project, kind) ==
  [project |-> Or(found.project, project),
   target |-> Or(found.target, kind),
   config |-> found.config,
   kind |-> Or(Or(found.kind, KindFromTarget[found.target]), kind)]

Finalize(text, paths) ==
  Filled(ParseTerminal(text), ProjectFromPaths(paths), KindFromPaths(paths))

----
(* The scan of an archive.                                                 *)

\* inspect reads no entry after one of these; at "poison" a library panics.
Final == {"terminal", "corrupt", "poison"}

\* The entry the scan ends at, one past the archive when there is none.
End(archive) ==
  LET i == SelectInSeq(archive, LAMBDA e : e.entry \in Final)
  IN IF i = 0 THEN Len(archive) + 1 ELSE i

PathsOf(entries) ==
  LET named == SelectSeq(entries, LAMBDA e : e.entry = "path")
  IN SubSeq(named, 1, IF Len(named) < MaxPaths THEN Len(named) ELSE MaxPaths)

\* What inspect returns when its reader ends after n entries.
Inspect(archive, n) ==
  LET end == End(archive)
      last == IF n < end THEN [entry |-> "none"] ELSE archive[end]
  IN IF last.entry = "poison" THEN NoInfo
     ELSE Finalize(IF last.entry = "terminal" THEN last.text ELSE <<>>,
                   PathsOf(SubSeq(archive, 1, IF n < end THEN n ELSE end - 1)))

\* What Inspect may return of a body that breaks off: in between two entries, or
\* within the terminal output, of which it then has some lines.
Partial(archive) ==
  LET end == End(archive)
      cuts == IF end > Len(archive) \/ archive[end].entry # "terminal" THEN {}
              ELSE {[archive EXCEPT ![end].text = SubSeq(@, 1, m)] :
                      m \in 0..Len(archive[end].text)}
  IN {Inspect(a, n) : a \in {archive} \cup cuts, n \in 0..Len(archive)}

FromHeaders(headers) == [headers EXCEPT !.kind = KindFromTarget[headers.target]]

\* The fields of one, where it knows them, over those of the other.
Overlay(top, info) ==
  [project |-> Or(top.project, info.project), target |-> Or(top.target, info.target),
   config |-> Or(top.config, info.config), kind |-> Or(top.kind, info.kind)]

Merge(primary, fallback) ==
  [Overlay(primary, fallback) EXCEPT
     !.kind = Or(@, KindFromTarget[Or(primary.target, fallback.target)])]

Empty(info) == info.project = "" /\ info.target = "" /\ info.kind = ""

\* Label() # "": the page shows project and target, or what is known of them.
Labelled(info) == info.project # "" \/ info.target # ""

====
