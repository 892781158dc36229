---- MODULE MCArtifacts ----
EXTENDS Artifacts

CONSTANTS u0, u1, u2, h1, h2

MCTarget == {"", "test", "build", "vite build", "app-e2e", "deploy"}

Headers(project, target) == FromHeaders([NoInfo EXCEPT !.project = project, !.target = target])

Path(project, kind) == [entry |-> "path", project |-> project, kind |-> kind]
Terminal(lines) == [entry |-> "terminal", text |-> lines]
Line(by, project, target) == [by |-> by, project |-> project, target |-> target, config |-> ""]
Code == [entry |-> "code"]
Corrupt == [entry |-> "corrupt"]
Poison == [entry |-> "poison"]

MCWords == [t \in {"vite build", "app-e2e", "deploy"} |->
              CASE t = "vite build" -> {"build"} [] t = "app-e2e" -> {"e2e"}
                [] OTHER -> {"deploy"}]

\* Archives whose labels come from the terminal output behind the paths, from
\* a command and the paths, or from what was read before the scan broke off.
Run == <<Path("", "build"), Terminal(<<Line("command", "", "vite build"),
                                      Line("nx run", "web", "app-e2e")>>), Code>>
Bare == <<Path("api", ""), Terminal(<<Line("nx run", "api", ""), Line("nx run", "web", "test"),
                                     Line("command", "", "deploy"), Line("command", "", "")>>)>>
Broken == <<Path("lib", "test"), Path("web", "build"), Corrupt>>
Poisoned == <<Poison, Code>>
Loose == <<Path("web", "")>>
Ended == <<Corrupt, Code>>

MCArchives == {Run, Bare, Broken, Poisoned, Loose, Ended}

Put(h, headers, archive) == [hash |-> h, headers |-> headers, archive |-> archive]

\* Two uploads race for a hash, one with a header; an upload with a header whose
\* scan breaks off beside one that breaks the pipe.
MCRequests ==
  {[u \in {u0, u1, u2} |-> IF u = u0 THEN r[1] ELSE IF u = u1 THEN r[2] ELSE r[3]] :
     r \in {<<Put(h2, Headers("", ""), Run), Put(h1, Headers("", ""), Loose),
             Put(h1, Headers("", "deploy"), Ended)>>,
           <<Put(h2, Headers("", ""), Bare), Put(h1, Headers("shop", ""), Broken),
             Put(h2, Headers("", ""), Poisoned)>>}}
====
