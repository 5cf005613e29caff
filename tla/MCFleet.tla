------------------------------- MODULE MCFleet -------------------------------
(****************************************************************************)
(* Instances of Fleet for TLC: the units of the processes of a host, wired  *)
(* from small accorda.yaml documents.                                       *)
(****************************************************************************)
EXTENDS Fleet, Wiring

LOCAL Target(name, dir) == [name |-> name, dir |-> dir]
LOCAL Project(name, targets) == [name |-> name, url |-> "repo", targets |-> targets]
LOCAL Doc(name, projects) ==
  [dir |-> <<<<"srv">>, name>>, given |-> <<>>, projects |-> projects]
LOCAL Cmd(kind, doc) == [kind |-> kind, doc |-> doc]

LOCAL Api == <<"api">>
LOCAL Worker == <<"worker">>

\* Two members of a repository in which every service has a "deploy" directory.
LOCAL SameDir ==
  Doc(<<"host">>, <<Project(Api, <<Target(NoName, <<Api, <<"deploy">>>>)>>),
                    Project(Worker, <<Target(NoName, <<Worker, <<"deploy">>>>)>>)>>)

\* The same with the Compose files in the services' own directories.
LOCAL OwnDir(dir) ==
  Doc(dir, <<Project(Api, <<Target(NoName, <<Api>>)>>),
            Project(Worker, <<Target(NoName, <<Worker>>)>>)>>)

\* One project deploying one Compose file as two named targets.
LOCAL TwoTargets(dir) ==
  Doc(dir, <<Project(NoName, <<Target(<<"qa">>, <<<<"deploy">>>>),
                              Target(<<"prod">>, <<<<"deploy">>>>)>>)>>)

LOCAL Wired(commands) ==
  IF \A i \in DOMAIN commands : Accepted(commands[i].doc) THEN {FleetOf(commands)} ELSE {}

LOCAL OneTarget(dir) == Doc(dir, <<Project(NoName, <<Target(NoName, <<<<"deploy">>>>)>>)>>)

\* Processes that may share a host: members that meet on a lock, members with
\* locks of their own, two targets of one project, a second sync and a plan of
\* the project being watched, and a status read from another directory.
Disjoint ==
       Wired(<<Cmd("watch", SameDir)>>)
  \cup Wired(<<Cmd("watch", OwnDir(<<"host">>))>>)
  \cup Wired(<<Cmd("watch", TwoTargets(<<"host">>))>>)
  \cup Wired(<<Cmd("watch", OneTarget(<<"host">>)), Cmd("sync", OneTarget(<<"host">>))>>)
  \cup Wired(<<Cmd("watch", OneTarget(<<"host">>)), Cmd("plan", OneTarget(<<"host">>))>>)
  \cup Wired(<<Cmd("watch", OneTarget(<<"host">>)), Cmd("status", OneTarget(<<"home">>))>>)

\* "accorda plan" beside "sync --watch" in a project of two targets.
SharedTree == Wired(<<Cmd("watch", TwoTargets(<<"host">>)), Cmd("plan", TwoTargets(<<"host">>))>>)
=============================================================================
