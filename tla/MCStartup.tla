----------------------------- MODULE MCStartup -----------------------------
(* File systems for TLC: where the directory of the socket belongs to       *)
(* nobody yet, to root, to the service or to all, with and without another  *)
(* user's files in it; and what can be wrong with configuration and         *)
(* templates.                                                               *)
EXTENDS Startup

Somebody(u, type, m) == Made([uid |-> u, gid |-> u], type, m)

Fresh == [p \in Nodes |->
  CASE p \in {"run", "etc", "templates"} -> Somebody("root", "dir", "m755")
    [] p \in {"config", "out"} -> Somebody("root", "file", "m644")
    [] OTHER -> Absent]

ServiceDirs == {Absent, Somebody("root", "dir", "m755"),
                Somebody("www", "dir", "m755"), Somebody("root", "dir", "m777")}

Shared == [Fresh EXCEPT !["service"] = Somebody("root", "dir", "m777")]
Www == [Fresh EXCEPT !["service"] = Somebody("www", "dir", "m755")]

FileSystems ==
  {[Fresh EXCEPT !["service"] = d] : d \in ServiceDirs}
  \cup {[Shared EXCEPT !["pid"] = Somebody("dev", "file", "m640")],
        [Shared EXCEPT !["sock"] = Somebody("dev", "dir", "m755")],
        [Shared EXCEPT !["service"] = Somebody("root", "file", "m644")],
        [Www EXCEPT !["out"] = Absent],
        [Www EXCEPT !["templates"] = Somebody("root", "dir", "m744")],
        [Www EXCEPT !["config"] = Somebody("root", "file", "m640")]}

MCLayouts == {[files |-> f, sections |-> TRUE] : f \in FileSystems}
             \cup {[files |-> Www, sections |-> FALSE]}

MCDirectories == {Somebody("root", "dir", "m755")}
=============================================================================
