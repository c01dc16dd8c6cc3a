----------------------- MODULE MCBoincProxyWorkUnit -----------------------
(* Instances of BoincProxyWorkUnit for TLC. *)
EXTENDS BoincProxyWorkUnit

Item(tag, name, list) == [tag |-> tag, name |-> name, list |-> list]
File(name) == Item("file_info", name, "")
Ref(list, name) == Item("file_ref", name, list)

\* A work unit with one input of its own, one that all work units have, the
\* file of the application and a result.
Work(input, output, result) ==
    << Item("request_delay", "", ""),
       File(input), File("tables"), File("application"), File(output),
       Item("app_version", "", ""), Ref("app", "application"),
       Ref("input", input), Ref("input", "tables"),
       Item("result", "", ""), Item("result>name", result, ""), Ref("output", output) >>

NoWork == << Item("request_delay", "", "") >>

\* The inputs have names of their own at the server and one name at the application.
TwoWorkUnitsOrNone ==
    {Work("in1", "out1", "result1"), Work("in2", "out2", "result2"), NoWork}

ServerNames == {"in1", "in2", "tables", "application", "out1", "out2"}
OpenNames_MC == [name \in ServerNames |->
    CASE name \in {"in1", "in2"} -> "in"
      [] name \in {"out1", "out2"} -> "out"
      [] OTHER -> name]
Outputs == {"out1", "out2"}

AnyFault == FaultKinds
=============================================================================
