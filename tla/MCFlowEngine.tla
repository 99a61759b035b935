------------------------------ MODULE MCFlowEngine ------------------------------
(* Small flows for TLC to walk. *)
EXTENDS FlowEngine

Four == <<"a", "b", "c", "d">>
Stored == <<"c", "a", "d", "b">>
Plain(nodes) == [kind |-> [n \in ToSet(nodes) |-> "work"],
                 default |-> [n \in ToSet(nodes) |-> "none"],
                 limit |-> [n \in ToSet(nodes) |-> 0]]
Edge(from, handle, to) ==
  [from |-> from, to |-> to, handle |-> handle, labelled |-> FALSE]
Flow(nodes, kind, edges) ==
  [Plain(nodes) EXCEPT !.kind = kind @@ @] @@ [nodes |-> nodes, edges |-> edges]
(* A node b that routes, a node c that computes, routes or pauses, and all *)
(* the ways to join a, b, c and d by edges forward.                        *)
Joins == [ab : {"none"}, ac : {"none", ""}, ad : {"none", ""},
            bc : {"out0", "out1", ""}, bd : {"out0", "out1", ""},
            cd : {"none", "out0", "out1", ""}]
Given(choice) ==
  SelectSeq(<<Edge("b", choice.bc, "c"), Edge("a", choice.ab, "b"),
              Edge("a", choice.ac, "c"), Edge("c", choice.cd, "d"),
              Edge("b", choice.bd, "d"), Edge("a", choice.ad, "d")>>,
            LAMBDA e : e.handle # "")
Branching ==
  {Flow(nodes, ("b" :> b @@ "c" :> c), Given(choice)) :
     nodes \in {Four, Stored}, b \in {"condition", "hitl"},
     c \in {"work", "switch", "hitl", "delay"}, choice \in Joins}

(* A writer, a reviewer who may send back (button out1), and what follows. *)
Review == <<Edge("start", "none", "write"), Edge("write", "none", "review"),
            Edge("review", "out1", "write"), Edge("review", "out0", "publish"),
            Edge("review", "exit", "abandon")>>
Loop(limit, between, kinds, more) ==
  [Flow(<<"start", "write">> \o between \o <<"review", "publish", "abandon">>,
        "review" :> "hitl" @@ kinds, Review \o more)
     EXCEPT !.limit["review"] = limit]
Loops == {Loop(limit, <<>>, <<>>, <<>>) : limit \in {0, 2, 3}}
  \cup {Loop(limit, <<"aside">>, <<>>, <<Edge("start", "none", "aside")>>) : limit \in {0, 3}}
  \cup {Loop(4, <<"check">>, "check" :> kind,
             <<Edge("write", "none", "check"), Edge("check", "out0", "review")>>) :
          kind \in {"condition", "hitl"}}

(* A tool attached to the writer, an edge with an explicit condition, and  *)
(* a condition with a default path.                                        *)
WithTool == Flow(<<"start", "tool", "lone", "write">>, "tool" :> "tool" @@ "lone" :> "tool",
  <<Edge("start", "none", "write"), Edge("tool", "tool", "write"), Edge("start", "none", "lone")>>)
Split(labelled) == <<Edge("start", "none", "split"),
  [Edge("split", "out0", "left") EXCEPT !.labelled = labelled],
  [Edge("split", "out1", "right") EXCEPT !.labelled = labelled]>>
Labelled == Flow(<<"start", "split", "left", "right">>, "split" :> "condition", Split(TRUE))
WithDefault == [Flow(<<"start", "split", "left", "right">>, "split" :> "condition", Split(FALSE))
                  EXCEPT !.default["split"] = "out1"]
Odd == {WithTool, Labelled, WithDefault}

(* Graphs of at most four edges between four different nodes, stored in an *)
(* order unrelated to them: cycles, diamonds, unconnected parts, and two   *)
(* edges between the same nodes.                                           *)
Joined == <<<<"a", "b">>, <<"a", "b">>, <<"b", "c">>, <<"b", "c">>, <<"a", "c">>,
            <<"a", "d">>, <<"b", "d">>, <<"c", "d">>, <<"d", "c">>, <<"b", "a">>,
            <<"c", "a">>, <<"c", "b">>, <<"d", "a">>, <<"d", "b">>>>
Picked(chosen) ==
  LET kept == SelectSeq([k \in DOMAIN Joined |-> k], LAMBDA k : k \in chosen)
  IN  [j \in DOMAIN kept |-> Edge(Joined[kept[j]][1], "none", Joined[kept[j]][2])]
Graphs == {Flow(Stored, <<>>, Picked(chosen)) :
             chosen \in UNION {kSubset(k, DOMAIN Joined) : k \in 0..4}}

Walked == Branching \cup Loops \cup Odd \cup Graphs

(* A branch that ends in a review: the edge back from the reviewer, or the *)
(* tool of its writer, leads into it whether the branch is taken or not.   *)
OptionalReview ==
  {Flow(<<"start", "split", "write", "review", "publish">>,
        "split" :> "condition" @@ "review" :> "hitl",
        <<Edge("start", "none", "split"), Edge("split", "out0", "publish"),
          Edge("split", "out1", "write"), Edge("write", "none", "review"),
          Edge("review", "out1", "write"), Edge("review", "out0", "publish")>>),
   Flow(<<"start", "tool", "split", "write", "publish">>,
        "split" :> "condition" @@ "tool" :> "tool",
        <<Edge("start", "none", "split"), Edge("split", "out0", "publish"),
          Edge("split", "out1", "write"), Edge("tool", "tool", "write")>>)}

Defaults == {WithDefault}
================================================================================
