------------------------- MODULE MCSharedProjects -------------------------
(* Two projects that share their records, or not, and use the same task name *)
(* and the same ids, and a third one without a source.  The first and the    *)
(* third have two models of that name.                                       *)
EXTENDS SharedProjects

CONSTANTS p1, p2, p3, A, B, C, D, E, s1, s2, s3

Projects   == {p1, p2, p3}
Sources    == [p \in Project |-> IF p = p3 THEN None ELSE p]
Queues     == [p \in Project |-> p]
Entry(t, a, q) == [task |-> t, args |-> a, queue |-> q]
Static     == [p \in Project |-> <<Entry("cleanup", <<>>, p)>>
                                   \o (IF p # p1 THEN <<>> ELSE <<Entry("report", <<1>>, p),
                                                                 Entry("report", <<2>>, None)>>)]
Models     == {A, B, C, D, E}
Apps       == [m \in Model |-> CASE m \in {A, B} -> p1 [] m = C -> p2 [] m \in {D, E} -> p3]
Names      == [m \in Model |-> "report"]
Ranks      == [m \in Model |-> CASE m = B -> 1 [] m = A -> 2 [] m = C -> 3 [] m = D -> 4 [] m = E -> 5]
Explicit   == [p \in Project |-> [t \in {"report"} |-> IF p = p1 THEN A ELSE None]]
Rows       == [s \in Scheduler |-> CASE s = s1 -> A [] s = s2 -> C [] s = s3 -> B]
Keys       == [s \in Scheduler |-> 1]
Orders     == [s \in Scheduler |-> CASE s = s1 -> 1 [] s = s2 -> 2 [] s = s3 -> 3]
Schedulers == {s1, s2, s3}
OnlyS1     == {s1}
OnlyS3     == {s3}
Sharing    == {p1, p2}

Plain == [name |-> None, task |-> None, args |-> <<>>, default |-> FALSE, queue |-> None]
Options ==
    {[Plain EXCEPT !.name = s] : s \in Scheduler}
      \cup {[Plain EXCEPT !.task = "report", !.args = a] : a \in {<<>>, <<1>>, <<2>>, Unreadable}}
      \cup {[Plain EXCEPT !.task = "cleanup"], [Plain EXCEPT !.task = "unknown"],
            [Plain EXCEPT !.name = s2, !.queue = p1],
            [Plain EXCEPT !.task = "report", !.args = <<2>>, !.default = TRUE]}
=============================================================================
