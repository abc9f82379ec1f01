------------------------ MODULE MCExecutionMessages ------------------------
(* Instances of ExecutionMessages for TLC: two threads of one process share  *)
(* its cache; the worker's LANGUAGE_CODE is not English.                     *)
EXTENDS ExecutionMessages, TLC

CONSTANTS p1, a1, a2

OneProcess == {p1}
Records    == {a1, a2}
Threads    == [a \in Publication |-> p1]

zh   == <<"zh">>
hant == <<"zh", "hant">>
fr   == <<"fr">>

InEnglishAndChinese == {English, hant}
Chinese == hant

Texts == {"sent", "failed", "invalid", "note"}
Number == [count |-> {"5"}]
\* "sent" is translated with a placeholder of its own, "failed" only to French.
Translations ==
    [id \in Msgid |->
       CASE id = "sent"    -> (<<>> :> Number) @@ (hant :> [count |-> {"5", "many"}])
         [] id = "failed"  -> (<<>> :> Number) @@ (hant :> [total |-> {"5"}]) @@ (fr :> Number)
         [] id = "invalid" -> (<<>> :> <<>>) @@ (zh :> <<>>)
         [] id = "note"    -> (<<>> :> <<>>)]

Nan == {"nan"}
M(c, id, p) == [code |-> c, msgid |-> id, params |-> p]
Invalid == M("kit.invalid", "invalid", None)
Note    == M(None, "note", None)
Heard   == {M("app.sent", "sent", [count |-> "many"]),
            M("app.failed", "failed", [count |-> "5"]),
            M("app.sent", "sent", [count |-> "nan"]), Note}
Messages == Heard \cup {Invalid, M("app.sent", "sent", None)}
Heards   == [a \in Publication |-> IF a = a1 THEN Heard ELSE {Note}]
Viewers  == {English, hant, <<"zh", "hant", "tw">>, fr}
=============================================================================
