--------------------------- MODULE MCDialogEngine ---------------------------
(* Three bots for DialogEngine: one with a skill, a subflow that may lead to *)
(* a node that does not exist, an error flow and a timeout flow; one whose   *)
(* nodes loop and which has no error flow, but a timeout node; one of        *)
(* workflows.                                                                *)
EXTENDS DialogEngine, TLC

To(kind, to) == [kind |-> kind, to |-> to, sure |-> TRUE]
Perhaps(kind, to) == [kind |-> kind, to |-> to, sure |-> FALSE]
Node(enter, waits, receive, next) ==
  [enter |-> enter, waits |-> waits, receive |-> receive, next |-> next, calls |-> "", ends |-> FALSE]

Main == "main.flow.json"
Error == "error.flow.json"
Skill == "skills/choice.flow.json"
Sub == "sub.flow.json"

Plain(flows) == [f \in flows |-> ""]

SkillBot ==
  [ndu |-> FALSE, under |-> {},
   parent |-> Plain({Main, Error, Skill, Sub, TimeoutFlow}),
   timeout |-> Plain({Main, Error, Skill, Sub, TimeoutFlow}),
   start |-> (Main :> "entry" @@ Error :> "entry" @@ Skill :> "pick" @@ Sub :> "begin"
              @@ TimeoutFlow :> "ask"),
   catchAll |-> (Main :> <<Perhaps("node", "entry")>> @@ Error :> <<>> @@ Skill :> <<>>
                 @@ Sub :> <<>> @@ TimeoutFlow :> <<>>),
   node |-> (
     <<Main, "entry">> :> Node(<<"action">>, TRUE, <<"say">>,
                               <<Perhaps("END", ""), To("node", "skill")>>) @@
     <<Main, "skill">> :> [Node(<<>>, FALSE, <<>>,
                                <<Perhaps("flow", Sub), Perhaps("none", "")>>)
                             EXCEPT !.calls = Skill] @@
     <<Skill, "pick">> :> Node(<<"say">>, TRUE, <<>>,
                               <<Perhaps("reenter", ""), To("return", "")>>) @@
     <<Sub, "begin">> :> Node(<<>>, FALSE, <<>>,
                              <<Perhaps("return", "entry"), To("node", "gone")>>) @@
     <<TimeoutFlow, "ask">> :> Node(<<>>, TRUE, <<>>, <<Perhaps("END", "")>>) @@
     <<Error, "entry">> :> Node(<<"say">>, FALSE, <<>>, <<>>))]

LoopBot ==
  [ndu |-> FALSE, under |-> {}, parent |-> Plain({Main, Sub}), timeout |-> (Main :> "again" @@ Sub :> "end"),
   start |-> (Main :> "entry" @@ Sub :> "begin"),
   catchAll |-> (Main :> <<>> @@ Sub :> <<Perhaps("node", "gone")>>),
   node |-> (
     <<Main, "entry">> :> Node(<<"say">>, FALSE, <<>>,
                               <<Perhaps("flow", Sub), To("node", "again")>>) @@
     <<Main, "again">> :> Node(<<>>, FALSE, <<>>, <<To("node", "entry")>>) @@
     <<Sub, "end">> :> Node(<<"say">>, FALSE, <<>>, <<To("END", "")>>) @@
     <<Sub, "begin">> :> Node(<<"action">>, TRUE, <<>>, <<To("return", "")>>))]

Order == "order.flow.json"
Pay == "order/pay.flow.json"
Lost == "misunderstood.flow.json"

WorkflowBot ==
  [ndu |-> TRUE, under |-> {<<Pay, Order>>},
   parent |-> (Order :> "" @@ Lost :> "" @@ Pay :> Order), timeout |-> Plain({Order, Lost, Pay}),
   start |-> (Order :> "entry" @@ Lost :> "entry" @@ Pay :> "entry"),
   catchAll |-> (Order :> <<>> @@ Lost :> <<>> @@ Pay :> <<>>),
   node |-> (
     <<Lost, "entry">> :> Node(<<>>, FALSE, <<>>, <<Perhaps("flow", Order)>>) @@
     <<Order, "entry">> :> Node(<<>>, TRUE, <<>>, <<Perhaps("flow", Pay), To("flow", Lost)>>) @@
     <<Pay, "entry">> :> Node(<<"action">>, TRUE, <<>>, <<Perhaps("return", ""), To("node", "paid")>>) @@
     <<Pay, "paid">> :> [Node(<<>>, FALSE, <<>>, <<To("return", "")>>) EXCEPT !.ends = TRUE])]

MCBots == {SkillBot, LoopBot, WorkflowBot}
=============================================================================
