------------------------------- MODULE MCTui -------------------------------
(* Bounds for TLC: two sessions of three records, a catalog that comes with   *)
(* the second record, and one text for each way a text is treated.            *)
EXTENDS Tui

CONSTANTS m1, m2, gateway

TheCommands == {"/", "/effort", "/fork", "/help", "/model", "/new", "/exit",
                "/detach", "/thinking", "/provider", "/provider select",
                "/provider use", "/alias", "/ai_model"}
TheRoster == <<Completion(Text("/help", None), TRUE),
               Completion(Text("/provider select", Empty), FALSE)>>
TheSettings == <<"/ai_model">>
TheBegins == {<<Text("/", None), Text("/help", None)>>,
              <<Text("/", None), Text("/provider select", Empty)>>,
              <<Text("/provider", None), Text("/provider select", Empty)>>}
TheWithin == {<<Text("/", None), Text("/alias", None)>>}

TheFacts(line) ==
    LET known == Len(line) >= 2
    IN  [levels |-> <<m1>>, models |-> IF known THEN <<m1>> ELSE <<>>,
         provider |-> gateway, aliases |-> IF known THEN <<"/alias">> ELSE <<>>,
         settings |-> <<>>,
         records |-> IF known THEN <<[name |-> gateway, models |-> <<m1>>, active |-> TRUE],
                                     [name |-> m2, models |-> <<m2>>, active |-> FALSE]>>
                     ELSE <<>>]

Hello == Text("hello", None)
TheTexts == {Hello, Text("/", None), Text("/new", None), Text("/fork", Empty),
             Text("/model", None), Text("/effort", Empty), Text("/detach", None)}

=============================================================================
