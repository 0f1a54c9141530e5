------------------------------- MODULE MCTurns -------------------------------
EXTENDS Turns

\* One attempt is left, or none.
Force(tool, id, onfail, attempts) ==
    [kind |-> "ForceTool", id |-> id, tool |-> tool, max |-> 2,
     onfail |-> onfail, attempts |-> attempts]
Reminder == [kind |-> "TodoReminder", id |-> 3, todos |-> FALSE,
             reminded |-> FALSE]
Plan == [kind |-> "PlanMode", id |-> 4, inspected |-> FALSE, answered |-> FALSE]
Goal == [kind |-> "GoalCompletion", id |-> 5, completed |-> FALSE]

MCStacks == {<<Goal, Force("write", 1, "Yield", 1), Plan, Reminder>>}
\* No call, one, or two of which one has children run.
MCReplies == {<<>>, <<"write">>, <<"Agent", "write">>}
MCForces == {Force("Agent", 2, "Fail", 0)}

=============================================================================
