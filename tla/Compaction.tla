----------------------------- MODULE Compaction -----------------------------
(***************************************************************************)
(* What one turn sends to the model (omp-control/src/compaction.rs and the *)
(* request derived from it in host.rs).  The transcript only grows; what a *)
(* context window cannot hold is left out of the request and stands behind *)
(* a summary node.  Nodes are journaled, so they outlive a crash; the      *)
(* reductions of what is still sent are decided again for every request.   *)
(*                                                                         *)
(* Texts are counted in tokens.  The costs of the code are parameters, so  *)
(* that small transcripts meet every threshold.                            *)
(***************************************************************************)
EXTENDS Picking, Integers, FiniteSets, SequencesExt

CONSTANTS
  MaxEntries,      \* bound: elements of the transcript
  MaxSwitches,     \* bound: changes of the model's window
  Texts,           \* tokens a text may have
  Windows,         \* context windows a model may advertise, 0 for none
  Reserve,         \* tokens kept for the completion
  Overhead,        \* tokens of the tool roster
  Keep,            \* DEFAULT_KEEP_RECENT_TURNS
  MaxRoots,        \* DEFAULT_MAX_ROOT_NODES
  FanIn,           \* CONDENSE_FAN_IN
  InventoryLine,   \* INVENTORY_LINE_TOKENS
  NodeHeader,      \* NODE_HEADER_TOKENS
  FoldHeader,      \* tokens of the header render_fold writes
  Reduced,         \* TRUNCATED_BYTES
  OmitMin,         \* MIN_OMITTED_ARGUMENT_TOKENS
  NodeLimit,       \* MAX_NODE_TEXT_BYTES
  CallCost,        \* the fixed cost of a tool call
  Marker,          \* the object sent for omitted arguments
  Line             \* tokens of one line of an inventory

ASSUME CostsAssumption ==
  /\ {MaxEntries, MaxSwitches, Reserve, Overhead, Keep, MaxRoots, InventoryLine,
      NodeHeader, FoldHeader, Reduced, OmitMin, CallCost, Marker, Line} \subseteq Nat
  /\ Texts \subseteq Nat /\ Windows \subseteq Nat
  /\ FanIn \in Nat /\ FanIn >= 2
  /\ NodeLimit \in Nat \ {0}

VARIABLES
  body,        \* the elements of the transcript, oldest first
  dag,         \* the summary nodes in the order of their creation
  unreadable,  \* a node was written that this build cannot decode
  window,      \* ai_context_length
  switches,
  stage,       \* where the plan of the request stands
  capped,      \* elements whose text the plan caps
  omitted      \* calls whose arguments the plan omits

compactionVars == <<body, dag, unreadable, window, switches, stage, capped, omitted>>

Roles == {"user", "assistant", "tool_call", "instructions"}
Stages == {"none", "elide", "condense", "reduce", "cap", "send"}
Entry == [role : Roles, args : Nat, text : Nat, pinned : BOOLEAN, open : BOOLEAN]
Node == [covered : SUBSET Nat, children : SUBSET Nat, text : Nat]

-----------------------------------------------------------------------------
(* The budget. *)

AtLeast(n, low) == IF n < low THEN low ELSE n
AtMost(n, high) == IF n > high THEN high ELSE n

\* No budget for an unknown window, or when too little of it is left.
Bounded == window > Reserve /\ window - Reserve >= window \div 4

\* Four fifths of the window, never above what the reserve leaves of it.
Budget ==
  LET hard == window - Reserve
  IN  [hard |-> hard, soft |-> AtLeast(AtMost((4 * window) \div 5, hard), 1)]
Target == AtLeast(Budget.soft \div 2, 1)

-----------------------------------------------------------------------------
(* The transcript as the planner sees it. *)

\* Output that was interrupted is no completed turn and is never sent.
Visible == {i \in DOMAIN body : ~(body[i].role = "assistant" /\ body[i].open)}
InFlight(e) == e.role = "instructions" \/ (e.role = "tool_call" /\ e.open)
Eligible(i) == ~body[i].pinned /\ ~InFlight(body[i])
Tokens(i) ==
  body[i].args + body[i].text + (IF body[i].role = "tool_call" THEN CallCost ELSE 0)

UserTurns == {i \in DOMAIN body : body[i].role = "user"}

\* The elements before the last Keep turns.
RecentTurnBoundary ==
  LET kept == AtLeast(Keep, 1)
      first == {i \in UserTurns : Cardinality({j \in UserTurns : j >= i}) = kept}
  IN  IF Cardinality(UserTurns) <= kept THEN {}
      ELSE {i \in Visible : \A j \in first : i < j}

\* The elements before the turn in flight.
FinalTurnBoundary ==
  IF UserTurns = {} THEN {}
  ELSE {i \in Visible : \E j \in UserTurns : i < j}

-----------------------------------------------------------------------------
(* The summary nodes. *)

Roots == {n \in DOMAIN dag : \A p \in DOMAIN dag : n \notin dag[p].children}
\* Mutant: only what the roots themselves cover.
CoveredByRoots == UNION {dag[n].covered : n \in Roots}
Covered == UNION {dag[n].covered : n \in DOMAIN dag}

\* The nodes a walk from a root to children visits: they are in every set that
\* holds the root, and the children of each of its members.
Closed(nodes, S) == \A n \in S : nodes[n].children \subseteq S
Below(nodes, root) ==
  {n \in DOMAIN nodes :
     \A S \in SUBSET DOMAIN nodes : root \in S /\ Closed(nodes, S) => n \in S}

\* Everything a node stands for, by way of the nodes it condenses.
ExpandCovered(root) == UNION {dag[n].covered : n \in Below(dag, root)}

\* What some of the elements of a sequence cost together, given by position.
SumOver(s, S, cost(_)) ==
  LET amounts == [i \in DOMAIN s |-> IF i \in S THEN cost(i) ELSE 0]
  IN  Sums(amounts)[Len(s)]
FoldTokens(n) == dag[n].text + NodeHeader

\* What the plan believes the request costs.
\* Mutant: a capped text costs nothing.
EntryCostFree(i) ==
  Tokens(i)
    - (IF i \in omitted THEN body[i].args ELSE 0)
    - (IF i \in capped THEN body[i].text ELSE 0)
EntryCost(i) ==
  Tokens(i)
    - (IF i \in omitted THEN body[i].args ELSE 0)
    - (IF i \in capped THEN AtLeast(body[i].text - Reduced, 0) ELSE 0)
ProjectedTokens ==
  Overhead + SumOver(body, Visible \ Covered, EntryCost) + SumOver(dag, Roots, FoldTokens)

-----------------------------------------------------------------------------
(* The stages of a plan. *)

\* Elements worth more than their line of the inventory, oldest first, until
\* the target is met.
Gain(i) == Tokens(i) - (InventoryLine + NodeHeader)
SoftPass(projected) ==
  LET worth == {i \in RecentTurnBoundary \ Covered : Eligible(i) /\ Gain(i) > 0}
  IN  IF projected < Budget.soft THEN {}
      ELSE {i \in worth : projected - SumOver(body, {j \in worth : j < i}, Gain) > Target}

\* The soft bound takes what pays, the hard bound all that completed turns hold.
\* What is left is reckoned from the pass before it is rendered.
Elision(projected, soft) ==
  IF projected - SumOver(body, soft, Gain) > Budget.hard
  THEN soft \cup {i \in FinalTurnBoundary : Eligible(i) /\ i \notin Covered}
  ELSE soft

\* A heading and a line for each of n elements or nodes.
Inventory(n) == Line * (n + 1)

\* One node for all that this plan leaves out; the new node is the last one.
CommitElision(chosen) ==
  dag' = IF chosen = {} THEN dag
         ELSE Append(dag, [covered |-> chosen, children |-> {},
                           text |-> Inventory(Cardinality(chosen))])

\* The first roots in the order of their creation.
FoldSetOf(n) == {r \in Roots : Cardinality({q \in Roots : q <= r}) <= n}
CondensedNode ==
  LET children == FoldSetOf(FanIn)
  IN  [covered |-> {}, children |-> children,
       text |-> Inventory(Cardinality(children))]

TruncationRank(i) ==
  CASE body[i].role = "tool_call" -> 0
    [] body[i].role = "assistant" -> 1
    [] OTHER -> 2

\* The next reduction of an element with the tokens it saves.
NextReduction(i) ==
  LET text == IF i \in capped THEN AtMost(body[i].text, Reduced) ELSE body[i].text
  IN  IF /\ body[i].role = "tool_call" /\ i \notin omitted
         /\ body[i].args > OmitMin /\ body[i].args > text
      THEN [kind |-> "omit", saves |-> body[i].args]
      ELSE IF i \notin capped /\ body[i].text > Reduced
      THEN [kind |-> "cap", saves |-> body[i].text - Reduced]
      ELSE [kind |-> "none", saves |-> 0]

Reducible ==
  {i \in Visible \ Covered :
     body[i].role # "instructions" /\ NextReduction(i).kind # "none"}

\* Tool output first, then the assistant's text, then the user's words; of one
\* rank the largest saving, of equal savings the oldest element.
ReducedBefore(i, j) ==
  LET a == NextReduction(i).saves
      b == NextReduction(j).saves
  IN  \/ TruncationRank(i) < TruncationRank(j)
      \/ TruncationRank(i) = TruncationRank(j) /\ (a > b \/ (a = b /\ i <= j))

LongRoots == {n \in Roots : dag[n].text > NodeLimit}
\* Mutant: the marker comes on top of the limit.
CapNodeTextLong(text) == AtMost(text, NodeLimit) + 1
CapNodeText(text) == AtMost(text, NodeLimit)

-----------------------------------------------------------------------------
CompactionInit ==
  /\ body = <<>> /\ dag = <<>>
  /\ unreadable = FALSE
  /\ window \in Windows /\ switches = 0
  /\ stage = "none"
  /\ capped = {} /\ omitted = {}

UnchangedPlan == UNCHANGED <<dag, unreadable, window, switches, stage, capped, omitted>>
Add(entry) == Len(body) < MaxEntries /\ body' = Append(body, entry)
Text(role, text, pinned) ==
  [role |-> role, args |-> 0, text |-> text, pinned |-> pinned, open |-> FALSE]

\* A new turn.  An attribute of the element may pin it.
Say(text, pinned) ==
  /\ stage = "none"
  /\ Add(Text("user", text, pinned))
  /\ UnchangedPlan

Instruct(text) ==
  /\ stage = "none" /\ body # <<>>
  /\ Add(Text("instructions", text, FALSE))
  /\ UnchangedPlan

\* The model calls a tool after its text.
Call(args) ==
  /\ stage = "none" /\ body # <<>>
  /\ \/ Last(body).role = "assistant" /\ ~Last(body).open
     \/ Last(body).role = "tool_call" /\ Last(body).open
  /\ Add([role |-> "tool_call", args |-> args, text |-> 0, pinned |-> FALSE, open |-> TRUE])
  /\ UnchangedPlan

\* A call of the turn in flight gets its result.
Answer(i, text) ==
  /\ stage = "none"
  /\ i \in DOMAIN body /\ i \notin FinalTurnBoundary
  /\ body[i].role = "tool_call" /\ body[i].open
  /\ body' = [body EXCEPT ![i].text = text, ![i].open = FALSE]
  /\ UnchangedPlan

\* Another model, with another window or none.
SwitchModel(w) ==
  /\ stage = "none" /\ switches < MaxSwitches /\ w # window
  /\ window' = w /\ switches' = switches + 1
  /\ UNCHANGED <<body, dag, unreadable, stage, capped, omitted>>

\* A newer build opened the journal and wrote a node of its own.
ForeignNode ==
  /\ stage = "none" /\ ~unreadable /\ body # <<>>
  /\ unreadable' = TRUE
  /\ UNCHANGED <<body, dag, window, switches, stage, capped, omitted>>

\* A request is due: the turn in flight has no open call and no final answer.
\* Without a window, or with a node it cannot read, the plan changes nothing.
PlanCompaction ==
  /\ stage = "none" /\ body # <<>>
  /\ Last(body).role # "assistant"
  /\ \A i \in DOMAIN body :
       (i \notin FinalTurnBoundary /\ body[i].role = "tool_call") => ~body[i].open
  /\ stage' = IF Bounded /\ ~unreadable THEN "elide" ELSE "send"
  /\ capped' = {} /\ omitted' = {}
  /\ UNCHANGED <<body, dag, unreadable, window, switches>>

Elide ==
  /\ stage = "elide"
  /\ \E projected \in {ProjectedTokens} :
       \E soft \in {SoftPass(projected)} : CommitElision(Elision(projected, soft))
  /\ stage' = "condense"
  /\ UNCHANGED <<body, unreadable, window, switches, capped, omitted>>

\* The roots in excess are condensed, the first FanIn of them at a time.
Condense ==
  /\ stage = "condense"
  /\ IF Cardinality(Roots) > AtLeast(MaxRoots, 1)
     THEN dag' = Append(dag, CondensedNode) /\ UNCHANGED stage
     ELSE stage' = "reduce" /\ UNCHANGED dag
  /\ UNCHANGED <<body, unreadable, window, switches, capped, omitted>>

Reduce ==
  /\ stage = "reduce"
  /\ IF ProjectedTokens > Budget.hard /\ Reducible # {}
     THEN LET i == CHOOSE i \in Reducible : \A j \in Reducible : ReducedBefore(i, j)
          IN  /\ IF NextReduction(i).kind = "omit"
                 THEN omitted' = omitted \cup {i} /\ UNCHANGED capped
                 ELSE capped' = capped \cup {i} /\ UNCHANGED omitted
              /\ UNCHANGED stage
     ELSE stage' = "cap" /\ UNCHANGED <<capped, omitted>>
  /\ UNCHANGED <<body, dag, unreadable, window, switches>>

\* Inventories shrink last: what they list stays expandable.
CapRoots ==
  /\ stage = "cap"
  /\ IF ProjectedTokens > Budget.hard /\ LongRoots # {}
     THEN LET n == CHOOSE n \in LongRoots : \A m \in LongRoots : n <= m
          IN  dag' = [dag EXCEPT ![n].text = CapNodeText(@)] /\ UNCHANGED stage
     ELSE stage' = "send" /\ UNCHANGED dag
  /\ UNCHANGED <<body, unreadable, window, switches, capped, omitted>>

\* The reply to the request, complete or interrupted.
Reply(text, done) ==
  /\ stage = "send"
  /\ Add([Text("assistant", text, FALSE) EXCEPT !.open = ~done])
  /\ stage' = "none" /\ capped' = {} /\ omitted' = {}
  /\ UNCHANGED <<dag, unreadable, window, switches>>

\* The process dies, an append is refused or the provider fails: the nodes
\* written so far stay.
Abort ==
  /\ stage # "none"
  /\ stage' = "none" /\ capped' = {} /\ omitted' = {}
  /\ UNCHANGED <<body, dag, unreadable, window, switches>>

Plan == Elide \/ Condense \/ Reduce \/ CapRoots

CompactionNext ==
  \/ \E t \in Texts, p \in BOOLEAN : Say(t, p)
  \/ \E t \in Texts : Instruct(t) \/ Call(t)
  \/ \E i \in DOMAIN body, t \in Texts : Answer(i, t)
  \/ \E w \in Windows : SwitchModel(w)
  \/ ForeignNode
  \/ PlanCompaction
  \/ Elide
  \/ Condense
  \/ Reduce
  \/ CapRoots
  \/ \E t \in Texts, d \in BOOLEAN : Reply(t, d)
  \/ Abort

CompactionSpec == CompactionInit /\ [][CompactionNext]_compactionVars

\* A plan is one call of a function: once begun it runs on.
FairSpec == CompactionSpec /\ WF_compactionVars(Plan)

-----------------------------------------------------------------------------
(* What derive_inference_request sends. *)

Folded == Bounded
LeftOut == IF Bounded THEN Covered ELSE {}
ProjectText(i) == IF i \in capped THEN AtMost(body[i].text, Reduced) ELSE body[i].text
MessageCost(i) ==
  IF body[i].role = "instructions" THEN body[i].text
  ELSE IF body[i].role # "tool_call" THEN ProjectText(i)
  ELSE CallCost + (IF i \in omitted THEN Marker ELSE body[i].args)
         + (IF body[i].open THEN 0 ELSE ProjectText(i))
FoldCost(n) == dag[n].text + FoldHeader
RequestCost ==
  Overhead + SumOver(body, Visible \ LeftOut, MessageCost)
    + (IF Folded THEN SumOver(dag, Roots, FoldCost) ELSE 0)

-----------------------------------------------------------------------------
(* The properties. *)

\* The variables stay within their types.
CompactionTypeOK ==
  /\ body \in Seq(Entry) /\ dag \in Seq(Node)
  /\ unreadable \in BOOLEAN
  /\ window \in Windows /\ switches \in 0..MaxSwitches
  /\ stage \in Stages
  /\ capped \in SUBSET DOMAIN body /\ omitted \in SUBSET DOMAIN body

\* Compaction loses nothing.  What it leaves out belongs to completed turns, is
\* no instruction, not pinned and no call without a result ("Nothing ever elides
\* pinned instructions or the turn in flight"), and is reached from exactly one
\* of the folds that stand in the request, so that Read summary://<id> of that
\* fold finds the original: after condensing, when a crash came between two
\* nodes, and when a model without a window was asked in between.
NothingLost ==
  /\ CompactionTypeOK
  /\ \A i \in Covered : i \in FinalTurnBoundary /\ Eligible(i)
  /\ \A i \in Visible :
       Cardinality({r \in Roots : i \in ExpandCovered(r)}) = (IF i \in Covered THEN 1 ELSE 0)

\* What the request holds and the planner does not count: the markers sent for
\* omitted arguments, and by how much the header of a fold exceeds its constant.
Uncounted ==
  Marker * Cardinality(omitted)
    + AtLeast(FoldHeader - NodeHeader, 0) * Cardinality(Roots)

\* A planned request fits into what the window leaves, but for what the planner
\* does not count of each reduction and each fold; if it does not fit, every kept
\* element was reduced and every inventory capped.
FitsOrExhausted ==
  (stage = "send" /\ Bounded /\ ~unreadable) =>
    \/ RequestCost <= Budget.hard + Uncounted
    \/ Reducible = {} /\ LongRoots = {}

\* Every plan ends: "Every stage makes progress or the loop stops, so plan()
\* always terminates".
PlanEnds == (stage # "none") ~> (stage \in {"none", "send"})

=============================================================================
