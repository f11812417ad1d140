-------------------------- MODULE LanguageCompiler --------------------------
(***************************************************************************)
(* The compiler of drawn dialog flows, language_compiler/compiler_xml.py,  *)
(* and the dialog that DMKit has by the policies it writes.                *)
(*                                                                         *)
(* The compiler numbers the bot cells that have no STATE line, connects    *)
(* the cells in the order of its dict of arrows, which in Python 2 is any  *)
(* order, and writes one policy for each arrow into an ellipse, triggered  *)
(* by the state of the cell it comes from.  DMKit selects among the        *)
(* policies of an intent as in PolicySelection, sets all parameters of the *)
(* policy in order and gives the first output whose assertions hold, as in *)
(* PolicyOutput, of which this uses assertions that compare two values.    *)
(* The context of the session is that of DialogSession, where no output    *)
(* has entries of its own.                                                 *)
(***************************************************************************)
EXTENDS DrawnCharts

CONSTANTS
    Turns, Fallback, NoReply,  \* as in DialogChart
    Numbered                   \* the states "001", "002", ...

ASSUME TurnsAssumption ==
    Turns # {} /\ \A t \in Turns : t.world \in [Source -> Text]

\* There are numbers for all cells, and no STATE line is one of them.
ASSUME NumbersAssumption ==
    /\ Numbered \in Seq(State) /\ IsInjective(Numbered)
    /\ ToSet(Numbered) \intersect DOMAIN Template = {}
    /\ \A c \in Charts :
        /\ Len(c.cells) <= Len(Numbered)
        /\ \A i \in DOMAIN c.cells : c.cells[i].state \notin ToSet(Numbered)

VARIABLES
    chart,    \* the drawing
    order,    \* the arrows, in the order of the dict
    session,  \* the state of DMKit's session
    context,  \* its context, with the names of the parameters it sets
    turn, pc,
    reply     \* the bot cell whose output was given and the values in it

vars == <<chart, order, session, context, turn, pc, reply>>

Init ==
    /\ chart \in Charts
    /\ order \in SetToSeqs(chart.arrows)
    /\ session = NoState
    /\ context = <<>>
    /\ turn = CHOOSE t \in Turns : TRUE
    /\ pc = "user"
    /\ reply = NoReply
-----------------------------------------------------------------------------
(* The compiler.                                                           *)
Cell(c) == chart.cells[c]
CellSeq == [c \in DOMAIN chart.cells |-> c]

\* Bot cells without a STATE line up to c, in the order of the file.
Unnamed(c) ==
    {b \in 1..c : Cell(b).kind = Server /\ Cell(b).state = NoState}

\* The state of a cell: empty for ellipses, rhombi and the false initial node.
StateOf(c) ==
    IF c = Nowhere \/ Cell(c).kind # Server THEN NoState
    ELSE IF Cell(c).state # NoState THEN Cell(c).state
    ELSE Numbered[Cardinality(Unnamed(c))]

\* The elements of a list that are in S, in their order.
Kept(s, S) == FlattenSeq([i \in DOMAIN s |-> IF s[i] \in S THEN <<s[i]>> ELSE <<>>])

ToNodes(c) == Kept(order, ArrowsFrom(chart, c))
FromNodes(c) == Kept(order, {a \in chart.arrows : a.target = c})

\* Mutant: the state of the STATE line, not the number
OutputToUnnumbered(b, assertions) ==
    [assertions |-> assertions, state |-> Cell(b).state, cell |-> b]

\* An output that goes to bot cell b: its text and the state it sets, which is
\* the STATE line as it stands if there is one.
OutputTo(b, assertions) ==
    [assertions |-> assertions, state |-> StateOf(b), cell |-> b]

\* Mutant: the alternatives of || become the assertions of one output
OutputsOfArrowJoined(a) == <<OutputTo(a.target, a.condition.atoms)>>

\* An arrow out of a rhombus: && gives several assertions, || several outputs.
OutputsOfArrow(a) ==
    LET atoms == a.condition.atoms
    IN  IF a.condition.op = "or"
        THEN [i \in DOMAIN atoms |-> OutputTo(a.target, <<atoms[i]>>)]
        ELSE <<OutputTo(a.target, atoms)>>

\* The parameters of a bot cell are added to those of the rhombus and of the
\* bot cells before it, unless the same one is there.
MergeParams(params, others) ==
    params \o FlattenSeq([j \in DOMAIN others |->
                IF \/ others[j] \in ToSet(params)
                   \/ \E i \in 1..(j - 1) : others[i] = others[j]
                THEN <<>> ELSE <<others[j]>>])

\* What follows an ellipse: only its first arrow counts.
ParamsAfter(e) ==
    LET target == ToNodes(e)[1].target
        branches == ToNodes(target)
    IN  IF ToNodes(e) = <<>> \/ Cell(target).kind = Customer THEN <<>>
        ELSE IF Cell(target).kind = Server THEN Cell(target).params
        ELSE MergeParams(Cell(target).params,
                FlattenSeq([k \in DOMAIN branches |-> Cell(branches[k].target).params]))

OutputsAfter(e) ==
    LET target == ToNodes(e)[1].target
        branches == ToNodes(target)
    IN  IF ToNodes(e) = <<>> \/ Cell(target).kind = Customer THEN <<>>
        ELSE IF Cell(target).kind = Server THEN <<OutputTo(target, <<>>)>>
        ELSE FlattenSeq([k \in DOMAIN branches |-> OutputsOfArrow(branches[k])])

\* The policies of an ellipse, one for each arrow into it.
PoliciesOf(e) ==
    LET arrows == FromNodes(e)
        params == ParamsAfter(e)
        outputs == OutputsAfter(e)
    IN  [k \in DOMAIN arrows |->
            [intent |-> Cell(e).intent, slots |-> Cell(e).slots,
             state |-> StateOf(arrows[k].source),
             params |-> params, outputs |-> outputs]]

\* The list that is written to the JSON file: ellipse by ellipse.
Policies ==
    LET ellipses == Kept(CellSeq, {c \in DOMAIN chart.cells : Cell(c).kind = Customer})
    IN  FlattenSeq([k \in DOMAIN ellipses |-> PoliciesOf(ellipses[k])])
-----------------------------------------------------------------------------
(* The dialog.                                                             *)
Say(t) ==
    /\ pc = "user"
    /\ turn' = t
    /\ pc' = "bot"
    /\ UNCHANGED <<chart, order, session, context, reply>>

\* The policies of an intent.
Candidates(intent) ==
    LET policies == Policies
    IN  Kept(policies, {p \in ToSet(policies) : p.intent = intent})

\* The policy that DMKit selects among them, if any fits.
SelectedFor(intent) ==
    LET candidates == Candidates(intent)
    IN  {candidates[i] : i \in {k \in DOMAIN candidates :
                                  IsBestAt(candidates, k, session, turn.slots)}}

\* Mutant: no second lookup
SelectedNoFallback == SelectedFor(turn.intent)

\* By the intent that the user's words have, or else by the fallback intent.
Selected ==
    IF SelectedFor(turn.intent) # {} THEN SelectedFor(turn.intent)
    ELSE SelectedFor(Fallback)

ValueOf(param) ==
    IF param.source = SessionState THEN session ELSE turn.world[param.source]

\* The parameters from the session, and those of a policy in order: the last
\* one of a name counts.
Values(params) ==
    [n \in Names(params) \union DOMAIN context |->
        IF n \in Names(params)
        THEN ValueOf(params[Max({i \in DOMAIN params : params[i].name = n})])
        ELSE context[n]]

Holds(output, values) ==
    \A i \in DOMAIN output.assertions :
        LET assertion == output.assertions[i]
        IN  /\ assertion.name \in DOMAIN values
            /\ values[assertion.name] = assertion.value

\* The output of a policy: the first that holds.
FirstOutput(policy, k) ==
    /\ k \in DOMAIN policy.outputs
    /\ Holds(policy.outputs[k], Values(policy.params))
    /\ \A j \in 1..(k - 1) : ~ Holds(policy.outputs[j], Values(policy.params))

\* All templates in an output's text and state can be resolved.
CanBeFilled(output, values) ==
    Cell(output.cell).shows \union NamesIn(output.state) \subseteq DOMAIN values

\* The selected policy has an output: the templates in its text and in the
\* state it sets are resolved, and the parameters of the context stored.
Answer ==
    /\ pc = "bot"
    /\ \E policy \in Selected : \E k \in DOMAIN policy.outputs :
        LET output == policy.outputs[k]
            values == Values(policy.params)
        IN  /\ FirstOutput(policy, k)
            /\ CanBeFilled(output, values)
            /\ session' = Resolved(output.state, values)
            /\ context' = ContextAfter(values)
            /\ reply' = [cell |-> output.cell,
                         values |-> [n \in Cell(output.cell).shows |-> values[n]]]
    /\ pc' = "user"
    /\ UNCHANGED <<chart, order, turn>>

\* No policy fits, or no output of the selected one holds, or the first that
\* does cannot be filled: the session stays as it is.
NoAnswer ==
    /\ pc = "bot"
    /\ \A policy \in Selected : \A k \in DOMAIN policy.outputs :
        FirstOutput(policy, k) => ~ CanBeFilled(policy.outputs[k], Values(policy.params))
    /\ reply' = NoReply
    /\ pc' = "user"
    /\ UNCHANGED <<chart, order, session, context, turn>>

Next == Answer \/ NoAnswer \/ \E t \in Turns : Say(t)

Spec == Init /\ [][Next]_vars
-----------------------------------------------------------------------------
BotCells == {c \in DOMAIN chart.cells : Cell(c).kind = Server}
BotStates == {StateOf(c) : c \in BotCells}

\* Types: the session holds texts, and every policy is for the state of some
\* bot cell or for any.  The state of the session is that of the bot cell that
\* answered last, unless its STATE line is a template.
TypeOK ==
    /\ chart \in Charts /\ order \in SetToSeqs(chart.arrows)
    /\ turn \in Turns /\ pc \in {"user", "bot"}
    /\ session \in Text
    /\ DOMAIN context \subseteq SessionNames
    /\ \A n \in DOMAIN context : context[n] \in Text
    /\ reply # NoReply =>
        /\ reply.cell \in BotCells
        /\ NamesIn(StateOf(reply.cell)) = {} => session = StateOf(reply.cell)
    /\ \A policy \in ToSet(Policies) : policy.state \in BotStates \union {NoState}

\* docs/visual_tool.md: the dialog by the compiled policies follows the chart,
\* whatever order the compiler has met the arrows in: every answer is one that
\* the chart has, the dialog goes on from the cell that gave it or from the one
\* whose state that cell's STATE line names, and there is an answer wherever
\* the chart has one.
Chart == INSTANCE DialogChart
            WITH label <- [c \in BotCells |-> StateOf(c)], at <- session, kept <- context

FollowsChart == Chart!Spec
=============================================================================
