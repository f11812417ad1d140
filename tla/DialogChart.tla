----------------------------- MODULE DialogChart -----------------------------
(***************************************************************************)
(* A dialog flow as it is drawn: what the chart's author expects of it     *)
(* (docs/visual_tool.md 19-72).  The dialog is at a bot cell, or at none.  *)
(* From there it follows an arrow to an ellipse that what the user said    *)
(* agrees with, and on to the next bot cell, at a rhombus by an arrow      *)
(* whose condition is true, and there it goes on: or from the cell with    *)
(* the state that the cell's STATE line names.  An ellipse of the intent   *)
(* dmkit_intent_fallback (docs/tutorial.md 59) is taken if no other can    *)
(* be.  LanguageCompiler implements this.                                  *)
(***************************************************************************)
EXTENDS DrawnCharts

CONSTANTS
    Turns,       \* what a user may say: intent, slot keys, value by source
    Fallback,    \* dmkit_intent_fallback
    NoReply      \* the bot does not answer

VARIABLES
    chart,  \* the drawing
    label,  \* the state of each bot cell
    at,     \* the state the dialog is in
    kept,   \* the values kept from the turns before, by name
    turn,   \* what the user has said
    pc,     \* "user" or "bot", whose turn it is
    reply   \* the bot cell that answered and the values it showed, or NoReply

chartVars == <<chart, label, at, kept, turn, pc, reply>>

\* A cell has the state of its STATE line, or one of its own.
Labellings ==
    LET bots == {c \in DOMAIN chart.cells : chart.cells[c].kind = Server}
    IN  {l \in [bots -> State] :
            \A c \in bots :
                IF chart.cells[c].state # NoState THEN l[c] = chart.cells[c].state
                ELSE /\ l[c] \notin DOMAIN Template
                     /\ \A d \in bots \ {c} : l[d] # l[c]}

Init ==
    /\ chart \in Charts
    /\ label \in Labellings
    /\ at = NoState
    /\ kept = <<>>
    /\ turn \in Turns
    /\ pc = "user"
    /\ reply = NoReply

Say(t) ==
    /\ pc = "user"
    /\ turn' = t
    /\ pc' = "bot"
    /\ UNCHANGED <<chart, label, at, kept, reply>>
-----------------------------------------------------------------------------
Cell(c) == chart.cells[c]

\* The cells that the dialog is at in a state.
Places(state) ==
    IF state = NoState THEN {} ELSE {c \in DOMAIN label : label[c] = state}

\* The ellipses of an intent that arrows from some cells lead to and for which
\* the user has given the slots.
Fitting(cells, intent) ==
    {a.target : a \in {b \in chart.arrows :
                         /\ b.source \in cells
                         /\ Cell(b.target).intent = intent
                         /\ SlotsSupplied(Cell(b.target).slots, turn.slots)}}

\* Those from where the dialog is rather than from nowhere.
NearestFitting(intent) ==
    IF Fitting(Places(at), intent) # {} THEN Fitting(Places(at), intent)
    ELSE Fitting({Nowhere}, intent)

\* Those that the dialog may take: of the user's intent rather than of the
\* fallback, and then with the most slots.
Heard ==
    LET fitting == IF NearestFitting(turn.intent) # {} THEN NearestFitting(turn.intent)
                   ELSE NearestFitting(Fallback)
    IN  {e \in fitting :
            \A f \in fitting : Len(Cell(f).slots) <= Len(Cell(e).slots)}

ValueOf(param) ==
    IF param.source = SessionState THEN at ELSE turn.world[param.source]

\* The values by name: those of a list of parameters, and those kept.
Values(params) ==
    [n \in Names(params) \union DOMAIN kept |->
        IF n \in Names(params)
        THEN ValueOf(params[CHOOSE i \in DOMAIN params : params[i].name = n])
        ELSE kept[n]]

IsTrue(condition, params) ==
    LET holds(i) == LET atom == condition.atoms[i]
                    IN  Values(params)[atom.name] = atom.value
    IN  IF condition.op = "or" THEN \E i \in DOMAIN condition.atoms : holds(i)
        ELSE \A i \in DOMAIN condition.atoms : holds(i)

\* The ways on from ellipse e: a bot cell and the parameters before it.
WaysFrom(e) ==
    LET target == (CHOOSE a \in ArrowsFrom(chart, e) : TRUE).target
        params == Cell(target).params
    IN  IF Cell(target).kind = Server THEN {[cell |-> target, params |-> params]}
        ELSE {[cell |-> a.target, params |-> params \o Cell(a.target).params] :
                a \in {b \in ArrowsFrom(chart, target) : IsTrue(b.condition, params)}}

\* There is a value for all that the bot's cell uses.
IsFilled(way) ==
    Cell(way.cell).shows \union NamesIn(label[way.cell]) \subseteq DOMAIN Values(way.params)

Answer(way) ==
    LET values == Values(way.params)
    IN  /\ IsFilled(way)
        /\ reply' = [cell |-> way.cell,
                     values |-> [n \in Cell(way.cell).shows |-> values[n]]]
        /\ at' = Resolved(label[way.cell], values)
        /\ kept' = ContextAfter(values)

\* The bot answers by the chart, and does not answer only where the chart has
\* no way for what the user said, or one that uses a value not yet kept.
Reply ==
    /\ pc = "bot"
    /\ pc' = "user"
    /\ \/ \E e \in Heard : \E way \in WaysFrom(e) : Answer(way)
       \/ /\ \/ Heard = {}
             \/ \E e \in Heard : WaysFrom(e) = {}
             \/ \E e \in Heard : \E way \in WaysFrom(e) : ~ IsFilled(way)
          /\ reply' = NoReply
          /\ UNCHANGED <<at, kept>>
    /\ UNCHANGED <<chart, label, turn>>

Next == Reply \/ \E t \in Turns : Say(t)

Spec == Init /\ [][Next]_chartVars
=============================================================================
