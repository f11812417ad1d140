----------------------------- MODULE DrawnCharts -----------------------------
(***************************************************************************)
(* Drawings of dialog flows, as the visual tool saves them and the         *)
(* compiler takes them (docs/visual_tool.md 19-72).  The cells are         *)
(* ellipses, in which the user says something, rounded rectangles, in      *)
(* which the bot answers, and rhombi, in which conditions decide; arrows   *)
(* connect them.                                                           *)
(*                                                                         *)
(* A cell has the fields of the compiler's Node.  Its parameters, PARAM    *)
(* lines, give a name to a source: the state of the session, or something  *)
(* else whose value each turn brings anew.  The text of a bot cell shows   *)
(* some of them, and its STATE line may be one of them, {%name%}.  What is *)
(* given a name dmkit_param_context_<key> is kept for the turns to come.   *)
(* A condition compares named values with constants, all of them (&&) or   *)
(* one of them (||).                                                       *)
(***************************************************************************)
EXTENDS PolicyMatching, SequencesExt

CONSTANTS
    Charts,      \* drawings: cells, in the order of the file, and arrows
    Nowhere,     \* the source of an arrow that begins at no cell
    Text,        \* states and values of parameters
    Source,      \* where a turn brings a value: a slot, a function, ...
    SessionState, \* the source of a parameter of type session_state
    Template,    \* of the states that are {%name%} as they stand, the name
    ContextNames, \* the names that begin with dmkit_param_context_
    LastTts,     \* dmkit_param_last_tts, the text of the last answer
    Spoken       \* a text that has been answered, whichever it was

ASSUME TextsAssumption ==
    /\ StateOrNone \subseteq Text /\ Spoken \in Text
    /\ SessionState \notin Source
    /\ DOMAIN Template \subseteq State

Server == "server"      \* rounded rectangle
Customer == "customer"  \* ellipse
Judge == "judge"        \* rhombus

Names(params) == {params[i].name : i \in DOMAIN params}
ArrowsFrom(chart, c) == {a \in chart.arrows : a.source = c}

\* The names that come from the session, not from the cells on the way.
SessionNames == ContextNames \union {LastTts}

\* The names in a STATE line, and what the line is for given values.
NamesIn(state) == IF state \in DOMAIN Template THEN {Template[state]} ELSE {}
Resolved(state, values) ==
    IF state \in DOMAIN Template THEN values[Template[state]] ELSE state

\* What an answer that has these values leaves in the session's context.
ContextAfter(values) ==
    [n \in (DOMAIN values \intersect ContextNames) \union {LastTts} |->
        IF n = LastTts THEN Spoken ELSE values[n]]

IsList(s) == s \in Seq(ToSet(s))

\* What the visual tool can draw at all.
IsDrawing(chart) ==
    /\ IsList(chart.cells) /\ Nowhere \notin DOMAIN chart.cells
    /\ \A c \in DOMAIN chart.cells :
        /\ chart.cells[c].kind \in {Server, Customer, Judge}
        /\ chart.cells[c].state \in StateOrNone
        /\ chart.cells[c].slots \in Seq(Slot)
        /\ IsList(chart.cells[c].params)
        /\ \A p \in ToSet(chart.cells[c].params) : p.source \in Source \union {SessionState}
    /\ IsFiniteSet(chart.arrows)
    /\ \A a \in chart.arrows :
        /\ a.source \in DOMAIN chart.cells \union {Nowhere}
        /\ a.target \in DOMAIN chart.cells
        /\ IsList(a.condition.atoms)

\* The rules of the document: every arrow ends at a cell, an ellipse has one
\* arrow, to a bot cell or to a rhombus, a bot cell has arrows to ellipses, a
\* rhombus has arrows to bot cells, whose conditions use its parameters.  What
\* the document does not say, but the compiler needs: an arrow that leaves a
\* rhombus has a condition; the cells whose parameters come together in one
\* policy do not use a name for two sources; and from a cell whose STATE line is
\* a template no arrow leaves, for the dialog goes on from the cell it names.
WellDrawn(chart) ==
    LET kind(c) == chart.cells[c].kind
        params(c) == chart.cells[c].params
        targets(c) == {a.target : a \in ArrowsFrom(chart, c)}
        together(c) == {c} \union
            UNION {targets(d) \union {d} : d \in {t \in targets(c) : kind(t) = Judge}}
    IN  /\ \A t \in targets(Nowhere) : kind(t) = Customer
        /\ \A c \in DOMAIN chart.cells :
            /\ kind(c) = Customer => /\ Cardinality(ArrowsFrom(chart, c)) = 1
                                     /\ \A t \in targets(c) : kind(t) # Customer
            /\ kind(c) = Server => \A t \in targets(c) : kind(t) = Customer
            /\ kind(c) = Judge => \A a \in ArrowsFrom(chart, c) :
                    /\ kind(a.target) = Server /\ a.condition.atoms # <<>>
                    /\ Names(a.condition.atoms) \subseteq Names(params(c))
            /\ NamesIn(chart.cells[c].state) # {} => targets(c) = {}
            /\ \A d, e \in together(c) :
                 \A i \in DOMAIN params(d), j \in DOMAIN params(e) :
                    params(d)[i].name = params(e)[j].name => params(d)[i] = params(e)[j]

\* The cells behind one rhombus share a policy, in which the parameters of all
\* of them are set whichever is taken.  So they do not use those of one another,
\* and what is to be kept is given its name in the rhombus.
BranchesApart(chart) ==
    \A a \in chart.arrows :
        LET source == chart.cells[a.source]
            bot == chart.cells[a.target]
        IN  a.source # Nowhere /\ source.kind = Judge =>
                /\ bot.shows \union NamesIn(bot.state)
                     \subseteq SessionNames \union Names(source.params) \union Names(bot.params)
                /\ Names(bot.params) \intersect SessionNames = {}

ASSUME ChartsAssumption ==
    \A chart \in Charts :
        IsDrawing(chart) /\ WellDrawn(chart) /\ BranchesApart(chart)
=============================================================================
