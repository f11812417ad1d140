-------------------------- MODULE PolicyTemplates --------------------------
(***************************************************************************)
(* Texts with parameters in them, {%name%}, and comma-separated lists of   *)
(* such texts: try_resolve_params and try_resolve_param_list, and what the *)
(* two are meant to do (policy_manager.cpp 468-544).                       *)
(*                                                                         *)
(* A text is a sequence of tokens: words, commas, colons and the           *)
(* delimiters.  The three characters {%} are a delimiter of their own,     *)
(* because the code takes the % as part of both {% and %}.  No name of a   *)
(* parameter begins with }, no word has a comma or a colon in it, and no   *)
(* two tokens side by side make up a delimiter; the blanks that are        *)
(* trimmed off the parts of a list belong to no word.                      *)
(***************************************************************************)
EXTENDS Naturals, Sequences, FiniteSetsExt

Open == "{%"
Close == "%}"
OpenClose == "{%}"
Comma == ","
Colon == ":"

Delimiter == {Open, Close, OpenClose}

Text == Seq(STRING)

Has(text, tokens) == \E i \in DOMAIN text : text[i] \in tokens

Unresolved == [ok |-> FALSE, text |-> <<>>]
Resolved(text) == [ok |-> TRUE, text |-> text]
-----------------------------------------------------------------------------
(* The loop of try_resolve_params: resolved and is_param are its           *)
(* variables, rest is what follows last_index.  params maps the name of a  *)
(* parameter to its value.                                                 *)

\* The name before %} is looked up; a name is one word.
CloseParam(scan, params) ==
    IF scan.isParam /\ Len(scan.rest) = 1 /\ scan.rest[1] \in DOMAIN params
    THEN [scan EXCEPT !.resolved = @ \o params[scan.rest[1]],
                      !.rest = <<>>, !.isParam = FALSE]
    ELSE [scan EXCEPT !.failed = TRUE]

\* At {%} the length of the name, i - last_index, wraps around to the rest of
\* the text, which begins with } and is the name of no parameter.
ScanToken(scan, token, params) ==
    CASE scan.failed -> scan
      [] ~ scan.failed /\ token = Open ->
            [scan EXCEPT !.resolved = @ \o scan.rest,
                         !.rest = <<>>, !.isParam = TRUE]
      [] ~ scan.failed /\ token = Close -> CloseParam(scan, params)
      [] ~ scan.failed /\ token = OpenClose -> [scan EXCEPT !.failed = TRUE]
      [] OTHER -> [scan EXCEPT !.rest = Append(@, token)]

ScanText(text, params) ==
    LET scan[i \in 0..Len(text)] ==
            IF i = 0
            THEN [resolved |-> <<>>, rest |-> <<>>, isParam |-> FALSE, failed |-> FALSE]
            ELSE ScanToken(scan[i - 1], text[i], params)
    IN  scan[Len(text)]

\* Mutant: a parameter that is still open at the end is taken as text
ResolveUnclosed(text, params) ==
    LET end == ScanText(text, params)
    IN  IF end.failed THEN Unresolved ELSE Resolved(end.resolved \o end.rest)

\* try_resolve_params
Resolve(text, params) ==
    LET end == ScanText(text, params)
    IN  IF end.failed \/ end.isParam THEN Unresolved
        ELSE Resolved(end.resolved \o end.rest)

\* What find and substr, or getline, cut a list into: an empty part counts
\* unless it is the last.
Cut(split, token) ==
    IF token = Comma
    THEN [parts |-> Append(split.parts, split.part), part |-> <<>>]
    ELSE [parts |-> split.parts, part |-> Append(split.part, token)]

CutText(text) ==
    LET split[i \in 0..Len(text)] ==
            IF i = 0 THEN [parts |-> <<>>, part |-> <<>>]
            ELSE Cut(split[i - 1], text[i])
    IN  split[Len(text)]

SplitList(text) ==
    LET end == CutText(text)
    IN  IF end.part = <<>> THEN end.parts ELSE Append(end.parts, end.part)

\* Mutant: the whole list is resolved before it is split
ResolveListWhole(text, params) ==
    LET r == Resolve(text, params)
    IN  [ok |-> r.ok, list |-> IF r.ok THEN SplitList(r.text) ELSE <<>>]

\* try_resolve_param_list: the list is split, then each part is resolved.
ResolveList(text, params) ==
    LET parts == SplitList(text)
        resolved == [i \in DOMAIN parts |-> Resolve(parts[i], params)]
        ok == \A i \in DOMAIN parts : resolved[i].ok
    IN  [ok |-> ok,
         list |-> IF ok THEN [i \in DOMAIN parts |-> resolved[i].text] ELSE <<>>]
-----------------------------------------------------------------------------
(* What is written, position by position.                                  *)

\* The last delimiter before position i, 0 if there is none.
Before(text, i) ==
    LET found == {j \in 1..(i - 1) : text[j] \in Delimiter}
    IN  IF found = {} THEN 0 ELSE Max(found)

\* Position i ends a parameter {%name%}.
IsParamEnd(text, i, params) ==
    /\ text[i] = Close
    /\ Before(text, i) # 0 /\ text[Before(text, i)] = Open
    /\ i = Before(text, i) + 2
    /\ text[i - 1] \in DOMAIN params

\* Position i lies in a parameter.
InParam(text, i) ==
    /\ text[i] \notin Delimiter
    /\ Before(text, i) # 0 /\ text[Before(text, i)] = Open
    /\ \E j \in DOMAIN text : j > i /\ text[j] = Close /\ Before(text, j) = Before(text, i)

\* Every parameter is known and every %} ends one; the last {% is closed.  A
\* {% that another one follows stands for nothing.
IsResolvable(text, params) ==
    /\ ~ Has(text, {OpenClose})
    /\ \A i \in DOMAIN text : text[i] = Close => IsParamEnd(text, i, params)
    /\ LET last == Before(text, Len(text) + 1)
       IN  last = 0 \/ text[last] # Open

\* The text with the values in the place of the parameters.
Piece(text, i, params) ==
    CASE text[i] = Close -> params[text[i - 1]]
      [] text[i] = Open \/ InParam(text, i) -> <<>>
      [] OTHER -> <<text[i]>>

Filled(text, params) ==
    LET filled[i \in 0..Len(text)] ==
            IF i = 0 THEN <<>> ELSE filled[i - 1] \o Piece(text, i, params)
    IN  filled[Len(text)]
=============================================================================
