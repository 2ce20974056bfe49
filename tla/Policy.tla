-------------------------------- MODULE Policy -------------------------------
(***************************************************************************)
(* The policy engine (policy.ts): the first rule of the document that      *)
(* matches a proposal decides, otherwise the default. Each rule with an    *)
(* hour window reads the clock anew, so that the hour may change in the    *)
(* middle of a decision. Agent, resource, action and scope (as a set) are  *)
(* all compared for equality: they are the fields.                         *)
(***************************************************************************)
EXTENDS Integers, Sequences

CONSTANTS
  Field,    \* the fields a rule may name
  Value,    \* their values
  Any,      \* a field, or a window, that the rule does not name
  Day,      \* hours of a day (24)
  MaxRules  \* bound: rules of a document

ASSUME PolicyAssumption == Day \in Nat \ {0} /\ MaxRules \in Nat /\ Any \notin Value

VARIABLES
  hour,      \* the UTC hour
  document,  \* the rules
  proposal,  \* Field -> Value
  position,  \* the rule that is looked at next; 0: no decision was asked for
  decision,  \* the rule that decided, 0 for the default; -1: not yet
  turned     \* history: the hour changed during the decision

policyVars == <<hour, document, proposal, position, decision, turned>>

Hour == 0..(Day - 1)
Window24 == [start: Hour, end: Hour]

\* parsePolicyRule: a match names at least one field or a window; a rule without a match
\* names none.
Rule == [fields: [Field -> Value \union {Any}], window: Window24 \union {Any}]

PolicyInit ==
  /\ hour \in Hour
  /\ document = <<>>
  /\ proposal = [f \in Field |-> Any]
  /\ position = 0
  /\ decision = -1
  /\ turned = FALSE

\* The document of the configuration is parsed rule by rule.
ParseRule(rule) ==
  /\ position = 0
  /\ Len(document) < MaxRules
  /\ document' = Append(document, rule)
  /\ UNCHANGED <<hour, proposal, position, decision, turned>>

Propose(p) ==
  /\ position = 0
  /\ proposal' = p
  /\ position' = 1
  /\ UNCHANGED <<hour, document, decision, turned>>

InWindowNoWrap(w, h) == w.start <= h /\ h < w.end  \* fault: no window spans midnight
InWindow(w, h) ==
  IF w.start > w.end THEN w.start <= h \/ h < w.end ELSE w.start <= h /\ h < w.end

FieldsMatch(rule, p) == \A f \in Field : rule.fields[f] \in {Any, p[f]}
Matches(rule, p, h) == FieldsMatch(rule, p) /\ (rule.window = Any \/ InWindow(rule.window, h))

Evaluate ==
  /\ position > 0 /\ decision = -1
  /\ IF position > Len(document) THEN decision' = 0 /\ UNCHANGED position
     ELSE IF Matches(document[position], proposal, hour)
     THEN decision' = position /\ UNCHANGED position
     ELSE position' = position + 1 /\ UNCHANGED decision
  /\ UNCHANGED <<hour, document, proposal, turned>>

HourTurns ==
  /\ decision = -1 /\ position > 0
  /\ ~turned
  /\ hour' = (hour + 1) % Day
  /\ turned' = TRUE
  /\ UNCHANGED <<document, proposal, position, decision>>

PolicyNext ==
  \/ \E rule \in Rule : ParseRule(rule)
  \/ \E p \in [Field -> Value] : Propose(p)
  \/ Evaluate
  \/ HourTurns

\* The hours of a window, walked clockwise from its start up to, not including, its end.
HoursOf(w) == {(w.start + k) % Day : k \in {k \in Hour : k < (w.end + Day - w.start) % Day}}

Applies(rule) == FieldsMatch(rule, proposal) /\ (rule.window = Any \/ hour \in HoursOf(rule.window))

\* docs/broker-policy.md:4: the first matching rule wins, the default applies when none does;
\* a window from 22 to 6 spans midnight, one from 9 to 9 is empty. While the hour stands still,
\* the decision is that of the document as it reads; when it turns, that of a rule whose fields
\* match, or the default.
FirstMatchWins ==
  decision # -1 =>
    LET applying == {i \in 1..Len(document) : Applies(document[i])} IN
    IF turned THEN decision > 0 => FieldsMatch(document[decision], proposal)
    ELSE IF decision = 0 THEN applying = {}
    ELSE decision \in applying /\ \A i \in applying : decision <= i
=============================================================================
