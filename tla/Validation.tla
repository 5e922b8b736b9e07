----------------------------- MODULE Validation -----------------------------
(***************************************************************************)
(* normalize_extracted_value and validate_extracted_value                  *)
(* (app/domain/validation.py), as _build_field_answer calls them: the      *)
(* first on the value and normalizedValue of a reply, the second on the    *)
(* value and what the first returned.                                      *)
(*                                                                         *)
(* A JSON value is its type, its text and, for a list, its items.  The     *)
(* text of a number is its value: 1 and 1.0 have the same one.  Strings    *)
(* are abstract texts.                                                     *)
(***************************************************************************)
EXTENDS Integers, Sequences

CONSTANTS Fields,         \* the fields: [type, rules]
          Values,         \* the values a reply may carry, Null among them
          Fold(_),        \* str.casefold
          Strip(_),       \* str.strip
          Decimal(_),     \* str of the float of a value
          TrueTexts,      \* folded texts that mean true, and
          FalseTexts,     \* false, to a boolean field
          Matching        \* the texts that match the pattern of a field that has one

Value(type, text, items) == [type |-> type, text |-> text, items |-> items]

Null      == Value("null", "", <<>>)
Str(text) == Value("str", text, <<>>)
Num(text) == Value("int", text, <<>>)
Float(text) == Value("float", text, <<>>)
Bool(b)   == Value("bool", IF b THEN "1" ELSE "0", <<>>)
List(items) == Value("list", "[]", items)

\* str, as far as a pattern can tell: all lists read alike.
Text(v) ==
  CASE v.type = "bool"  -> IF v.text = "1" THEN "True" ELSE "False"
    [] v.type = "float" -> Decimal(v.text)
    [] v.type \notin {"bool", "float"} -> v.text

\* Rules after _rules_to_mapping: restricted is "allowedValues is given".
Rules(restricted, options, multiple, caseSensitive, pattern) ==
  [restricted |-> restricted, options |-> options, multiple |-> multiple,
   caseSensitive |-> caseSensitive, pattern |-> pattern]

\* An allowed value given bare is its own label.
Option(value, label) == [value |-> value, label |-> label]

\* AllowedValue and AllowedValueOption: an option's value is a scalar, and its
\* label a string unless it is that value.
ASSUME FieldsAssumption ==
  \A f \in Fields :
    /\ f.rules.restricted \in BOOLEAN
    /\ f.rules.multiple \in BOOLEAN
    /\ DOMAIN f.rules.options \subseteq Nat
    /\ \A i \in DOMAIN f.rules.options :
         LET option == f.rules.options[i]
         IN /\ option.value.type \in {"str", "int", "float", "bool"}
            /\ option.label.type = "str" \/ option.label = option.value

VARIABLES field, value, normalizedValue,  \* the question and the reply
          normalized, status              \* what the two functions make of them

vars == <<field, value, normalizedValue, normalized, status>>

-----------------------------------------------------------------------------
ValuesEqual(left, right, rules) ==
  IF left.type = "str" /\ right.type = "str" /\ ~rules.caseSensitive
  THEN Fold(left.text) = Fold(right.text)
  ELSE \/ left = right
       \/ /\ {left.type, right.type} \subseteq {"int", "float", "bool"}  \* True == 1 == 1.0
          /\ left.text = right.text

Matches(v, rules) ==
  {i \in DOMAIN rules.options :
     \/ ValuesEqual(v, rules.options[i].value, rules)
     \/ ValuesEqual(v, rules.options[i].label, rules)}

MatchAllowedValue_LabelToo(v, rules) ==  \* mutant: what matched is returned
  IF Matches(v, rules) = {} THEN Null ELSE v

\* The value of the first option whose value or label it equals, or Null.
MatchAllowedValue(v, rules) ==
  LET hits == Matches(v, rules)
  IN IF hits = {} THEN Null
     ELSE rules.options[CHOOSE i \in hits : \A k \in hits : i <= k].value

NormalizeBoolean(v, rules) ==
  IF rules.restricted
  THEN LET matched == MatchAllowedValue(v, rules)
       IN IF matched.type = "bool" THEN matched ELSE v
  ELSE IF v.type # "str" THEN v
  ELSE IF Fold(Strip(v.text)) \in TrueTexts THEN Bool(TRUE)
  ELSE IF Fold(Strip(v.text)) \in FalseTexts THEN Bool(FALSE)
  ELSE v

Source_ValueFirst(v, n) ==  \* mutant: value goes before normalized_value
  IF v # Null THEN v ELSE n

\* What both functions look at.
Source(v, n) == IF n # Null THEN n ELSE v

Items_Wrapped(v) ==  \* mutant: a list is not looked into
  <<v>>

Items(v) == IF v.type = "list" THEN v.items ELSE <<v>>

NormalizeAllowedItem_Twice(v, rules) ==  \* mutant: what matched is matched again
  LET matched == MatchAllowedValue(v, rules)
  IN IF matched # Null THEN MatchAllowedValue(matched, rules) ELSE v

NormalizeAllowedItem(v, rules) ==
  LET matched == MatchAllowedValue(v, rules)
  IN IF matched # Null THEN matched ELSE v

Normalize(v, n, f) ==
  LET source == Source(v, n)
  IN CASE f.type = "boolean" -> NormalizeBoolean(source, f.rules)
       [] f.type # "boolean" /\ ~f.rules.restricted -> source
       [] f.type # "boolean" /\ f.rules.restricted /\ source = Null -> Null
       [] f.type # "boolean" /\ f.rules.restricted /\ source # Null ->
            IF f.type = "array" \/ f.rules.multiple
            THEN List([i \in DOMAIN Items(source) |->
                         NormalizeAllowedItem(Items(source)[i], f.rules)])
            ELSE MatchAllowedValue(source, f.rules)

MatchesExpectedType(v, f) ==
  CASE f.type = "string"  -> v.type = "str"  \* and email, phone, iban, date...
    [] f.type = "enum"    -> f.rules.restricted \/ v.type = "str"
    [] f.type = "number"  -> v.type \in {"int", "float"}
    [] f.type = "integer" -> v.type = "int"
    [] f.type = "boolean" -> v.type = "bool"
    [] f.type = "array"   -> v.type = "list"

ValuesNotAllowed(v, rules) ==
  {i \in DOMAIN Items(v) : MatchAllowedValue(Items(v)[i], rules) = Null}

Validate(v, n, f) ==
  LET candidate == Source(v, n)
  IN IF candidate = Null THEN "skipped"
     ELSE IF /\ MatchesExpectedType(candidate, f)
             /\ f.rules.pattern => Text(candidate) \in Matching
             /\ f.rules.restricted => ValuesNotAllowed(candidate, f.rules) = {}
     THEN "passed" ELSE "failed"

-----------------------------------------------------------------------------
Init ==
  /\ field \in Fields
  /\ value \in Values
  /\ normalizedValue \in Values
  /\ normalized = Null
  /\ status = "none"

\* The two calls of _build_field_answer.
NormalizeReply ==
  /\ status = "none"
  /\ normalized' = Normalize(value, normalizedValue, field)
  /\ status' = "normalized"
  /\ UNCHANGED <<field, value, normalizedValue>>

ValidateReply ==
  /\ status = "normalized"
  /\ status' = Validate(value, normalized, field)
  /\ UNCHANGED <<field, value, normalizedValue, normalized>>

Next == NormalizeReply \/ ValidateReply

Spec == Init /\ [][Next]_vars

-----------------------------------------------------------------------------
(* Properties *)

\* v is a given option's value, up to Python's True == 1 == 1.0.
IsValueOf(v, i, rules) ==
  LET technical == rules.options[i].value
  IN v = technical \/ (v.type # "str" /\ ValuesEqual(v, technical, rules))

IsTechnical(v, rules) == \E i \in DOMAIN rules.options : IsValueOf(v, i, rules)

\* No value or label of one option equals one of another.
NoCollision(rules) ==
  \A i, k \in DOMAIN rules.options : i # k =>
    i \notin Matches(rules.options[k].value, rules) \cup Matches(rules.options[k].label, rules)

\* What passes validation and is returned as normalizedValue is a technical
\* value of some option of the field, or a list of such: never a label,
\* another spelling or a value outside allowedValues.
PassedIsTechnical ==
  status = "passed" /\ field.rules.restricted /\ normalized # Null =>
    \A i \in DOMAIN Items(normalized) : IsTechnical(Items(normalized)[i], field.rules)

\* What passes and is returned is, item by item, the value of an option that the
\* reply itself names by its value or its label, also where the label of one
\* option is the value of another: the second matching, in validation, brings
\* back no option that was not named (_normalize_allowed_item, and
\* _match_allowed_value as both functions call it).
NormalizedIsNamed ==
  status = "passed" /\ field.rules.restricted /\ normalized # Null =>
    LET given == Items(Source(value, normalizedValue))
        made  == Items(normalized)
    IN /\ DOMAIN made = DOMAIN given
       /\ \A k \in DOMAIN made :
            \E i \in Matches(given[k], field.rules) : IsValueOf(made[k], i, field.rules)

\* Where no two options can be mistaken for each other, a reply that names a
\* technical value in normalizedValue gets that value back, whatever the value
\* beside it says.
TechnicalValueKept ==
  (/\ status # "none"
   /\ field.rules.restricted
   /\ NoCollision(field.rules)
   /\ \E i \in DOMAIN field.rules.options : normalizedValue = field.rules.options[i].value)
  => normalized \in {normalizedValue, List(<<normalizedValue>>)}

\* Normalising what was normalised changes nothing, where no two options can be
\* mistaken for each other: a client may send the value back as it got it.
NormalizedIsStable ==
  status # "none" /\ NoCollision(field.rules) /\ normalized # Null =>
    Normalize(value, normalized, field) = normalized

-----------------------------------------------------------------------------
(* What the documentation says and the code does not do *)

\* "For allowedValues, normalizedValue returns the technical value"
\* (README.md:284): a reply whose normalizedValue matches no option passes
\* validation by its value, and comes back with normalizedValue null.
PassedHasTechnicalValue ==
  status = "passed" /\ field.rules.restricted => normalized # Null

=============================================================================
