-------------------------- MODULE ValidationProofs --------------------------
(***************************************************************************)
(* Proofs about Validation, for every field, every reply, and any str      *)
(* functions.                                                              *)
(***************************************************************************)
EXTENDS Validation, FoldLemmas

(* Matching an option *)

\* Null is of a type of its own.
LEMMA NullType == Null.type = "null"
BY DEF Null, Value

\* A value equals itself, and no string equals a value of another type.
LEMMA EqualValues ==
  ASSUME NEW left, NEW right, NEW rules
  PROVE  /\ ValuesEqual(left, left, rules)
         /\ left.type # "str" /\ right.type = "str" => ~ValuesEqual(left, right, rules)
BY DEF ValuesEqual

\* What matches an option's value or label, but is not null, is the value of an
\* option.
LEMMA MatchIsOption ==
  ASSUME NEW f \in Fields, NEW v, MatchAllowedValue(v, f.rules) # Null
  PROVE  \E i \in Matches(v, f.rules) : MatchAllowedValue(v, f.rules) = f.rules.options[i].value
<1> DEFINE hits == Matches(v, f.rules)
<1>1. hits # {}
  BY DEF MatchAllowedValue
<1>2. hits \subseteq Nat
  BY FieldsAssumption DEF Matches
<1>3. MatchAllowedValue(v, f.rules) =
        f.rules.options[CHOOSE i \in hits : \A k \in hits : i <= k].value
  BY <1>1 DEF MatchAllowedValue
<1> HIDE DEF hits
<1>4. \E i \in hits : \A k \in hits : i <= k
  BY <1>1, <1>2, LeastNatural
<1>5. (CHOOSE i \in hits : \A k \in hits : i <= k) \in hits
  BY <1>4
<1> QED
  BY <1>3, <1>5 DEF hits

\* No option is null or a list.
LEMMA OptionScalar ==
  ASSUME NEW f \in Fields, NEW i \in DOMAIN f.rules.options
  PROVE  /\ f.rules.options[i].value # Null
         /\ Items(f.rules.options[i].value) = <<f.rules.options[i].value>>
<1>1. f.rules.options[i].value.type \in {"str", "int", "float", "bool"}
  BY FieldsAssumption
<1> QED
  BY <1>1, NullType DEF Items

\* Where no two options can be mistaken for each other, a technical value matches
\* its own option.
LEMMA TechnicalMatchesItself ==
  ASSUME NEW f \in Fields, NoCollision(f.rules), NEW i \in DOMAIN f.rules.options
  PROVE  MatchAllowedValue(f.rules.options[i].value, f.rules) = f.rules.options[i].value
<1> DEFINE v == f.rules.options[i].value
<1>1. i \in Matches(v, f.rules)
  BY EqualValues DEF Matches
<1>2. \A k \in Matches(v, f.rules) : k = i
  BY DEF NoCollision, Matches
<1>3. Matches(v, f.rules) = {i} /\ i \in Nat
  BY <1>1, <1>2, FieldsAssumption DEF Matches
<1>4. (CHOOSE k \in {i} : \A j \in {i} : k <= j) = i
  BY <1>3
<1> QED
  BY <1>3, <1>4 DEF MatchAllowedValue

\* A value that matches an option, but is no string, equals that option's value.
LEMMA NonStringIsValue ==
  ASSUME NEW f \in Fields, NEW v, v.type # "str", MatchAllowedValue(v, f.rules) # Null
  PROVE  \E i \in Matches(v, f.rules) : IsValueOf(v, i, f.rules)
<1>1. PICK i \in Matches(v, f.rules) : TRUE
  BY MatchIsOption
<1>2. i \in DOMAIN f.rules.options
  BY DEF Matches
<1>3. CASE ValuesEqual(v, f.rules.options[i].value, f.rules)
  BY <1>3 DEF IsValueOf
<1>4. CASE ValuesEqual(v, f.rules.options[i].label, f.rules)
  <2>1. f.rules.options[i].label.type # "str"
    BY <1>4, EqualValues
  <2>2. f.rules.options[i].label = f.rules.options[i].value
    BY <1>2, <2>1, FieldsAssumption
  <2> QED
    BY <1>4, <2>2 DEF IsValueOf
<1> QED
  BY <1>3, <1>4 DEF Matches

\* What matches an option is no list, so it is its own only item.
LEMMA MatchedIsItem ==
  ASSUME NEW f \in Fields, NEW v, MatchAllowedValue(v, f.rules) # Null
  PROVE  Items(v) = <<v>>
<1>1. PICK i \in Matches(v, f.rules) : TRUE
  BY MatchIsOption
<1> DEFINE option == f.rules.options[i]
<1>2. /\ option.value.type \in {"str", "int", "float", "bool"}
      /\ option.label.type = "str" \/ option.label = option.value
  BY FieldsAssumption DEF Matches
<1>3. ASSUME NEW w, ValuesEqual(v, w, f.rules), w.type \in {"str", "int", "float", "bool"}
      PROVE  v.type # "list"
  BY <1>3 DEF ValuesEqual
<1>4. option.label.type \in {"str", "int", "float", "bool"}
  BY <1>2
<1>5. v.type # "list"
  BY <1>2, <1>3, <1>4 DEF Matches
<1> QED
  BY <1>5 DEF Items

-----------------------------------------------------------------------------
(* Normalising *)

\* A boolean value that NormalizeBoolean made or let pass stays as it is.
LEMMA BooleanStable ==
  ASSUME NEW f \in Fields, NoCollision(f.rules), NEW source,
         NEW made, made = NormalizeBoolean(source, f.rules)
  PROVE  NormalizeBoolean(made, f.rules) = made
<1>1. CASE f.rules.restricted
  <2> DEFINE matched == MatchAllowedValue(source, f.rules)
  <2>1. CASE matched.type = "bool"
    <3>1. made = matched
      BY <1>1, <2>1 DEF NormalizeBoolean
    <3>2. matched # Null
      BY <2>1, NullType
    <3>3. PICK i \in DOMAIN f.rules.options : matched = f.rules.options[i].value
      BY <3>2, MatchIsOption DEF Matches
    <3>4. MatchAllowedValue(made, f.rules) = made
      BY <3>1, <3>3, TechnicalMatchesItself
    <3> QED
      BY <1>1, <2>1, <3>1, <3>4 DEF NormalizeBoolean
  <2>2. CASE matched.type # "bool"
    BY <1>1, <2>2 DEF NormalizeBoolean
  <2> QED
    BY <2>1, <2>2
<1>2. CASE ~f.rules.restricted
  <2>1. Bool(TRUE).type = "bool" /\ Bool(FALSE).type = "bool"
    BY DEF Bool, Value
  <2>2. made \in {source, Bool(TRUE), Bool(FALSE)}
    BY <1>2 DEF NormalizeBoolean
  <2>3. made = source => NormalizeBoolean(made, f.rules) = made
    OBVIOUS
  <2>4. made.type = "bool" => NormalizeBoolean(made, f.rules) = made
    BY <1>2 DEF NormalizeBoolean
  <2> QED
    BY <2>1, <2>2, <2>3, <2>4
<1> QED
  BY <1>1, <1>2

\* What normalising makes of a source: of a boolean field,
LEMMA NormalizeBooleanField ==
  ASSUME NEW f \in Fields, NEW v, NEW n, f.type = "boolean"
  PROVE  Normalize(v, n, f) = NormalizeBoolean(Source(v, n), f.rules)
BY DEF Normalize

\* of a field without options,
LEMMA NormalizeUnrestricted ==
  ASSUME NEW f \in Fields, NEW v, NEW n, f.type # "boolean", ~f.rules.restricted
  PROVE  Normalize(v, n, f) = Source(v, n)
BY DEF Normalize

\* of no source,
LEMMA NormalizeNull ==
  ASSUME NEW f \in Fields, NEW v, NEW n, f.type # "boolean", f.rules.restricted,
         Source(v, n) = Null
  PROVE  Normalize(v, n, f) = Null
BY DEF Normalize

\* of a field that takes several options,
LEMMA NormalizeList ==
  ASSUME NEW f \in Fields, NEW v, NEW n, f.type # "boolean", f.rules.restricted,
         NEW source, source = Source(v, n), source # Null, f.type = "array" \/ f.rules.multiple
  PROVE  Normalize(v, n, f) =
           List([i \in DOMAIN Items(source) |-> NormalizeAllowedItem(Items(source)[i], f.rules)])
BY FieldsAssumption DEF Normalize

\* and of one that takes one.
LEMMA NormalizeScalar ==
  ASSUME NEW f \in Fields, NEW v, NEW n, f.type # "boolean", f.rules.restricted,
         NEW source, source = Source(v, n), source # Null, ~(f.type = "array" \/ f.rules.multiple)
  PROVE  Normalize(v, n, f) = MatchAllowedValue(source, f.rules)
BY FieldsAssumption DEF Normalize

\* The items of a list.
LEMMA ListItems ==
  ASSUME NEW items
  PROVE  List(items) # Null /\ Items(List(items)) = items
<1>1. List(items).type = "list" /\ List(items).items = items
  BY DEF List, Value
<1> QED
  BY <1>1, NullType DEF Items

-----------------------------------------------------------------------------
(* The invariant *)

\* What the two functions make of the reply, as far as they were called.
IInv ==
  /\ status = "none" => normalized = Null
  /\ status # "none" => normalized = Normalize(value, normalizedValue, field)
  /\ status \in {"passed", "failed", "skipped"} => status = Validate(value, normalized, field)
  /\ status \in {"none", "normalized", "passed", "failed", "skipped"}
  /\ field \in Fields

\* IInv holds in every reachable state.
THEOREM Invariance == Spec => []IInv
<1>1. Init => IInv
  BY DEF Init, IInv
<1>2. ASSUME IInv, NormalizeReply PROVE IInv'
  BY <1>2 DEF IInv, NormalizeReply
<1>3. ASSUME IInv, ValidateReply PROVE IInv'
  <2>1. status' \in {"passed", "failed", "skipped"}
    BY <1>3 DEF ValidateReply, Validate
  <2> QED
    BY <1>3, <2>1 DEF IInv, ValidateReply
<1>4. ASSUME IInv, UNCHANGED vars PROVE IInv'
  BY <1>4 DEF IInv, vars
<1>5. IInv /\ [Next]_vars => IInv'
  BY <1>2, <1>3, <1>4 DEF Next
<1> QED
  BY <1>1, <1>5, PTL DEF Spec

-----------------------------------------------------------------------------
(* The theorems *)

\* Whatever the model replies and however the options collide, what passes and is
\* returned is, item by item, the value of an option that the reply names.
THEOREM NormalizedNamed == Spec => []NormalizedIsNamed
<1>1. IInv => NormalizedIsNamed
  <2> DEFINE source == Source(value, normalizedValue)
             rules  == field.rules
             Named(given, made) ==
               /\ DOMAIN made = DOMAIN given
               /\ \A k \in DOMAIN made :
                    \E i \in Matches(given[k], rules) : IsValueOf(made[k], i, rules)
  <2> SUFFICES ASSUME IInv, status = "passed", field.rules.restricted, normalized # Null
               PROVE  Named(Items(source), Items(normalized))
    BY DEF NormalizedIsNamed
  <2>1. field \in Fields /\ normalized = Normalize(value, normalizedValue, field)
    BY DEF IInv
  <2>2. Validate(value, normalized, field) = "passed" /\ Source(value, normalized) = normalized
    BY DEF IInv, Source
  <2>3. MatchesExpectedType(normalized, field) /\ ValuesNotAllowed(normalized, field.rules) = {}
    BY <2>2 DEF Validate
  <2>4. \A k \in DOMAIN Items(normalized) : MatchAllowedValue(Items(normalized)[k], rules) # Null
    BY <2>3 DEF ValuesNotAllowed
  <2>5. ASSUME NEW v, NEW w, NEW i \in Matches(v, rules), IsValueOf(w, i, rules)
        PROVE  Named(<<v>>, <<w>>)
    BY <2>5
  <2>6. ASSUME NEW v, MatchAllowedValue(v, rules) # Null
        PROVE  \E i \in Matches(v, rules) : IsValueOf(MatchAllowedValue(v, rules), i, rules)
    BY <2>1, <2>6, MatchIsOption DEF IsValueOf
  <2>7. CASE field.type = "boolean"
    <3>1. normalized = NormalizeBoolean(source, rules)
      BY <2>1, <2>7, NormalizeBooleanField
    <3>2. normalized.type = "bool"
      BY <2>3, <2>7 DEF MatchesExpectedType
    <3>3. Items(normalized) = <<normalized>>
      BY <3>2 DEF Items
    <3> HIDE DEF source, Named
    <3>4. CASE normalized = MatchAllowedValue(source, rules)
      <4>1. Items(source) = <<source>>
        BY <2>1, <3>4, MatchedIsItem
      <4> QED
        BY <2>5, <2>6, <3>3, <3>4, <4>1
    <3>5. CASE normalized = source
      <4>1. MatchAllowedValue(normalized, rules) # Null
        BY <2>4, <3>3
      <4>2. \E i \in Matches(normalized, rules) : IsValueOf(normalized, i, rules)
        BY <2>1, <3>2, <4>1, NonStringIsValue
      <4> QED
        BY <2>5, <3>3, <3>5, <4>2
    <3> QED
      BY <3>1, <3>4, <3>5 DEF NormalizeBoolean
  <2>8. CASE field.type # "boolean" /\ source = Null
    BY <2>1, <2>8, NormalizeNull
  <2>9. CASE field.type # "boolean" /\ source # Null /\ (field.type = "array" \/ field.rules.multiple)
    <3> DEFINE items == [i \in DOMAIN Items(source) |-> NormalizeAllowedItem(Items(source)[i], rules)]
    <3>1. Items(normalized) = items
      <4>1. normalized = List(items)
        BY <2>1, <2>9, NormalizeList
      <4> QED
        BY <4>1, ListItems
    <3>2. /\ DOMAIN Items(normalized) = DOMAIN Items(source)
          /\ \A k \in DOMAIN Items(normalized) :
               Items(normalized)[k] = NormalizeAllowedItem(Items(source)[k], rules)
      BY <3>1
    <3> HIDE DEF items, source
    <3>3. ASSUME NEW k \in DOMAIN Items(normalized)
          PROVE  \E i \in Matches(Items(source)[k], rules) : IsValueOf(Items(normalized)[k], i, rules)
      <4>1. MatchAllowedValue(Items(source)[k], rules) # Null
        BY <2>4, <3>2 DEF NormalizeAllowedItem
      <4>2. Items(normalized)[k] = MatchAllowedValue(Items(source)[k], rules)
        BY <3>2, <4>1 DEF NormalizeAllowedItem
      <4> QED
        BY <2>6, <4>1, <4>2
    <3> QED
      BY <3>2, <3>3
  <2>10. CASE /\ field.type # "boolean" /\ source # Null
              /\ ~(field.type = "array" \/ field.rules.multiple)
    <3>1. normalized = MatchAllowedValue(source, rules)
      BY <2>1, <2>10, NormalizeScalar
    <3> HIDE DEF source, Named
    <3>2. Items(source) = <<source>>
      BY <2>1, <3>1, MatchedIsItem
    <3>3. Items(normalized) = <<normalized>>
      BY <2>1, <3>1, MatchIsOption, OptionScalar DEF Matches
    <3> QED
      BY <2>5, <2>6, <3>1, <3>2, <3>3
  <2> QED
    BY <2>7, <2>8, <2>9, <2>10
<1> QED
  BY Invariance, <1>1, PTL

\* What passes validation is a technical value of the field's options, or a list of
\* nothing else.
THEOREM PassedTechnical == Spec => []PassedIsTechnical
<1>1. NormalizedIsNamed => PassedIsTechnical
  BY DEF NormalizedIsNamed, PassedIsTechnical, IsTechnical, Matches
<1> QED
  BY NormalizedNamed, <1>1, PTL

\* A reply that names a technical value gets it back.
THEOREM TechnicalKept == Spec => []TechnicalValueKept
<1>1. IInv => TechnicalValueKept
  <2> SUFFICES ASSUME IInv, status # "none", field.rules.restricted, NoCollision(field.rules),
                      NEW i \in DOMAIN field.rules.options,
                      normalizedValue = field.rules.options[i].value
               PROVE  normalized \in {normalizedValue, List(<<normalizedValue>>)}
    BY DEF TechnicalValueKept
  <2>1. field \in Fields /\ normalized = Normalize(value, normalizedValue, field)
    BY DEF IInv
  <2>2. normalizedValue # Null /\ Items(normalizedValue) = <<normalizedValue>>
    BY <2>1, OptionScalar
  <2>3. Source(value, normalizedValue) = normalizedValue
    BY <2>2 DEF Source
  <2>4. MatchAllowedValue(normalizedValue, field.rules) = normalizedValue
    BY <2>1, TechnicalMatchesItself
  <2>5. CASE field.type = "boolean"
    <3>1. normalized = NormalizeBoolean(normalizedValue, field.rules)
      BY <2>1, <2>3, <2>5, NormalizeBooleanField
    <3> QED
      BY <2>4, <3>1 DEF NormalizeBoolean
  <2>6. CASE field.type # "boolean" /\ (field.type = "array" \/ field.rules.multiple)
    <3>1. normalized = List([k \in DOMAIN <<normalizedValue>> |->
                               NormalizeAllowedItem(<<normalizedValue>>[k], field.rules)])
      BY <2>1, <2>2, <2>3, <2>6, NormalizeList
    <3>2. NormalizeAllowedItem(normalizedValue, field.rules) = normalizedValue
      BY <2>4 DEF NormalizeAllowedItem
    <3>3. [k \in DOMAIN <<normalizedValue>> |->
             NormalizeAllowedItem(<<normalizedValue>>[k], field.rules)] = <<normalizedValue>>
      BY <3>2
    <3> QED
      BY <3>1, <3>3
  <2>7. CASE field.type # "boolean" /\ ~(field.type = "array" \/ field.rules.multiple)
    BY <2>1, <2>2, <2>3, <2>4, <2>7, NormalizeScalar
  <2> QED
    BY <2>5, <2>6, <2>7
<1> QED
  BY Invariance, <1>1, PTL

\* Normalising is idempotent.
THEOREM NormalizedStable == Spec => []NormalizedIsStable
<1>1. IInv => NormalizedIsStable
  <2> SUFFICES ASSUME IInv, status # "none", NoCollision(field.rules), normalized # Null
               PROVE  Normalize(value, normalized, field) = normalized
    BY DEF NormalizedIsStable
  <2> DEFINE source == Source(value, normalizedValue)
             rules  == field.rules
  <2>1. field \in Fields /\ normalized = Normalize(value, normalizedValue, field)
    BY DEF IInv
  <2>2. Source(value, normalized) = normalized
    BY DEF Source
  <2>3. CASE field.type = "boolean"
    <3>1. normalized = NormalizeBoolean(source, rules)
      BY <2>1, <2>3, NormalizeBooleanField
    <3>2. NormalizeBoolean(normalized, rules) = normalized
      BY <2>1, <3>1, BooleanStable
    <3> QED
      BY <2>1, <2>2, <2>3, <3>2, NormalizeBooleanField
  <2>4. CASE field.type # "boolean" /\ ~field.rules.restricted
    BY <2>1, <2>2, <2>4, NormalizeUnrestricted
  <2>5. CASE field.type # "boolean" /\ field.rules.restricted /\ source = Null
    BY <2>1, <2>5, NormalizeNull
  <2>6. CASE /\ field.type # "boolean" /\ field.rules.restricted /\ source # Null
             /\ field.type = "array" \/ field.rules.multiple
    <3> DEFINE items == [i \in DOMAIN Items(source) |-> NormalizeAllowedItem(Items(source)[i], rules)]
               again == [i \in DOMAIN items |-> NormalizeAllowedItem(items[i], rules)]
    <3>1. normalized = List(items)
      BY <2>1, <2>6, NormalizeList
    <3>2. Items(normalized) = items
      BY <3>1, ListItems
    <3>3. Normalize(value, normalized, field) = List(again)
      BY <2>1, <2>2, <2>6, <3>2, NormalizeList
    <3>4. ASSUME NEW v
          PROVE  NormalizeAllowedItem(NormalizeAllowedItem(v, rules), rules) = NormalizeAllowedItem(v, rules)
      <4> DEFINE matched == MatchAllowedValue(v, rules)
      <4>1. CASE matched = Null
        BY <4>1 DEF NormalizeAllowedItem
      <4>2. CASE matched # Null
        <5>1. NormalizeAllowedItem(v, rules) = matched
          BY <4>2 DEF NormalizeAllowedItem
        <5>2. PICK i \in DOMAIN rules.options : matched = rules.options[i].value
          BY <2>1, <4>2, MatchIsOption DEF Matches
        <5>3. MatchAllowedValue(matched, rules) = matched
          BY <2>1, <5>2, TechnicalMatchesItself
        <5> QED
          BY <4>2, <5>1, <5>3 DEF NormalizeAllowedItem
      <4> QED
        BY <4>1, <4>2
    <3>5. again = items
      BY <3>4
    <3> QED
      BY <3>1, <3>3, <3>5
  <2>7. CASE /\ field.type # "boolean" /\ field.rules.restricted /\ source # Null
             /\ ~(field.type = "array" \/ field.rules.multiple)
    <3>1. normalized = MatchAllowedValue(source, rules)
      BY <2>1, <2>7, NormalizeScalar
    <3>2. PICK i \in DOMAIN rules.options : normalized = rules.options[i].value
      <4> HIDE DEF source
      <4> QED
        BY <2>1, <3>1, MatchIsOption DEF Matches
    <3>3. MatchAllowedValue(normalized, rules) = normalized
      BY <2>1, <3>2, TechnicalMatchesItself
    <3> QED
      BY <2>1, <2>2, <2>7, <3>3, NormalizeScalar
  <2> QED
    BY <2>3, <2>4, <2>5, <2>6, <2>7
<1> QED
  BY Invariance, <1>1, PTL

=============================================================================
