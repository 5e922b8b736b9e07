---------------------------- MODULE MCValidation ----------------------------
(* An instance of Validation for TLC. *)
EXTENDS Validation

Lower == [IT |-> "it", it |-> "it", Italy |-> "italy", italy |-> "italy",
          DE |-> "de", Germany |-> "germany", Yes |-> "yes", No |-> "no", x |-> "x"]

\* A blank in front is written as a dash.
FoldText(text)    == IF text = "-Yes" THEN "-yes" ELSE Lower[text]
StripText(text)   == IF text = "-Yes" THEN "Yes" ELSE text
DecimalText(text) == IF text = "1" THEN "1.0" ELSE text

NoRules == Rules(FALSE, <<>>, FALSE, FALSE, FALSE)

Countries == <<Option(Str("IT"), Str("Italy")), Option(Str("DE"), Str("Germany"))>>

\* The label of the first option is the value of the second.
Swapped == <<Option(Str("IT"), Str("DE")), Option(Str("DE"), Str("Germany"))>>

Numbers == <<Option(Num("1"), Str("Yes")), Option(Float("7.5"), Str("No"))>>

Answers == <<Option(Bool(TRUE), Str("Yes")), Option(Bool(FALSE), Str("No"))>>

Types == {"string", "enum", "number", "integer", "boolean", "array"}

EveryField ==
  [type: Types,
   rules: {NoRules, Rules(FALSE, <<>>, FALSE, FALSE, TRUE), Rules(TRUE, <<>>, FALSE, FALSE, FALSE)}
     \cup {Rules(TRUE, options, multiple, caseSensitive, FALSE) :
             options \in {Countries, Swapped, Numbers, Answers},
             multiple \in BOOLEAN, caseSensitive \in BOOLEAN}]

Scalars == {Null, Str("IT"), Str("it"), Str("Italy"), Str("DE"), Str("Germany"), Str("Yes"),
            Str("-Yes"), Str("x"),
            Num("1"), Num("7"), Float("1"), Float("7.5"), Bool(TRUE), Bool(FALSE)}

EveryValue ==
  Scalars \cup {List(<<>>), List(<<Str("italy")>>), List(<<Str("DE"), Str("x")>>),
                List(<<Float("1"), Str("No")>>), List(<<Null>>)}

=============================================================================
