------------------------------- MODULE Guards -------------------------------
(***************************************************************************)
(* What an operation must pass before anything of it is executed: the      *)
(* complexity limit of gqlgen with the costs the service gives its lists,  *)
(* then the depth limit and the limits on `first` of guardMiddleware.      *)
(*                                                                         *)
(* A document is what the schema accepts: a selection, a sequence of       *)
(* fields, inline fragments and spreads of named fragments, which do not   *)
(* refer to themselves.  Of fields only their part in a list matters: a    *)
(* "list" has a connection with "edges", each with a "node".               *)
(***************************************************************************)
EXTENDS Integers, Sequences, FiniteSets, SequencesExt

CONSTANTS
    MaxPageSize, MaxDepth, ComplexityLimit, \* of config.GraphQLConfig
    WordSize,   \* the bits of Go's int
    Documents   \* operations with their fragments: [selection, fragments]

ASSUME LimitsAssumption ==
    /\ MaxPageSize \in Nat \ {0} /\ MaxDepth \in Nat \ {0}
    /\ ComplexityLimit \in Nat \ {0} /\ WordSize \in Nat \ {0}

\* Selections.  args is the list of the values of `first`, with one or none.
Field(name, args, selection) ==
    [kind |-> "field", name |-> name, args |-> args, selection |-> selection]
Leaf == Field("leaf", <<>>, <<>>)
List(first, selection) ==
    Field("list", <<first>>, <<Field("edges", <<>>, <<Field("node", <<>>, selection)>>), Leaf>>)
InlineFragment(selection) == [kind |-> "inline", selection |-> selection]
Spread(name) == [kind |-> "spread", name |-> name]

-----------------------------------------------------------------------------
MaxInt == 2^(WordSize - 1) - 1

\* Go's arithmetic on int.
Wrap(x) == ((x + MaxInt + 1) % 2^WordSize) - MaxInt - 1

\* gqlgen adds without overflow and without negative operands.
SafeAdd(a, b) ==
    LET pos(x) == IF x < 0 THEN 0 ELSE x
        sum == pos(a) + pos(b)
    IN  IF sum > MaxInt THEN MaxInt ELSE sum

\* The costs NewHandler gives to posts, comments and replies.
ListCost(child, first) == Wrap(1 + Wrap(child * first))

\* executableSchema.Complexity: whether a field has a cost of its own.
HasCost(field) == field.name = "list"

RECURSIVE Complexity(_, _)

\* gqlgen: a cost below that of the children is not believed.
FieldCost(field, fragments) ==
    LET child == Complexity(field.selection, fragments) IN
    IF HasCost(field) /\ ListCost(child, field.args[1]) >= child
      THEN ListCost(child, field.args[1])
      ELSE SafeAdd(1, child)

Complexity(selection, fragments) ==
    LET cost(s) == CASE s.kind = "field" -> FieldCost(s, fragments)
                     [] s.kind = "inline" -> Complexity(s.selection, fragments)
                     [] s.kind = "spread" -> Complexity(fragments[s.name], fragments)
    IN  FoldLeft(LAMBDA sum, s : SafeAdd(sum, cost(s)), 0, selection)

-----------------------------------------------------------------------------
RECURSIVE selectionDepth(_, _, _, _)

\* A leaf does not count; a fragment counts as a level of its own, each time it
\* is spread.
selectionDepth(selection, fragments, currentDepth, visited) ==
    LET depth(s) ==
          CASE s.kind = "field" /\ s.selection = <<>> -> currentDepth
            [] s.kind = "field" /\ s.selection # <<>> ->
                 selectionDepth(s.selection, fragments, currentDepth + 1, visited)
            [] s.kind = "inline" ->
                 selectionDepth(s.selection, fragments, currentDepth + 1, visited)
            [] s.kind = "spread" ->
                 IF s.name \in visited THEN currentDepth
                 ELSE selectionDepth(fragments[s.name], fragments, currentDepth + 1,
                                     visited \cup {s.name})
    IN  Max({currentDepth} \cup {depth(selection[i]) : i \in DOMAIN selection})

validateDepthLimit(doc) == selectionDepth(doc.selection, doc.fragments, 1, {}) <= MaxDepth

\* Mutant of validateFieldFirstArgument: left to the complexity limit.
validateFieldFirstArgumentPositive(field) ==
    \A i \in DOMAIN field.args : field.args[i] > 0

validateFieldFirstArgument(field) ==
    \A i \in DOMAIN field.args : field.args[i] > 0 /\ field.args[i] <= MaxPageSize

RECURSIVE validateFirstArguments(_, _, _)

validateFirstArguments(selection, fragments, visited) ==
    \A i \in DOMAIN selection :
        LET s == selection[i] IN
        CASE s.kind = "field" ->
               /\ validateFieldFirstArgument(s)
               /\ validateFirstArguments(s.selection, fragments, visited)
          [] s.kind = "inline" -> validateFirstArguments(s.selection, fragments, visited)
          [] s.kind = "spread" ->
               s.name \in visited
                 \/ validateFirstArguments(fragments[s.name], fragments,
                                           visited \cup {s.name})

\* The code an operation is refused with, or "ok".  Which of the two codes of
\* `first` it is, is not told apart.
Verdict(doc) ==
    CASE Complexity(doc.selection, doc.fragments) > ComplexityLimit
           -> "COMPLEXITY_LIMIT_EXCEEDED"
      [] OTHER ->
           IF ~validateDepthLimit(doc) THEN "GRAPHQL_DEPTH_LIMIT"
           ELSE IF ~validateFirstArguments(doc.selection, doc.fragments, {})
             THEN "GRAPHQL_PAGINATION" ELSE "ok"

-----------------------------------------------------------------------------
\* What the limits are for, without words that overflow and costs that are
\* guessed: the fields in the largest answer to a selection whose edges come
\* n times, and how deeply fields are nested in it.
RECURSIVE AnswerSize(_, _, _)

AnswerSize(selection, fragments, n) ==
    LET first(s) == IF s.args = <<>> THEN 0 ELSE Max({0, s.args[1]})
        size(s) ==
          CASE s.kind = "field" ->
                 (IF s.name = "edges" THEN n ELSE 1)
                   * (1 + AnswerSize(s.selection, fragments, first(s)))
            [] s.kind = "inline" -> AnswerSize(s.selection, fragments, n)
            [] s.kind = "spread" -> AnswerSize(fragments[s.name], fragments, n)
    IN  FoldLeft(LAMBDA sum, s : sum + size(s), 0, selection)

RECURSIVE Nesting(_, _)

Nesting(selection, fragments) ==
    LET nesting(s) ==
          CASE s.kind = "field" -> 1 + Nesting(s.selection, fragments)
            [] s.kind = "inline" -> Nesting(s.selection, fragments)
            [] s.kind = "spread" -> Nesting(fragments[s.name], fragments)
    IN  Max({0} \cup {nesting(selection[i]) : i \in DOMAIN selection})

\* The largest answer has no more fields than the complexity limit, and is no
\* deeper than the depth limit.
IsBounded(doc) ==
    /\ AnswerSize(doc.selection, doc.fragments, 0) <= ComplexityLimit
    /\ Nesting(doc.selection, doc.fragments) <= MaxDepth

\* The outcomes the documents have.
Outcomes == {[verdict |-> Verdict(d), bounded |-> IsBounded(d)] : d \in Documents}
=============================================================================
