------------------------------ MODULE JsonValues -------------------------------
(***************************************************************************)
(* JSON values as Python sees them, as far as the rules and the field      *)
(* types tell them apart.                                                  *)
(*                                                                         *)
(* A string is a word, of which only the length matters (a word contains   *)
(* every shorter one), an ISO date, an e-mail address, an unbalanced       *)
(* pattern, or the text json.dumps makes of a value.  An object has no     *)
(* content, unless it is a choice: one with a value and a label.           *)
(***************************************************************************)
EXTENDS Integers, Sequences

Scalar(kind, n) == [kind |-> kind, n |-> n, items |-> <<>>]

Null == Scalar("null", 0)
Bool(b) == Scalar("bool", IF b THEN 1 ELSE 0)
Whole(n) == Scalar("int", n)
Float(n) == Scalar("float", n)       \* the float that equals n
Word(n) == Scalar("word", n)         \* a string of length n
Date(n) == Scalar("date", n)         \* the n-th day, in ISO 8601
Email(n) == Scalar("email", n)
Unbalanced == Scalar("unbalanced", 1)
List(items) == [kind |-> "list", n |-> 0, items |-> items]
Object == Scalar("object", 0)
Choice(value) == [kind |-> "choice", n |-> 0, items |-> <<value>>]

EmptyText == Word(0)

--------------------------------------------------------------------------------
\* isinstance(v, str), (int), (int, float) and (list); a bool is an int.
IsText(v) == v.kind \in {"word", "date", "email", "unbalanced", "dumped"}
IsInt(v) == v.kind \in {"int", "bool"}
IsNumber(v) == v.kind \in {"int", "bool", "float"}
IsList(v) == v.kind = "list"

\* A set asked for one of these raises TypeError.
Unhashable(v) == v.kind \in {"list", "object", "choice"}

\* a == b: numbers are equal across their kinds (True == 1 == 1.0), also as
\* items of a list; what is nested deeper is compared as it is.
SameScalar(a, b) == a = b \/ (IsNumber(a) /\ IsNumber(b) /\ a.n = b.n)

PyEq(a, b) ==
  IF IsList(a) /\ IsList(b)
  THEN /\ Len(a.items) = Len(b.items)
       /\ \A i \in DOMAIN a.items : SameScalar(a.items[i], b.items[i])
  ELSE SameScalar(a, b)

\* v in list
Among(v, items) == \E i \in DOMAIN items : PyEq(v, items[i])

\* a in b, for two strings
SubText(a, b) ==
  a = b \/ (a.kind = "word" /\ (a.n = 0 \/ (b.kind = "word" /\ a.n <= b.n)))

\* len(v) of a string; the addresses and dumped values in use are short
TextLength(v) ==
  CASE v.kind \in {"word", "unbalanced"} -> v.n
    [] v.kind = "date" -> 10
    [] v.kind \in {"email", "dumped"} -> 6

\* json.dumps of a value that is not a string
Dumped(v) == [v EXCEPT !.kind = "dumped"]

--------------------------------------------------------------------------------
(* Python stops a loop over checks at the first that decides: all() at the   *)
(* first that is not "true", any() at the first that is not "false", a       *)
(* sequence of validators at the first that is not "ok".                     *)

\* Mutant of FirstOther: the last check decides.
LastOther(values, neutral) == IF values = <<>> THEN neutral ELSE values[Len(values)]

FirstOther(values, neutral) ==
  LET others == {i \in DOMAIN values : values[i] # neutral}
  IN  IF others = {} THEN neutral
      ELSE values[CHOOSE i \in others : \A j \in others : i <= j]

================================================================================
