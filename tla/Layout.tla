------------------------------- MODULE Layout -------------------------------
(***************************************************************************)
(* What is serialized, in a message or in a file, is a sequence of fields, *)
(* one after the other; what is read is a set of fields, each at a place.  *)
(***************************************************************************)
EXTENDS Integers, Sequences

Field(name, length) == [name |-> name, length |-> length]

\* The number of bytes of all fields.
TotalLength(fields) ==
    LET upTo[n \in 0..Len(fields)] == IF n = 0 THEN 0 ELSE upTo[n - 1] + fields[n].length
    IN upTo[Len(fields)]

\* addToEnd and copyToEnd put a field after those that are there.
Start(fields, i) == TotalLength(SubSeq(fields, 1, i - 1))

\* A field of this name and length is at this place.
Placed(name, start, length) == [name |-> name, start |-> start, length |-> length]

\* Where the fields of a sequence are.
Written(fields) ==
    {Placed(fields[i].name, Start(fields, i), fields[i].length) : i \in DOMAIN fields}
=============================================================================
