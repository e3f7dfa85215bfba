----------------------------- MODULE MCRetrieval -----------------------------
(* Instances of Retrieval for TLC: a student asks about a class, whose teacher *)
(* shares a long document with an image, about an own note and the public team. *)
EXTENDS Retrieval

CONSTANTS student, teacher, class, own, public, lesson, note, book, h1, h2, j1, j2

MCTypeOf  == (class :> "teacher" @@ own :> "private" @@ public :> "public")
MCOwnerOf == (class :> teacher @@ own :> student @@ public :> None)
MCTeamOf  == (lesson :> class @@ note :> own @@ book :> public)

Text(heading, page, tokens) == [heading |-> heading, page |-> page, tokens |-> tokens]

\* The lesson has a long section and another; parsed again it is shorter.
MCBody ==
  (lesson :> <<<<Text(h1, 1, 2), Text(h1, 1, 2), Text(h1, 2, 2), Text(h2, 2, 2)>>,
               <<Text(h2, 1, 2), Text(None, 1, 2)>>>>
   @@ note :> <<<<Text(None, None, 1)>>, <<>>>>
   @@ book :> <<<<Text(None, 1, 3), Text(None, 1, 3)>>, <<Text(h1, 1, 1)>>>>)

MCSignals ==
  (lesson :> <<{[kind |-> "image", page |-> 2, tokens |-> 2, asset |-> TRUE]}, {}>>
   @@ note :> <<{}, {}>> @@ book :> <<{}, {}>>)

Symmetric == Permutations({j1, j2})
=============================================================================
