-------------------------- MODULE MCProviderStream --------------------------
(* Model-checking instance of ProviderStream. *)
EXTENDS ProviderStream

Text == [kind |-> "text"]
Call(i, id, named) == [kind |-> "call", index |-> i, id |-> id, named |-> named]
Chunk(fragments, finish, bad) == [fragments |-> fragments, finish |-> finish, bad |-> bad]

\* Text; a call in one or two parts, with another call that has or takes the
\* same id; an end with and without something before it; usage only; malformed
\* behind a good beginning.
MCChunks ==
  {Chunk(<<Text>>, FALSE, FALSE),
   Chunk(<<Call(0, "a", TRUE)>>, FALSE, FALSE),
   Chunk(<<Call(1, "a", FALSE)>>, FALSE, FALSE),
   Chunk(<<Text, Call(1, "b", TRUE)>>, FALSE, FALSE),
   Chunk(<<Call(1, "none", TRUE)>>, TRUE, FALSE),
   Chunk(<<>>, TRUE, FALSE),
   Chunk(<<>>, FALSE, FALSE),
   Chunk(<<Text>>, FALSE, TRUE)}
=============================================================================
