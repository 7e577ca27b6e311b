----------------------------- MODULE MCConsole -----------------------------
(* Small instances of Console for TLC. *)
EXTENDS Console

(* What a script is put together from: every delimiter, its halves and its  *)
(* escapes, a semicolon, a line break, a name, a digit, backslash commands. *)
Piece ==
  {<<"'">>, <<"E", "'">>, <<"\\", "'">>, <<"'", "\n", "'">>, <<"\"">>,
   <<"-", "-">>, <<"/", "*">>, <<"*", "/">>, <<"$", "$">>, <<"$", "a", "$">>,
   <<";">>, <<"\n">>, <<" ">>, <<"a">>, <<"1">>, <<"\\", "d">>, <<"\\", "?">>}

UpToFourPieces ==
  {p \o q \o r \o t : p, q, r, t \in Piece \cup {<<>>}}
=============================================================================
