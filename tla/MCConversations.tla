--------------------------- MODULE MCConversations ---------------------------
(* Two updates at a time and three messages, the second too long for the   *)
(* room.  Searches for an author, for his books, and for a title with him: *)
(* one of the titles is in quotation marks and holds what the text is cut  *)
(* at.                                                                     *)
EXTENDS Conversations, TLC

CONSTANTS h1, h2

mcHandlers == {h1, h2}
mcWords == {"stone", "stand", "by", "me", "ivo", "mark"}
mcSize == <<1, 3, 1>>
mcAsks ==
    {Ask("combined", <<"stone">>, <<"ivo">>, 0),
     Ask("combined", <<"mark", "stand", "by", "me", "mark">>, <<"ivo">>, 0),
     Ask("author", <<>>, <<"ivo">>, 0),
     Ask("author_books", <<>>, <<"ivo">>, 1)}
mcPrompts == {"waiting_for_author"}
Symmetry == Permutations(mcHandlers)
=============================================================================
