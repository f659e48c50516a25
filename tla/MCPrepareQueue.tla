--------------------------- MODULE MCPrepareQueue ---------------------------
(***************************************************************************)
(* Two videos, two clients; a queue of three entries lets one video be     *)
(* tried again after a failure while the other waits.                      *)
(***************************************************************************)
EXTENDS PrepareQueue, TLC

CONSTANTS film, other, stemA, stemB, c1, c2

MCVideos == {film, other}
MCStems == {stemA, stemB}
MCClients == {c1, c2}

\* Two films in files of their own names.
OwnStems == (film :> stemA) @@ (other :> stemB)

\* film.mkv and film.avi in one folder.
SharedStem == (film :> stemA) @@ (other :> stemA)
=============================================================================
