--------------------------- MODULE MCLibrarySync ---------------------------
(***************************************************************************)
(* Two roots; the first holds a folder with a film and an episode, the     *)
(* second holds one film.                                                  *)
(***************************************************************************)
EXTENDS LibrarySync, TLC

CONSTANTS serije, filmovi, mapa, film, epizoda, drugi, a, b

MCRoots == {serije, filmovi}
MCFolders == {mapa}
MCFilms == {film, drugi}
MCEpisodes == {epizoda}
MCDirOf ==
  (mapa :> serije) @@ (film :> mapa) @@ (epizoda :> mapa) @@ (drugi :> filmovi)
MCScanRank ==
  (serije :> 1) @@ (mapa :> 2) @@ (epizoda :> 3) @@ (film :> 4)
    @@ (filmovi :> 5) @@ (drugi :> 6)
TwoTasks == {a, b}
Symmetry == Permutations(TwoTasks)
Everything == {mapa, film, epizoda, drugi}
OnlyFilm == {film}

\* One rescan after the other, with a failure and a restart; two rescans at
\* once, with empty folders dropped.
Faults == [videoRoots |-> {}, changes |-> 2, failures |-> 1, restarts |-> 1, overlaps |-> 0]
Races == [videoRoots |-> {serije}, changes |-> 2, failures |-> 0, restarts |-> 0, overlaps |-> 2]
FaultsAndRaces == {Faults, Races}
Quietly == {[Races EXCEPT !.changes = 1, !.overlaps = 0]}
=============================================================================
